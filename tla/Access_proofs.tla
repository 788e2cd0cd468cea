--------------------------- MODULE Access_proofs ----------------------------
(***************************************************************************)
(* Requests are answered as they were meant: the router takes each to the  *)
(* endpoint it was written for, guards let by who is entitled and no one   *)
(* else, and what guards and pipes refuse is documented.  The table of     *)
(* endpoints is gone through controller by controller; what it says, with  *)
(* what the grants of the roles decide, carries a request from guard to    *)
(* guard (WayInv).                                                         *)
(*                                                                         *)
(* And the weights of a role's grants: while insertions do not cross and   *)
(* none is cut short, the room that updateHigherGrants makes keeps the     *)
(* grants apart and in their order (RoomInv).                              *)
(***************************************************************************)
EXTENDS Access, TLAPS

-----------------------------------------------------------------------------
(* The permissions endpoints ask for *)

\* A permission asks for no parameters but these.
Asks(p, words) ==
  /\ Len(p) \in Nat /\ DOMAIN p = 1..Len(p)
  /\ \A i \in 1..Len(p) : p[i] \in Params => p[i] \in words

\* What a user may do with what is his own, what is up to his role in a group,
\* and what neither role of user "1" has a grant for.
Own(p, words) == Asks(p, words) /\ Len(p) >= 3 /\ p[1] = "users" /\ p[2] = "userId"
OfGroup(p, words) ==
  /\ Asks(p, words) /\ Len(p) >= 3 /\ p[1] = "groups" /\ p[2] = "groupId"
  /\ \A i \in 3..Len(p) : p[i] \notin Params
  /\ p[3] = "students" => Len(p) >= 4
  /\ p = PERMISSION.GROUPS_GROUPID_ADMIN_SWITCH <=>
       Len(p) = 4 /\ p[3] = "admin" /\ p[4] = "switch"
  /\ p = PERMISSION.GROUPS_GROUPID_STUDENTS_GET <=>
       Len(p) = 4 /\ p[3] = "students" /\ p[4] = "get"
OfNobody(p, words) ==
  /\ Asks(p, words) /\ Len(p) >= 2 /\ p[1] \notin Params
  /\ p[1] \notin {"users", "groups"} \/ p[2] \notin Params \cup Ids
Kinds(p, words) == Own(p, words) \/ OfGroup(p, words) \/ OfNobody(p, words)

LEMMA MoreWords ==
  ASSUME NEW p, NEW words, NEW more, words \subseteq more
  PROVE  Kinds(p, words) => Kinds(p, more)
  BY DEF Kinds, Own, OfGroup, OfNobody, Asks

LEMMA KindsAsk ==
  ASSUME NEW p, NEW words, Kinds(p, words)
  PROVE  Asks(p, words) /\ 2 \in 1..Len(p)
<1>1. Asks(p, words) /\ Len(p) \in Nat
  BY DEF Kinds, Own, OfGroup, OfNobody, Asks
<1>2. Len(p) >= 3 \/ Len(p) >= 2
  BY DEF Kinds, Own, OfGroup, OfNobody
<1> QED BY <1>1, <1>2

LEMMA OwnPermissions ==
  /\ Own(PERMISSION.USERS_USERID_GET, {"userId"})
  /\ Own(PERMISSION.USERS_USERID_UPDATE, {"userId"})
  /\ Own(PERMISSION.USERS_USERID_DELETE, {"userId"})
  /\ Own(PERMISSION.USERS_USERID_CONTACTS_CREATE, {"userId"})
  /\ Own(PERMISSION.USERS_USERID_CONTACTS_UPDATE, {"userId"})
  /\ Own(PERMISSION.USERS_USERID_CONTACTS_GET, {"userId"})
  /\ Own(PERMISSION.USERS_USERID_CONTACTS_DELETE, {"userId"})
  /\ Own(PERMISSION.USERS_USERID_GROUP_REQUEST, {"userId"})
  /\ Own(PERMISSION.USERS_USERID_POLL_TEACHERS_GET, {"userId"})
  /\ Own(PERMISSION.USERS_USERID_SELECTIVE_GET, {"userId"})
  /\ Own(PERMISSION.USERS_USERID_SELECTIVE_DISCIPLINES, {"userId"})
  /\ Own(PERMISSION.USERS_USERID_SUPERHERO_CREATE, {"userId"})
  /\ Own(PERMISSION.USERS_USERID_STUDENT_UPDATE, {"userId"})
  /\ Own(PERMISSION.USERS_USERID_TELEGRAM_LINK, {"userId"})
  /\ Own(PERMISSION.USERS_USERID_TEACHERS_TEACHERID_DISCIPLINES_GET, {"userId", "teacherId"})
<1>1. /\ PERMISSION.USERS_USERID_GET = <<"users", "userId", "get">>
      /\ PERMISSION.USERS_USERID_UPDATE = <<"users", "userId", "update">>
      /\ PERMISSION.USERS_USERID_DELETE = <<"users", "userId", "delete">>
      /\ PERMISSION.USERS_USERID_CONTACTS_CREATE = <<"users", "userId", "contacts", "create">>
      /\ PERMISSION.USERS_USERID_CONTACTS_UPDATE = <<"users", "userId", "contacts", "update">>
      /\ PERMISSION.USERS_USERID_CONTACTS_GET = <<"users", "userId", "contacts", "get">>
  BY DEF PERMISSION
<1>2. /\ Own(PERMISSION.USERS_USERID_GET, {"userId"})
      /\ Own(PERMISSION.USERS_USERID_UPDATE, {"userId"})
      /\ Own(PERMISSION.USERS_USERID_DELETE, {"userId"})
      /\ Own(PERMISSION.USERS_USERID_CONTACTS_CREATE, {"userId"})
      /\ Own(PERMISSION.USERS_USERID_CONTACTS_UPDATE, {"userId"})
      /\ Own(PERMISSION.USERS_USERID_CONTACTS_GET, {"userId"})
  BY <1>1 DEF Own, Asks, Params
<1>3. /\ PERMISSION.USERS_USERID_CONTACTS_DELETE = <<"users", "userId", "contacts", "delete">>
      /\ PERMISSION.USERS_USERID_GROUP_REQUEST = <<"users", "userId", "group", "request">>
      /\ PERMISSION.USERS_USERID_POLL_TEACHERS_GET =
           <<"users", "userId", "poll", "teachers", "get">>
      /\ PERMISSION.USERS_USERID_SELECTIVE_GET = <<"users", "userId", "selective", "get">>
      /\ PERMISSION.USERS_USERID_SELECTIVE_DISCIPLINES =
           <<"users", "userId", "selectiveDisciplines">>
      /\ PERMISSION.USERS_USERID_SUPERHERO_CREATE = <<"users", "userId", "superhero", "create">>
  BY DEF PERMISSION
<1>4. /\ Own(PERMISSION.USERS_USERID_CONTACTS_DELETE, {"userId"})
      /\ Own(PERMISSION.USERS_USERID_GROUP_REQUEST, {"userId"})
      /\ Own(PERMISSION.USERS_USERID_POLL_TEACHERS_GET, {"userId"})
      /\ Own(PERMISSION.USERS_USERID_SELECTIVE_GET, {"userId"})
      /\ Own(PERMISSION.USERS_USERID_SELECTIVE_DISCIPLINES, {"userId"})
      /\ Own(PERMISSION.USERS_USERID_SUPERHERO_CREATE, {"userId"})
  BY <1>3 DEF Own, Asks, Params
<1>5. /\ PERMISSION.USERS_USERID_STUDENT_UPDATE = <<"users", "userId", "student", "update">>
      /\ PERMISSION.USERS_USERID_TELEGRAM_LINK = <<"users", "userId", "telegram", "link">>
      /\ PERMISSION.USERS_USERID_TEACHERS_TEACHERID_DISCIPLINES_GET =
           <<"users", "userId", "teachers", "teacherId", "disciplines", "get">>
  BY DEF PERMISSION
<1>6. /\ Own(PERMISSION.USERS_USERID_STUDENT_UPDATE, {"userId"})
      /\ Own(PERMISSION.USERS_USERID_TELEGRAM_LINK, {"userId"})
      /\ Own(PERMISSION.USERS_USERID_TEACHERS_TEACHERID_DISCIPLINES_GET, {"userId", "teacherId"})
  BY <1>5 DEF Own, Asks, Params
<1> QED BY <1>2, <1>4, <1>6

LEMMA GroupPermissions ==
  /\ OfGroup(PERMISSION.GROUPS_GROUPID_ADMIN_SWITCH, {"groupId"})
  /\ OfGroup(PERMISSION.GROUPS_GROUPID_ANSWERS_SEND, {"groupId"})
  /\ OfGroup(PERMISSION.GROUPS_GROUPID_CAPTAIN_GET, {"groupId"})
  /\ OfGroup(PERMISSION.GROUPS_GROUPID_DISCIPLINES_CREATE, {"groupId"})
  /\ OfGroup(PERMISSION.GROUPS_GROUPID_DISCIPLINES_GET, {"groupId"})
  /\ OfGroup(PERMISSION.GROUPS_GROUPID_DISCIPLINES_TEACHERS_GET, {"groupId"})
  /\ OfGroup(PERMISSION.GROUPS_GROUPID_DISCIPLINE_TEACHERS_REMOVE, {"groupId"})
  /\ OfGroup(PERMISSION.GROUPS_GROUPID_EVENTS_CREATE, {"groupId"})
  /\ OfGroup(PERMISSION.GROUPS_GROUPID_EVENTS_GET, {"groupId"})
  /\ OfGroup(PERMISSION.GROUPS_GROUPID_EVENTS_UPDATE, {"groupId"})
  /\ OfGroup(PERMISSION.GROUPS_GROUPID_EVENTS_DELETE, {"groupId"})
  /\ OfGroup(PERMISSION.GROUPS_GROUPID_QUESTIONS_GET, {"groupId"})
  /\ OfGroup(PERMISSION.GROUPS_GROUPID_STUDENTS_ADD, {"groupId"})
  /\ OfGroup(PERMISSION.GROUPS_GROUPID_STUDENTS_GET, {"groupId"})
  /\ OfGroup(PERMISSION.GROUPS_GROUPID_STUDENTS_REMOVE, {"groupId"})
  /\ OfGroup(PERMISSION.GROUPS_GROUPID_STUDENTS_VERIFY, {"groupId"})
  /\ OfGroup(PERMISSION.GROUPS_GROUPID_STUDENTS_UNVERIFIED_GET, {"groupId"})
  /\ OfGroup(PERMISSION.GROUPS_GROUPID_TRANSFER, {"groupId"})
  /\ OfGroup(PERMISSION.GROUPS_GROUPID_LIST_GET, {"groupId"})
  /\ OfGroup(PERMISSION.GROUPS_GROUPID_LEAVE, {"groupId"})
<1>1. /\ PERMISSION.GROUPS_GROUPID_ADMIN_SWITCH = <<"groups", "groupId", "admin", "switch">>
      /\ PERMISSION.GROUPS_GROUPID_STUDENTS_GET = <<"groups", "groupId", "students", "get">>
  BY DEF PERMISSION
<1>2. /\ PERMISSION.GROUPS_GROUPID_ADMIN_SWITCH = <<"groups", "groupId", "admin", "switch">>
      /\ PERMISSION.GROUPS_GROUPID_ANSWERS_SEND = <<"groups", "groupId", "answers", "send">>
      /\ PERMISSION.GROUPS_GROUPID_CAPTAIN_GET = <<"groups", "groupId", "captain", "get">>
      /\ PERMISSION.GROUPS_GROUPID_DISCIPLINES_CREATE =
           <<"groups", "groupId", "disciplines", "create">>
      /\ PERMISSION.GROUPS_GROUPID_DISCIPLINES_GET = <<"groups", "groupId", "disciplines", "get">>
      /\ PERMISSION.GROUPS_GROUPID_DISCIPLINES_TEACHERS_GET =
           <<"groups", "groupId", "disciplines", "teachers", "get">>
  BY DEF PERMISSION
<1>3. /\ OfGroup(PERMISSION.GROUPS_GROUPID_ADMIN_SWITCH, {"groupId"})
      /\ OfGroup(PERMISSION.GROUPS_GROUPID_ANSWERS_SEND, {"groupId"})
      /\ OfGroup(PERMISSION.GROUPS_GROUPID_CAPTAIN_GET, {"groupId"})
      /\ OfGroup(PERMISSION.GROUPS_GROUPID_DISCIPLINES_CREATE, {"groupId"})
      /\ OfGroup(PERMISSION.GROUPS_GROUPID_DISCIPLINES_GET, {"groupId"})
      /\ OfGroup(PERMISSION.GROUPS_GROUPID_DISCIPLINES_TEACHERS_GET, {"groupId"})
  BY <1>2, <1>1 DEF OfGroup, Asks, Params
<1>4. /\ PERMISSION.GROUPS_GROUPID_DISCIPLINE_TEACHERS_REMOVE =
           <<"groups", "groupId", "disciplineTeachers", "remove">>
      /\ PERMISSION.GROUPS_GROUPID_EVENTS_CREATE = <<"groups", "groupId", "events", "create">>
      /\ PERMISSION.GROUPS_GROUPID_EVENTS_GET = <<"groups", "groupId", "events", "get">>
      /\ PERMISSION.GROUPS_GROUPID_EVENTS_UPDATE = <<"groups", "groupId", "events", "update">>
      /\ PERMISSION.GROUPS_GROUPID_EVENTS_DELETE = <<"groups", "groupId", "events", "delete">>
      /\ PERMISSION.GROUPS_GROUPID_QUESTIONS_GET = <<"groups", "groupId", "questions", "get">>
  BY DEF PERMISSION
<1>5. /\ OfGroup(PERMISSION.GROUPS_GROUPID_DISCIPLINE_TEACHERS_REMOVE, {"groupId"})
      /\ OfGroup(PERMISSION.GROUPS_GROUPID_EVENTS_CREATE, {"groupId"})
      /\ OfGroup(PERMISSION.GROUPS_GROUPID_EVENTS_GET, {"groupId"})
      /\ OfGroup(PERMISSION.GROUPS_GROUPID_EVENTS_UPDATE, {"groupId"})
      /\ OfGroup(PERMISSION.GROUPS_GROUPID_EVENTS_DELETE, {"groupId"})
      /\ OfGroup(PERMISSION.GROUPS_GROUPID_QUESTIONS_GET, {"groupId"})
  BY <1>4, <1>1 DEF OfGroup, Asks, Params
<1>6. /\ PERMISSION.GROUPS_GROUPID_STUDENTS_ADD = <<"groups", "groupId", "students", "add">>
      /\ PERMISSION.GROUPS_GROUPID_STUDENTS_GET = <<"groups", "groupId", "students", "get">>
      /\ PERMISSION.GROUPS_GROUPID_STUDENTS_REMOVE = <<"groups", "groupId", "students", "remove">>
      /\ PERMISSION.GROUPS_GROUPID_STUDENTS_VERIFY = <<"groups", "groupId", "students", "verify">>
      /\ PERMISSION.GROUPS_GROUPID_STUDENTS_UNVERIFIED_GET =
           <<"groups", "groupId", "students", "unverified", "get">>
      /\ PERMISSION.GROUPS_GROUPID_TRANSFER = <<"groups", "groupId", "transfer">>
  BY DEF PERMISSION
<1>7. /\ OfGroup(PERMISSION.GROUPS_GROUPID_STUDENTS_ADD, {"groupId"})
      /\ OfGroup(PERMISSION.GROUPS_GROUPID_STUDENTS_GET, {"groupId"})
      /\ OfGroup(PERMISSION.GROUPS_GROUPID_STUDENTS_REMOVE, {"groupId"})
      /\ OfGroup(PERMISSION.GROUPS_GROUPID_STUDENTS_VERIFY, {"groupId"})
      /\ OfGroup(PERMISSION.GROUPS_GROUPID_STUDENTS_UNVERIFIED_GET, {"groupId"})
      /\ OfGroup(PERMISSION.GROUPS_GROUPID_TRANSFER, {"groupId"})
  BY <1>6, <1>1 DEF OfGroup, Asks, Params
<1>8. /\ PERMISSION.GROUPS_GROUPID_LIST_GET = <<"groups", "groupId", "list", "get">>
      /\ PERMISSION.GROUPS_GROUPID_LEAVE = <<"groups", "groupId", "leave">>
  BY DEF PERMISSION
<1>9. /\ OfGroup(PERMISSION.GROUPS_GROUPID_LIST_GET, {"groupId"})
      /\ OfGroup(PERMISSION.GROUPS_GROUPID_LEAVE, {"groupId"})
  BY <1>8, <1>1 DEF OfGroup, Asks, Params
<1> QED BY <1>3, <1>5, <1>7, <1>9

LEMMA OtherPermissions ==
  /\ OfNobody(PERMISSION.ADMISSION_GET, {})
  /\ OfNobody(PERMISSION.ADMISSION_DELETE, {})
  /\ OfNobody(PERMISSION.ADMISSION_PRIORITIES_GET, {})
  /\ OfNobody(PERMISSION.ADMISSION_PRIORITIES_APPROVE, {})
  /\ OfNobody(PERMISSION.CATHEDRAS_CREATE, {})
  /\ OfNobody(PERMISSION.CATHEDRAS_UPDATE, {})
  /\ OfNobody(PERMISSION.CATHEDRAS_DELETE, {})
  /\ OfNobody(PERMISSION.DISCIPLINE_TEACHERS_CREATE, {})
  /\ OfNobody(PERMISSION.DISCIPLINE_TEACHERS_UPDATE, {})
  /\ OfNobody(PERMISSION.DISCIPLINE_TEACHERS_DELETE, {})
  /\ OfNobody(PERMISSION.DISCIPLINE_DELETE, {})
  /\ OfNobody(PERMISSION.ENTRANT_CONTRACT_CREATE, {})
  /\ OfNobody(PERMISSION.GROUPS_CREATE, {})
  /\ OfNobody(PERMISSION.GROUPS_UPDATE, {})
  /\ OfNobody(PERMISSION.GROUPS_DELETE, {})
  /\ OfNobody(PERMISSION.GROUPS_CAPTAIN_SWITCH, {})
  /\ OfNobody(PERMISSION.QUESTIONS_CREATE, {})
  /\ OfNobody(PERMISSION.QUESTIONS_UPDATE, {})
  /\ OfNobody(PERMISSION.QUESTIONS_DELETE, {})
  /\ OfNobody(PERMISSION.QUESTIONS_ROLES_GIVE, {})
  /\ OfNobody(PERMISSION.QUESTIONS_ROLES_DELETE, {})
  /\ OfNobody(PERMISSION.RESOURCES_CREATE, {})
  /\ OfNobody(PERMISSION.RESOURCES_UPDATE, {})
  /\ OfNobody(PERMISSION.RESOURCES_DELETE, {})
  /\ OfNobody(PERMISSION.ROLES_CREATE, {})
  /\ OfNobody(PERMISSION.ROLES_ROLEID_UPDATE, {})
  /\ OfNobody(PERMISSION.ROLES_ROLEID_DELETE, {})
  /\ OfNobody(PERMISSION.ROLES_GRANTS_CREATE, {})
  /\ OfNobody(PERMISSION.ROLES_ROLEID_GRANT_CREATE, {})
  /\ OfNobody(PERMISSION.ROLES_ROLEID_GRANT_UPDATE, {})
  /\ OfNobody(PERMISSION.GRANTS_DELETE, {})
  /\ OfNobody(PERMISSION.SCHEDULE_PARSE, {})
  /\ OfNobody(PERMISSION.STUDENTS_DELETE, {})
  /\ OfNobody(PERMISSION.STUDENTS_GET, {})
  /\ OfNobody(PERMISSION.SUBJECTS_CREATE, {})
  /\ OfNobody(PERMISSION.SUBJECTS_UPDATE, {})
  /\ OfNobody(PERMISSION.SUBJECTS_DELETE, {})
  /\ OfNobody(PERMISSION.USERS_UPDATE, {})
  /\ OfNobody(PERMISSION.USERS_DELETE, {})
  /\ OfNobody(PERMISSION.USERS_GROUPS_SWITCH, {})
  /\ OfNobody(PERMISSION.TEACHERS_CREATE, {})
  /\ OfNobody(PERMISSION.TEACHERS_TEACHERID_UPDATE, {"teacherId"})
  /\ OfNobody(PERMISSION.TEACHERS_TEACHERID_DELETE, {"teacherId"})
  /\ OfNobody(PERMISSION.TEACHERS_TEACHERID_CATHEDRAS_UPDATE, {"teacherId"})
  /\ OfNobody(PERMISSION.TEACHERS_TEACHERID_CONTACTS_CREATE, {"teacherId"})
  /\ OfNobody(PERMISSION.TEACHERS_TEACHERID_CONTACTS_UPDATE, {"teacherId"})
  /\ OfNobody(PERMISSION.TEACHERS_TEACHERID_CONTACTS_DELETE, {"teacherId"})
<1>1. /\ PERMISSION.ADMISSION_GET = <<"admission", "get">>
      /\ PERMISSION.ADMISSION_DELETE = <<"admission", "delete">>
      /\ PERMISSION.ADMISSION_PRIORITIES_GET = <<"admission", "priorities", "get">>
      /\ PERMISSION.ADMISSION_PRIORITIES_APPROVE = <<"admission", "priorities", "approve">>
      /\ PERMISSION.CATHEDRAS_CREATE = <<"cathedras", "create">>
      /\ PERMISSION.CATHEDRAS_UPDATE = <<"cathedras", "update">>
  BY DEF PERMISSION
<1>2. /\ OfNobody(PERMISSION.ADMISSION_GET, {})
      /\ OfNobody(PERMISSION.ADMISSION_DELETE, {})
      /\ OfNobody(PERMISSION.ADMISSION_PRIORITIES_GET, {})
      /\ OfNobody(PERMISSION.ADMISSION_PRIORITIES_APPROVE, {})
      /\ OfNobody(PERMISSION.CATHEDRAS_CREATE, {})
      /\ OfNobody(PERMISSION.CATHEDRAS_UPDATE, {})
  BY <1>1 DEF OfNobody, Asks, Params, Ids
<1>3. /\ PERMISSION.CATHEDRAS_DELETE = <<"cathedras", "delete">>
      /\ PERMISSION.DISCIPLINE_TEACHERS_CREATE = <<"disciplineTeachers", "create">>
      /\ PERMISSION.DISCIPLINE_TEACHERS_UPDATE = <<"disciplineTeachers", "update">>
      /\ PERMISSION.DISCIPLINE_TEACHERS_DELETE = <<"disciplineTeachers", "delete">>
      /\ PERMISSION.DISCIPLINE_DELETE = <<"discipline", "delete">>
      /\ PERMISSION.ENTRANT_CONTRACT_CREATE = <<"entrant", "contract", "create">>
  BY DEF PERMISSION
<1>4. /\ OfNobody(PERMISSION.CATHEDRAS_DELETE, {})
      /\ OfNobody(PERMISSION.DISCIPLINE_TEACHERS_CREATE, {})
      /\ OfNobody(PERMISSION.DISCIPLINE_TEACHERS_UPDATE, {})
      /\ OfNobody(PERMISSION.DISCIPLINE_TEACHERS_DELETE, {})
      /\ OfNobody(PERMISSION.DISCIPLINE_DELETE, {})
      /\ OfNobody(PERMISSION.ENTRANT_CONTRACT_CREATE, {})
  BY <1>3 DEF OfNobody, Asks, Params, Ids
<1>5. /\ PERMISSION.GROUPS_CREATE = <<"groups", "create">>
      /\ PERMISSION.GROUPS_UPDATE = <<"groups", "update">>
      /\ PERMISSION.GROUPS_DELETE = <<"groups", "delete">>
      /\ PERMISSION.GROUPS_CAPTAIN_SWITCH = <<"groups", "captain", "switch">>
      /\ PERMISSION.QUESTIONS_CREATE = <<"questions", "create">>
      /\ PERMISSION.QUESTIONS_UPDATE = <<"questions", "update">>
  BY DEF PERMISSION
<1>6. /\ OfNobody(PERMISSION.GROUPS_CREATE, {})
      /\ OfNobody(PERMISSION.GROUPS_UPDATE, {})
      /\ OfNobody(PERMISSION.GROUPS_DELETE, {})
      /\ OfNobody(PERMISSION.GROUPS_CAPTAIN_SWITCH, {})
      /\ OfNobody(PERMISSION.QUESTIONS_CREATE, {})
      /\ OfNobody(PERMISSION.QUESTIONS_UPDATE, {})
  BY <1>5 DEF OfNobody, Asks, Params, Ids
<1>7. /\ PERMISSION.QUESTIONS_DELETE = <<"questions", "delete">>
      /\ PERMISSION.QUESTIONS_ROLES_GIVE = <<"questions", "roles", "give">>
      /\ PERMISSION.QUESTIONS_ROLES_DELETE = <<"questions", "roles", "delete">>
      /\ PERMISSION.RESOURCES_CREATE = <<"resources", "create">>
      /\ PERMISSION.RESOURCES_UPDATE = <<"resources", "update">>
      /\ PERMISSION.RESOURCES_DELETE = <<"resources", "delete">>
  BY DEF PERMISSION
<1>8. /\ OfNobody(PERMISSION.QUESTIONS_DELETE, {})
      /\ OfNobody(PERMISSION.QUESTIONS_ROLES_GIVE, {})
      /\ OfNobody(PERMISSION.QUESTIONS_ROLES_DELETE, {})
      /\ OfNobody(PERMISSION.RESOURCES_CREATE, {})
      /\ OfNobody(PERMISSION.RESOURCES_UPDATE, {})
      /\ OfNobody(PERMISSION.RESOURCES_DELETE, {})
  BY <1>7 DEF OfNobody, Asks, Params, Ids
<1>9. /\ PERMISSION.ROLES_CREATE = <<"roles", "create">>
      /\ PERMISSION.ROLES_ROLEID_UPDATE = <<"roles", "update">>
      /\ PERMISSION.ROLES_ROLEID_DELETE = <<"roles", "delete">>
      /\ PERMISSION.ROLES_GRANTS_CREATE = <<"roles", "grants", "create">>
      /\ PERMISSION.ROLES_ROLEID_GRANT_CREATE = <<"roles", "grant", "create">>
      /\ PERMISSION.ROLES_ROLEID_GRANT_UPDATE = <<"roles", "grant", "update">>
  BY DEF PERMISSION
<1>10. /\ OfNobody(PERMISSION.ROLES_CREATE, {})
       /\ OfNobody(PERMISSION.ROLES_ROLEID_UPDATE, {})
       /\ OfNobody(PERMISSION.ROLES_ROLEID_DELETE, {})
       /\ OfNobody(PERMISSION.ROLES_GRANTS_CREATE, {})
       /\ OfNobody(PERMISSION.ROLES_ROLEID_GRANT_CREATE, {})
       /\ OfNobody(PERMISSION.ROLES_ROLEID_GRANT_UPDATE, {})
  BY <1>9 DEF OfNobody, Asks, Params, Ids
<1>11. /\ PERMISSION.GRANTS_DELETE = <<"grants", "delete">>
       /\ PERMISSION.SCHEDULE_PARSE = <<"schedule", "parse">>
       /\ PERMISSION.STUDENTS_DELETE = <<"students", "delete">>
       /\ PERMISSION.STUDENTS_GET = <<"students", "get">>
       /\ PERMISSION.SUBJECTS_CREATE = <<"subjects", "create">>
       /\ PERMISSION.SUBJECTS_UPDATE = <<"subjects", "update">>
  BY DEF PERMISSION
<1>12. /\ OfNobody(PERMISSION.GRANTS_DELETE, {})
       /\ OfNobody(PERMISSION.SCHEDULE_PARSE, {})
       /\ OfNobody(PERMISSION.STUDENTS_DELETE, {})
       /\ OfNobody(PERMISSION.STUDENTS_GET, {})
       /\ OfNobody(PERMISSION.SUBJECTS_CREATE, {})
       /\ OfNobody(PERMISSION.SUBJECTS_UPDATE, {})
  BY <1>11 DEF OfNobody, Asks, Params, Ids
<1>13. /\ PERMISSION.SUBJECTS_DELETE = <<"subjects", "delete">>
       /\ PERMISSION.USERS_UPDATE = <<"users", "update">>
       /\ PERMISSION.USERS_DELETE = <<"users", "delete">>
       /\ PERMISSION.USERS_GROUPS_SWITCH = <<"users", "groups", "switch">>
       /\ PERMISSION.TEACHERS_CREATE = <<"teachers", "create">>
       /\ PERMISSION.TEACHERS_TEACHERID_UPDATE = <<"teachers", "teacherId", "update">>
  BY DEF PERMISSION
<1>14. /\ OfNobody(PERMISSION.SUBJECTS_DELETE, {})
       /\ OfNobody(PERMISSION.USERS_UPDATE, {})
       /\ OfNobody(PERMISSION.USERS_DELETE, {})
       /\ OfNobody(PERMISSION.USERS_GROUPS_SWITCH, {})
       /\ OfNobody(PERMISSION.TEACHERS_CREATE, {})
       /\ OfNobody(PERMISSION.TEACHERS_TEACHERID_UPDATE, {"teacherId"})
  BY <1>13 DEF OfNobody, Asks, Params, Ids
<1>15. /\ PERMISSION.TEACHERS_TEACHERID_DELETE = <<"teachers", "teacherId", "delete">>
       /\ PERMISSION.TEACHERS_TEACHERID_CATHEDRAS_UPDATE =
            <<"teachers", "teacherId", "cathedras", "update">>
       /\ PERMISSION.TEACHERS_TEACHERID_CONTACTS_CREATE =
            <<"teachers", "teacherId", "contacts", "create">>
       /\ PERMISSION.TEACHERS_TEACHERID_CONTACTS_UPDATE =
            <<"teachers", "teacherId", "contacts", "update">>
       /\ PERMISSION.TEACHERS_TEACHERID_CONTACTS_DELETE =
            <<"teachers", "teacherId", "contacts", "delete">>
  BY DEF PERMISSION
<1>16. /\ OfNobody(PERMISSION.TEACHERS_TEACHERID_DELETE, {"teacherId"})
       /\ OfNobody(PERMISSION.TEACHERS_TEACHERID_CATHEDRAS_UPDATE, {"teacherId"})
       /\ OfNobody(PERMISSION.TEACHERS_TEACHERID_CONTACTS_CREATE, {"teacherId"})
       /\ OfNobody(PERMISSION.TEACHERS_TEACHERID_CONTACTS_UPDATE, {"teacherId"})
       /\ OfNobody(PERMISSION.TEACHERS_TEACHERID_CONTACTS_DELETE, {"teacherId"})
  BY <1>15 DEF OfNobody, Asks, Params, Ids
<1> QED BY <1>2, <1>4, <1>6, <1>8, <1>10, <1>12, <1>14, <1>16
-----------------------------------------------------------------------------
(* What the table says of an endpoint *)

\* A refusal with this status is documented, or excused, or nothing is.
Lists(e, status) == status \in e.docs \/ e.docs = {} \/ <<e, status>> \in Unlisted

\* How each of the guards that find out the group refuses what is not there.
AbsenceOf == [GroupByDisciplineGuard |-> "500", GroupByDisciplineTeacherGuard |-> "400",
              GroupByEventGuard |-> "400"]

\* Permissions come behind a session and behind the guard that finds out the
\* group, if there is one, and ask for what the request is sure to bring then.
Granted(e, words) ==
  /\ Len(e.may) \in Nat /\ \A i \in 1..Len(e.may) : Kinds(e.may[i], words)
  /\ Lists(e, "403")
Wired(e) ==
  \/ e.guards \in {<< >>, <<"JwtGuard">>, <<"TelegramGuard">>} /\ e.may = << >>
  \/ e.guards = <<"LocalGuard">> /\ e.may = << >> /\ Lists(e, "400")
  \/ e.guards = Access(<< >>) /\ Granted(e, ParamsOf(e))
  \/ \E guard \in DOMAIN ThingOf :
       /\ e.guards = Access(<<guard>>) /\ ThingOf[guard] \in ParamsOf(e)
       /\ Granted(e, ParamsOf(e) \cup {"groupId"}) /\ Lists(e, AbsenceOf[guard])

\* Pipes that can only find nothing, and the two others.
Plain == {"UserByIdPipe", "GroupByIdPipe", "TeacherByIdPipe", "DisciplineByIdPipe",
          "DisciplineTeacherByIdPipe", "QuestionByIdPipe", "SubjectByIdPipe", "ResourceByIdPipe",
          "CathedraByIdPipe", "EntrantByIdPipe", "EventByIdPipe", "TelegramGroupByIdPipe",
          "UserByTelegramIdPipe", "RoleByIdPipe", "GrantByIdPipe", "ContactByNamePipe",
          "ContactByUserIdPipe", "QuestionByRoleAndIdPipe", "AllStudentsPipe", "AllTeachersPipe",
          "CommentsQueryPipe", "EventPipe", "SelectiveDisciplinesPipe"}
Piped(e) ==
  /\ e.pipes \subseteq Plain \cup {"StudentPipe", "AvatarValidationPipe"}
  /\ e.pipes # {} => Lists(e, "400")
  /\ "StudentPipe" \in e.pipes => Lists(e, "403")
  /\ "AvatarValidationPipe" \in e.pipes => Lists(e, "413")
Fit(e) == Wired(e) /\ Piped(e)

LEMMA ParamAsked ==
  ASSUME NEW e, NEW i \in DOMAIN e.path, e.path[i] \in Params
  PROVE  e.path[i] \in ParamsOf(e)
  BY DEF ParamsOf, Range

\* How an endpoint comes by what its permission asks for: it asks for nothing,
\* or for what its path, its body or its group's guard brings.
Open(e) ==
  /\ e.may = << >>
  /\ e.guards = << >> \/ e.guards = <<"JwtGuard">> \/ e.guards = <<"TelegramGuard">>
Guarding(e, guards, p) == e.guards = guards /\ e.may = <<p>> /\ Lists(e, "403")
AsksNothing(e, p) == Guarding(e, Access(<< >>), p)
AsksById(e, i, word, p) ==
  Guarding(e, Access(<< >>), p) /\ i \in DOMAIN e.path /\ e.path[i] = word
AsksBySent(e, word, p) == Guarding(e, Access(<< >>), p) /\ e.sent = {word}
AsksByGroup(e, i, guard, p) ==
  /\ Guarding(e, Access(<<guard>>), p) /\ Lists(e, AbsenceOf[guard])
  /\ i \in DOMAIN e.path /\ e.path[i] = ThingOf[guard]

LEMMA NothingAsked == \A e, p : AsksNothing(e, p) /\ OfNobody(p, {}) => Wired(e)
<1> SUFFICES ASSUME NEW e, NEW p, AsksNothing(e, p), OfNobody(p, {}) PROVE Wired(e)
  OBVIOUS
<1>1. Kinds(p, {}) /\ {} \subseteq ParamsOf(e)
  BY DEF Kinds
<1>2. Kinds(p, ParamsOf(e))
  BY <1>1, MoreWords
<1> QED BY <1>2 DEF Wired, Granted, AsksNothing, Guarding

LEMMA IdAsked ==
  \A e, i, word, p : AsksById(e, i, word, p) /\ word \in Params /\ Kinds(p, {word}) => Wired(e)
<1> SUFFICES ASSUME NEW e, NEW i, NEW word \in Params, NEW p,
                    AsksById(e, i, word, p), Kinds(p, {word})
             PROVE  Wired(e)
  OBVIOUS
<1>1. {word} \subseteq ParamsOf(e)
  BY ParamAsked DEF AsksById
<1>2. Kinds(p, ParamsOf(e))
  BY <1>1, MoreWords
<1> QED BY <1>2 DEF Wired, Granted, AsksById, Guarding

LEMMA SentAsked ==
  \A e, word, p : AsksBySent(e, word, p) /\ word \in Params /\ Kinds(p, {word}) => Wired(e)
<1> SUFFICES ASSUME NEW e, NEW word \in Params, NEW p, AsksBySent(e, word, p), Kinds(p, {word})
             PROVE  Wired(e)
  OBVIOUS
<1>1. {word} \subseteq ParamsOf(e)
  BY DEF ParamsOf, AsksBySent
<1>2. Kinds(p, ParamsOf(e))
  BY <1>1, MoreWords
<1> QED BY <1>2 DEF Wired, Granted, AsksBySent, Guarding

LEMMA GroupAsked ==
  \A e, i, p : \A guard \in DOMAIN ThingOf :
    AsksByGroup(e, i, guard, p) /\ OfGroup(p, {"groupId"}) => Wired(e)
<1> SUFFICES ASSUME NEW e, NEW i, NEW p, NEW guard \in DOMAIN ThingOf,
                    AsksByGroup(e, i, guard, p), OfGroup(p, {"groupId"})
             PROVE  Wired(e)
  OBVIOUS
<1>1. {"groupId"} \subseteq ParamsOf(e) \cup {"groupId"} /\ Kinds(p, {"groupId"})
  BY DEF Kinds
<1>2. ThingOf[guard] \in ParamsOf(e)
  BY ParamAsked DEF ThingOf, Params, AsksByGroup
<1>3. Kinds(p, ParamsOf(e) \cup {"groupId"})
  BY <1>1, MoreWords
<1> QED BY <1>2, <1>3 DEF Wired, Granted, AsksByGroup, Guarding

-----------------------------------------------------------------------------
(* Dispatch *)

\* Segments a path cannot be told by: parameters, and what stands in their places.
Words == Params \cup Ids

\* A route that comes first lets the requests for another pass.
LetsPass(a, b) ==
  \/ a.verb # b.verb
  \/ Len(a.path) # Len(b.path)
  \/ \E k \in DOMAIN b.path : a.path[k] \notin Words /\ a.path[k] # b.path[k]
InOrder(c) == \A i, j \in 1..Len(c) : i < j => LetsPass(c[i], c[j])

\* The verb of a route, how many segments it has, and the first of them.
Sort(r, verb, n, first) ==
  /\ r.verb = verb /\ n \in Nat \ {0} /\ Len(r.path) = n /\ DOMAIN r.path = 1..n
  /\ r.path[1] = first

\* Routes that begin with one of these words, each fit and none in another's way.
Listed(c, firsts) ==
  /\ c \in Seq(Range(c)) /\ InOrder(c) /\ firsts \cap Words = {}
  /\ \A i \in 1..Len(c) : Fit(c[i]) /\ \E verb, n : \E first \in firsts : Sort(c[i], verb, n, first)

LEMMA TellsApart ==
  \A a, b, verb, other, n, m, first, start :
    /\ Sort(a, verb, n, first) /\ Sort(b, other, m, start)
    /\ verb # other \/ n # m
    => LetsPass(a, b)
  BY DEF LetsPass, Sort

LEMMA OfItsRange == ASSUME NEW S, NEW s \in Seq(S) PROVE s \in Seq(Range(s))
<1>1. DOMAIN s = 1..Len(s) /\ Len(s) \in Nat
  OBVIOUS
<1>2. \A i \in 1..Len(s) : s[i] \in Range(s)
  BY <1>1 DEF Range
<1>3. s = [i \in 1..Len(s) |-> s[i]]
  BY <1>1
<1> QED BY <1>1, <1>2, <1>3

LEMMA ListedTogether ==
  ASSUME NEW s, NEW t, NEW ofS, NEW ofT, Listed(s, ofS), Listed(t, ofT), ofS \cap ofT = {}
  PROVE  Listed(s \o t, ofS \cup ofT)
<1> DEFINE S == Range(s) \cup Range(t)
<1>1. s \in Seq(S) /\ t \in Seq(S)
  BY DEF Listed
<1> HIDE DEF S
<1>2. /\ s \o t \in Seq(S) /\ Len(s \o t) = Len(s) + Len(t) /\ Len(s) \in Nat /\ Len(t) \in Nat
      /\ \A i \in 1..(Len(s) + Len(t)) : (s \o t)[i] = IF i <= Len(s) THEN s[i] ELSE t[i - Len(s)]
  BY <1>1
<1>3. s \o t \in Seq(Range(s \o t))
  BY <1>2, OfItsRange
<1>4. (ofS \cup ofT) \cap Words = {}
  BY DEF Listed
<1>5. ASSUME NEW i \in 1..Len(s \o t)
      PROVE  /\ Fit((s \o t)[i])
             /\ \E verb, n : \E first \in ofS \cup ofT : Sort((s \o t)[i], verb, n, first)
  <2>1. CASE i <= Len(s)
    BY <1>2, <2>1 DEF Listed
  <2>2. CASE ~(i <= Len(s))
    <3>1. i - Len(s) \in 1..Len(t)
      BY <1>2, <2>2
    <3> QED BY <1>2, <2>2, <3>1 DEF Listed
  <2> QED BY <2>1, <2>2
<1>6. ASSUME NEW i \in 1..Len(s \o t), NEW j \in 1..Len(s \o t), i < j
      PROVE  LetsPass((s \o t)[i], (s \o t)[j])
  <2>1. CASE j <= Len(s)
    BY <1>2, <1>6, <2>1 DEF Listed, InOrder
  <2>2. CASE ~(i <= Len(s))
    <3>1. i - Len(s) \in 1..Len(t) /\ j - Len(s) \in 1..Len(t) /\ i - Len(s) < j - Len(s)
      BY <1>2, <1>6, <2>2
    <3>2. LetsPass(t[i - Len(s)], t[j - Len(s)])
      BY <3>1 DEF Listed, InOrder
    <3> QED BY <1>2, <1>6, <2>2, <3>2
  <2>3. CASE i <= Len(s) /\ ~(j <= Len(s))
    <3>1. i \in 1..Len(s) /\ j - Len(s) \in 1..Len(t)
      BY <1>2, <2>3
    <3>2. PICK verb, n : \E first \in ofS : Sort(s[i], verb, n, first)
      BY <3>1 DEF Listed
    <3>3. PICK other, m : \E first \in ofT : Sort(t[j - Len(s)], other, m, first)
      BY <3>1 DEF Listed
    <3>4. s[i].path[1] \in ofS /\ t[j - Len(s)].path[1] \in ofT /\ 1 \in DOMAIN t[j - Len(s)].path
      BY <3>2, <3>3 DEF Sort
    <3>5. LetsPass(s[i], t[j - Len(s)])
      BY <3>4 DEF LetsPass, Listed
    <3> QED BY <1>2, <2>3, <3>5
  <2> QED BY <2>1, <2>2, <2>3
<1> QED BY <1>3, <1>4, <1>5, <1>6 DEF Listed, InOrder

\* The table itself, controller by controller: what each endpoint asks for, where
\* it finds that, and the pairs of routes of a verb and a length, which a segment
\* tells apart.
USE DEF Get, Post, Put, Patch, Delete, Route

LEMMA UserFit == \A i \in 1..Len(UserController) : Fit(UserController[i])
<1>1. /\ Open(User_verify) /\ Open(User_verifySuperhero) /\ Open(User_giveRole)
      /\ Open(User_removeRole) /\ Open(User_getUserForTelegram) /\ Open(User_getUserByTelegramId)
  BY DEF Open, User_verify, User_verifySuperhero, User_giveRole, User_removeRole,
         User_getUserForTelegram, User_getUserByTelegramId
<1>2. /\ Wired(User_verify) /\ Wired(User_verifySuperhero) /\ Wired(User_giveRole)
      /\ Wired(User_removeRole) /\ Wired(User_getUserForTelegram)
      /\ Wired(User_getUserByTelegramId)
  BY <1>1 DEF Open, Wired
<1>3. /\ AsksNothing(User_deleteUser, PERMISSION.USERS_DELETE)
      /\ AsksNothing(User_updateUser, PERMISSION.USERS_UPDATE)
      /\ AsksNothing(User_deleteStudent, PERMISSION.STUDENTS_DELETE)
      /\ AsksNothing(User_changeGroup, PERMISSION.USERS_GROUPS_SWITCH)
  BY DEF AsksNothing, Guarding, Lists, User_deleteUser, User_updateUser, User_deleteStudent,
         User_changeGroup
<1>4. /\ Wired(User_deleteUser) /\ Wired(User_updateUser) /\ Wired(User_deleteStudent)
      /\ Wired(User_changeGroup)
  BY <1>3, NothingAsked, OtherPermissions
<1>5. /\ AsksById(User_requestNewGroup, 2, "userId", PERMISSION.USERS_USERID_GROUP_REQUEST)
      /\ AsksById(User_createSuperhero, 2, "userId", PERMISSION.USERS_USERID_SUPERHERO_CREATE)
      /\ AsksById(User_getSelective, 2, "userId", PERMISSION.USERS_USERID_SELECTIVE_GET)
      /\ AsksById(User_getSelectiveBySemesters, 2, "userId", PERMISSION.USERS_USERID_SELECTIVE_GET)
      /\ AsksById(User_getContacts, 2, "userId", PERMISSION.USERS_USERID_CONTACTS_GET)
      /\ AsksById(User_createContact, 2, "userId", PERMISSION.USERS_USERID_CONTACTS_CREATE)
  BY DEF AsksById, Guarding, Lists, User_requestNewGroup, User_createSuperhero, User_getSelective,
         User_getSelectiveBySemesters, User_getContacts, User_createContact
<1>6. /\ Wired(User_requestNewGroup) /\ Wired(User_createSuperhero) /\ Wired(User_getSelective)
      /\ Wired(User_getSelectiveBySemesters) /\ Wired(User_getContacts)
      /\ Wired(User_createContact)
  BY <1>5, IdAsked, OwnPermissions DEF Kinds, Params
<1>7. /\ AsksById(User_updateContact, 2, "userId", PERMISSION.USERS_USERID_CONTACTS_UPDATE)
      /\ AsksById(User_deleteContact, 2, "userId", PERMISSION.USERS_USERID_CONTACTS_DELETE)
      /\ AsksById(User_updateStudent, 2, "userId", PERMISSION.USERS_USERID_STUDENT_UPDATE)
      /\ AsksById(User_linkTelegram, 2, "userId", PERMISSION.USERS_USERID_TELEGRAM_LINK)
      /\ AsksById(User_getMe, 2, "userId", PERMISSION.USERS_USERID_GET)
      /\ AsksById(User_uploadAvatar, 2, "userId", PERMISSION.USERS_USERID_UPDATE)
  BY DEF AsksById, Guarding, Lists, User_updateContact, User_deleteContact, User_updateStudent,
         User_linkTelegram, User_getMe, User_uploadAvatar
<1>8. /\ Wired(User_updateContact) /\ Wired(User_deleteContact) /\ Wired(User_updateStudent)
      /\ Wired(User_linkTelegram) /\ Wired(User_getMe) /\ Wired(User_uploadAvatar)
  BY <1>7, IdAsked, OwnPermissions DEF Kinds, Params
<1>9. /\ AsksById(User_deleteAvatar, 2, "userId", PERMISSION.USERS_USERID_DELETE)
      /\ AsksById(User_getRemainingSelective, 2, "userId", PERMISSION.USERS_USERID_SELECTIVE_GET)
      /\ AsksById(User_attachSelectiveDisciplines, 2, "userId",
              PERMISSION.USERS_USERID_SELECTIVE_DISCIPLINES)
      /\ AsksById(User_detachSelectiveDisciplines, 2, "userId",
              PERMISSION.USERS_USERID_SELECTIVE_DISCIPLINES)
  BY DEF AsksById, Guarding, Lists, User_deleteAvatar, User_getRemainingSelective,
         User_attachSelectiveDisciplines, User_detachSelectiveDisciplines
<1>10. /\ Wired(User_deleteAvatar) /\ Wired(User_getRemainingSelective)
       /\ Wired(User_attachSelectiveDisciplines) /\ Wired(User_detachSelectiveDisciplines)
  BY <1>9, IdAsked, OwnPermissions DEF Kinds, Params
<1>11. /\ Piped(User_verify) /\ Piped(User_verifySuperhero) /\ Piped(User_requestNewGroup)
       /\ Piped(User_createSuperhero) /\ Piped(User_getSelective)
       /\ Piped(User_getSelectiveBySemesters) /\ Piped(User_giveRole)
  BY DEF Piped, Plain, Lists, User_verify, User_verifySuperhero, User_requestNewGroup,
         User_createSuperhero, User_getSelective, User_getSelectiveBySemesters, User_giveRole
<1>12. /\ Piped(User_removeRole) /\ Piped(User_deleteUser) /\ Piped(User_updateUser)
       /\ Piped(User_getContacts) /\ Piped(User_createContact) /\ Piped(User_updateContact)
       /\ Piped(User_deleteContact)
  BY DEF Piped, Plain, Lists, User_removeRole, User_deleteUser, User_updateUser, User_getContacts,
         User_createContact, User_updateContact, User_deleteContact
<1>13. /\ Piped(User_deleteStudent) /\ Piped(User_updateStudent) /\ Piped(User_getUserForTelegram)
       /\ Piped(User_getUserByTelegramId) /\ Piped(User_linkTelegram) /\ Piped(User_getMe)
       /\ Piped(User_uploadAvatar)
  BY DEF Piped, Plain, Lists, User_deleteStudent, User_updateStudent, User_getUserForTelegram,
         User_getUserByTelegramId, User_linkTelegram, User_getMe, User_uploadAvatar
<1>14. /\ Piped(User_deleteAvatar) /\ Piped(User_getRemainingSelective)
       /\ Piped(User_attachSelectiveDisciplines) /\ Piped(User_detachSelectiveDisciplines)
       /\ Piped(User_changeGroup)
  BY DEF Piped, Plain, Lists, User_deleteAvatar, User_getRemainingSelective,
         User_attachSelectiveDisciplines, User_detachSelectiveDisciplines, User_changeGroup
<1> QED BY <1>2, <1>4, <1>6, <1>8, <1>10, <1>11, <1>12, <1>13, <1>14 DEF Fit, UserController

LEMMA UserListed == Listed(UserController, {"users"})
<1>1. /\ Sort(User_verify, "PATCH", 3, "users")
      /\ Sort(User_verifySuperhero, "PATCH", 3, "users")
      /\ Sort(User_requestNewGroup, "PATCH", 3, "users")
      /\ Sort(User_createSuperhero, "POST", 3, "users")
      /\ Sort(User_getSelective, "GET", 3, "users")
      /\ Sort(User_getSelectiveBySemesters, "GET", 3, "users")
  BY DEF Sort, User_verify, User_verifySuperhero, User_requestNewGroup, User_createSuperhero,
         User_getSelective, User_getSelectiveBySemesters
<1>2. /\ Sort(User_giveRole, "POST", 3, "users")
      /\ Sort(User_removeRole, "DELETE", 4, "users")
      /\ Sort(User_deleteUser, "DELETE", 2, "users")
      /\ Sort(User_updateUser, "PATCH", 2, "users")
      /\ Sort(User_getContacts, "GET", 3, "users")
      /\ Sort(User_createContact, "POST", 3, "users")
  BY DEF Sort, User_giveRole, User_removeRole, User_deleteUser, User_updateUser, User_getContacts,
         User_createContact
<1>3. /\ Sort(User_updateContact, "PATCH", 4, "users")
      /\ Sort(User_deleteContact, "DELETE", 4, "users")
      /\ Sort(User_deleteStudent, "DELETE", 3, "users")
      /\ Sort(User_updateStudent, "PATCH", 3, "users")
      /\ Sort(User_getUserForTelegram, "GET", 3, "users")
      /\ Sort(User_getUserByTelegramId, "GET", 3, "users")
  BY DEF Sort, User_updateContact, User_deleteContact, User_deleteStudent, User_updateStudent,
         User_getUserForTelegram, User_getUserByTelegramId
<1>4. /\ Sort(User_linkTelegram, "POST", 3, "users")
      /\ Sort(User_getMe, "GET", 2, "users")
      /\ Sort(User_uploadAvatar, "PATCH", 3, "users")
      /\ Sort(User_deleteAvatar, "DELETE", 3, "users")
      /\ Sort(User_getRemainingSelective, "GET", 3, "users")
      /\ Sort(User_attachSelectiveDisciplines, "POST", 3, "users")
  BY DEF Sort, User_linkTelegram, User_getMe, User_uploadAvatar, User_deleteAvatar,
         User_getRemainingSelective, User_attachSelectiveDisciplines
<1>5. /\ Sort(User_detachSelectiveDisciplines, "DELETE", 3, "users")
      /\ Sort(User_changeGroup, "PATCH", 4, "users")
  BY DEF Sort, User_detachSelectiveDisciplines, User_changeGroup
<1>6. /\ LetsPass(User_verify, User_verifySuperhero)
      /\ LetsPass(User_verify, User_requestNewGroup)
      /\ LetsPass(User_verifySuperhero, User_requestNewGroup)
      /\ LetsPass(User_verify, User_updateStudent)
      /\ LetsPass(User_verifySuperhero, User_updateStudent)
      /\ LetsPass(User_requestNewGroup, User_updateStudent)
      /\ LetsPass(User_verify, User_uploadAvatar)
      /\ LetsPass(User_verifySuperhero, User_uploadAvatar)
  BY DEF LetsPass, Words, Params, Ids, User_verify, User_verifySuperhero, User_requestNewGroup,
         User_updateStudent, User_uploadAvatar
<1>7. /\ LetsPass(User_requestNewGroup, User_uploadAvatar)
      /\ LetsPass(User_updateStudent, User_uploadAvatar)
  BY DEF LetsPass, Words, Params, Ids, User_requestNewGroup, User_updateStudent, User_uploadAvatar
<1>8. /\ LetsPass(User_createSuperhero, User_giveRole)
      /\ LetsPass(User_createSuperhero, User_createContact)
      /\ LetsPass(User_giveRole, User_createContact)
      /\ LetsPass(User_createSuperhero, User_linkTelegram)
      /\ LetsPass(User_giveRole, User_linkTelegram)
      /\ LetsPass(User_createContact, User_linkTelegram)
      /\ LetsPass(User_createSuperhero, User_attachSelectiveDisciplines)
      /\ LetsPass(User_giveRole, User_attachSelectiveDisciplines)
  BY DEF LetsPass, Words, Params, Ids, User_createSuperhero, User_giveRole, User_createContact,
         User_linkTelegram, User_attachSelectiveDisciplines
<1>9. /\ LetsPass(User_createContact, User_attachSelectiveDisciplines)
      /\ LetsPass(User_linkTelegram, User_attachSelectiveDisciplines)
  BY DEF LetsPass, Words, Params, Ids, User_createContact, User_linkTelegram,
         User_attachSelectiveDisciplines
<1>10. /\ LetsPass(User_getSelective, User_getSelectiveBySemesters)
       /\ LetsPass(User_getSelective, User_getContacts)
       /\ LetsPass(User_getSelectiveBySemesters, User_getContacts)
       /\ LetsPass(User_getSelective, User_getUserForTelegram)
       /\ LetsPass(User_getSelectiveBySemesters, User_getUserForTelegram)
       /\ LetsPass(User_getContacts, User_getUserForTelegram)
       /\ LetsPass(User_getSelective, User_getUserByTelegramId)
       /\ LetsPass(User_getSelectiveBySemesters, User_getUserByTelegramId)
  BY DEF LetsPass, Words, Params, Ids, User_getSelective, User_getSelectiveBySemesters,
         User_getContacts, User_getUserForTelegram, User_getUserByTelegramId
<1>11. /\ LetsPass(User_getContacts, User_getUserByTelegramId)
       /\ LetsPass(User_getUserForTelegram, User_getUserByTelegramId)
       /\ LetsPass(User_getSelective, User_getRemainingSelective)
       /\ LetsPass(User_getSelectiveBySemesters, User_getRemainingSelective)
       /\ LetsPass(User_getContacts, User_getRemainingSelective)
       /\ LetsPass(User_getUserForTelegram, User_getRemainingSelective)
       /\ LetsPass(User_getUserByTelegramId, User_getRemainingSelective)
  BY DEF LetsPass, Words, Params, Ids, User_getSelective, User_getSelectiveBySemesters,
         User_getContacts, User_getUserForTelegram, User_getUserByTelegramId,
         User_getRemainingSelective
<1>12. LetsPass(User_removeRole, User_deleteContact)
  BY DEF LetsPass, Words, Params, Ids, User_removeRole, User_deleteContact
<1>13. LetsPass(User_updateContact, User_changeGroup)
  BY DEF LetsPass, Words, Params, Ids, User_updateContact, User_changeGroup
<1>14. /\ LetsPass(User_deleteStudent, User_deleteAvatar)
       /\ LetsPass(User_deleteStudent, User_detachSelectiveDisciplines)
       /\ LetsPass(User_deleteAvatar, User_detachSelectiveDisciplines)
  BY DEF LetsPass, Words, Params, Ids, User_deleteStudent, User_deleteAvatar,
         User_detachSelectiveDisciplines
<1>15. UserController \in Seq(Range(UserController)) /\ {"users"} \cap Words = {}
  BY DEF UserController, Range, Words, Params, Ids
<1>16. ASSUME NEW i \in 1..Len(UserController)
      PROVE  \/ i = 1 /\ UserController[i] = User_verify
             \/ i = 2 /\ UserController[i] = User_verifySuperhero
             \/ i = 3 /\ UserController[i] = User_requestNewGroup
             \/ i = 4 /\ UserController[i] = User_createSuperhero
             \/ i = 5 /\ UserController[i] = User_getSelective
             \/ i = 6 /\ UserController[i] = User_getSelectiveBySemesters
             \/ i = 7 /\ UserController[i] = User_giveRole
             \/ i = 8 /\ UserController[i] = User_removeRole
             \/ i = 9 /\ UserController[i] = User_deleteUser
             \/ i = 10 /\ UserController[i] = User_updateUser
             \/ i = 11 /\ UserController[i] = User_getContacts
             \/ i = 12 /\ UserController[i] = User_createContact
             \/ i = 13 /\ UserController[i] = User_updateContact
             \/ i = 14 /\ UserController[i] = User_deleteContact
             \/ i = 15 /\ UserController[i] = User_deleteStudent
             \/ i = 16 /\ UserController[i] = User_updateStudent
             \/ i = 17 /\ UserController[i] = User_getUserForTelegram
             \/ i = 18 /\ UserController[i] = User_getUserByTelegramId
             \/ i = 19 /\ UserController[i] = User_linkTelegram
             \/ i = 20 /\ UserController[i] = User_getMe
             \/ i = 21 /\ UserController[i] = User_uploadAvatar
             \/ i = 22 /\ UserController[i] = User_deleteAvatar
             \/ i = 23 /\ UserController[i] = User_getRemainingSelective
             \/ i = 24 /\ UserController[i] = User_attachSelectiveDisciplines
             \/ i = 25 /\ UserController[i] = User_detachSelectiveDisciplines
             \/ i = 26 /\ UserController[i] = User_changeGroup
  BY DEF UserController
<1>17. InOrder(UserController)
  BY <1>16, <1>1, <1>2, <1>3, <1>4, <1>5, <1>6, <1>7, <1>8, <1>9, <1>10, <1>11, <1>12, <1>13,
     <1>14, TellsApart DEF InOrder
<1>18. \A i \in 1..Len(UserController) : \E verb, n : Sort(UserController[i], verb, n, "users")
  BY <1>1, <1>2, <1>3, <1>4, <1>5, <1>16
<1> QED BY <1>15, <1>17, <1>18, UserFit DEF Listed

LEMMA RoleFit == \A i \in 1..Len(RoleController) : Fit(RoleController[i])
<1>1. /\ Open(Role_getAll) /\ Open(Role_get) /\ Open(Role_getGrants)
  BY DEF Open, Role_getAll, Role_get, Role_getGrants
<1>2. /\ Wired(Role_getAll) /\ Wired(Role_get) /\ Wired(Role_getGrants)
  BY <1>1 DEF Open, Wired
<1>3. /\ AsksNothing(Role_createWithGrants, PERMISSION.ROLES_CREATE)
      /\ AsksNothing(Role_create, PERMISSION.ROLES_CREATE)
      /\ AsksNothing(Role_update, PERMISSION.ROLES_ROLEID_UPDATE)
      /\ AsksNothing(Role_delete, PERMISSION.ROLES_ROLEID_DELETE)
  BY DEF AsksNothing, Guarding, Lists, Role_createWithGrants, Role_create, Role_update,
         Role_delete
<1>4. /\ Wired(Role_createWithGrants) /\ Wired(Role_create) /\ Wired(Role_update)
      /\ Wired(Role_delete)
  BY <1>3, NothingAsked, OtherPermissions
<1>5. /\ AsksNothing(Role_createGrants, PERMISSION.ROLES_GRANTS_CREATE)
      /\ AsksNothing(Role_createGrant, PERMISSION.ROLES_ROLEID_GRANT_CREATE)
      /\ AsksNothing(Role_updateGrant, PERMISSION.ROLES_ROLEID_GRANT_UPDATE)
  BY DEF AsksNothing, Guarding, Lists, Role_createGrants, Role_createGrant, Role_updateGrant
<1>6. /\ Wired(Role_createGrants) /\ Wired(Role_createGrant) /\ Wired(Role_updateGrant)
  BY <1>5, NothingAsked, OtherPermissions
<1>7. /\ Piped(Role_getAll) /\ Piped(Role_get) /\ Piped(Role_createWithGrants)
      /\ Piped(Role_create) /\ Piped(Role_update) /\ Piped(Role_delete) /\ Piped(Role_getGrants)
  BY DEF Piped, Plain, Lists, Role_getAll, Role_get, Role_createWithGrants, Role_create,
         Role_update, Role_delete, Role_getGrants
<1>8. /\ Piped(Role_createGrants) /\ Piped(Role_createGrant) /\ Piped(Role_updateGrant)
  BY DEF Piped, Plain, Lists, Role_createGrants, Role_createGrant, Role_updateGrant
<1> QED BY <1>2, <1>4, <1>6, <1>7, <1>8 DEF Fit, RoleController

LEMMA RoleListed == Listed(RoleController, {"roles"})
<1>1. /\ Sort(Role_getAll, "GET", 1, "roles")
      /\ Sort(Role_get, "GET", 2, "roles")
      /\ Sort(Role_createWithGrants, "POST", 2, "roles")
      /\ Sort(Role_create, "POST", 1, "roles")
      /\ Sort(Role_update, "PATCH", 2, "roles")
  BY DEF Sort, Role_getAll, Role_get, Role_createWithGrants, Role_create, Role_update
<1>2. /\ Sort(Role_delete, "DELETE", 2, "roles")
      /\ Sort(Role_getGrants, "GET", 3, "roles")
      /\ Sort(Role_createGrants, "POST", 3, "roles")
      /\ Sort(Role_createGrant, "POST", 3, "roles")
      /\ Sort(Role_updateGrant, "PATCH", 4, "roles")
  BY DEF Sort, Role_delete, Role_getGrants, Role_createGrants, Role_createGrant, Role_updateGrant
<1>3. LetsPass(Role_createGrants, Role_createGrant)
  BY DEF LetsPass, Words, Params, Ids, Role_createGrants, Role_createGrant
<1>4. RoleController \in Seq(Range(RoleController)) /\ {"roles"} \cap Words = {}
  BY DEF RoleController, Range, Words, Params, Ids
<1>5. InOrder(RoleController)
  BY <1>1, <1>2, <1>3, TellsApart DEF InOrder, RoleController
<1>6. \A i \in 1..Len(RoleController) : \E verb, n : Sort(RoleController[i], verb, n, "roles")
  BY <1>1, <1>2 DEF RoleController
<1> QED BY <1>4, <1>5, <1>6, RoleFit DEF Listed

LEMMA GrantFit == \A i \in 1..Len(GrantController) : Fit(GrantController[i])
<1>1. AsksNothing(Grant_delete, PERMISSION.GRANTS_DELETE)
  BY DEF AsksNothing, Guarding, Lists, Grant_delete
<1>2. Wired(Grant_delete)
  BY <1>1, NothingAsked, OtherPermissions
<1>3. Piped(Grant_delete)
  BY DEF Piped, Plain, Lists, Grant_delete
<1> QED BY <1>2, <1>3 DEF Fit, GrantController

LEMMA GrantListed == Listed(GrantController, {"grants"})
<1>1. Sort(Grant_delete, "DELETE", 2, "grants")
  BY DEF Sort, Grant_delete
<1>2. GrantController \in Seq(Range(GrantController)) /\ {"grants"} \cap Words = {}
  BY DEF GrantController, Range, Words, Params, Ids
<1>3. InOrder(GrantController)
  BY <1>1, TellsApart DEF InOrder, GrantController
<1>4. \A i \in 1..Len(GrantController) :
        \E verb, n : Sort(GrantController[i], verb, n, "grants")
  BY <1>1 DEF GrantController
<1> QED BY <1>2, <1>3, <1>4, GrantFit DEF Listed

LEMMA AuthFit == \A i \in 1..Len(AuthController) : Fit(AuthController[i])
<1>1. /\ Open(Auth_registerTelegram) /\ Open(Auth_register) /\ Open(Auth_loginTelegram)
      /\ Open(Auth_refresh) /\ Open(Auth_updatePassword)
  BY DEF Open, Auth_registerTelegram, Auth_register, Auth_loginTelegram, Auth_refresh,
         Auth_updatePassword
<1>2. /\ Wired(Auth_registerTelegram) /\ Wired(Auth_register) /\ Wired(Auth_loginTelegram)
      /\ Wired(Auth_refresh) /\ Wired(Auth_updatePassword)
  BY <1>1 DEF Open, Wired
<1>3. /\ Open(Auth_getMe) /\ Open(Auth_forgotPassword) /\ Open(Auth_resetPassword)
      /\ Open(Auth_requestEmailVerification) /\ Open(Auth_verifyEmail)
  BY DEF Open, Auth_getMe, Auth_forgotPassword, Auth_resetPassword, Auth_requestEmailVerification,
         Auth_verifyEmail
<1>4. /\ Wired(Auth_getMe) /\ Wired(Auth_forgotPassword) /\ Wired(Auth_resetPassword)
      /\ Wired(Auth_requestEmailVerification) /\ Wired(Auth_verifyEmail)
  BY <1>3 DEF Open, Wired
<1>5. /\ Open(Auth_verifyExistsByUnique) /\ Open(Auth_checkCaptain) /\ Open(Auth_checkResetToken)
      /\ Open(Auth_checkRegisterTelegram)
  BY DEF Open, Auth_verifyExistsByUnique, Auth_checkCaptain, Auth_checkResetToken,
         Auth_checkRegisterTelegram
<1>6. /\ Wired(Auth_verifyExistsByUnique) /\ Wired(Auth_checkCaptain)
      /\ Wired(Auth_checkResetToken) /\ Wired(Auth_checkRegisterTelegram)
  BY <1>5 DEF Open, Wired
<1>7. Wired(Auth_login)
  BY DEF Wired, Lists, Unlisted, Auth_login
<1>8. /\ Piped(Auth_login) /\ Piped(Auth_registerTelegram) /\ Piped(Auth_register)
      /\ Piped(Auth_loginTelegram) /\ Piped(Auth_refresh) /\ Piped(Auth_updatePassword)
      /\ Piped(Auth_getMe)
  BY DEF Piped, Plain, Lists, Auth_login, Auth_registerTelegram, Auth_register, Auth_loginTelegram,
         Auth_refresh, Auth_updatePassword, Auth_getMe
<1>9. /\ Piped(Auth_forgotPassword) /\ Piped(Auth_resetPassword)
      /\ Piped(Auth_requestEmailVerification) /\ Piped(Auth_verifyEmail)
      /\ Piped(Auth_verifyExistsByUnique) /\ Piped(Auth_checkCaptain)
      /\ Piped(Auth_checkResetToken)
  BY DEF Piped, Plain, Lists, Auth_forgotPassword, Auth_resetPassword,
         Auth_requestEmailVerification, Auth_verifyEmail, Auth_verifyExistsByUnique,
         Auth_checkCaptain, Auth_checkResetToken
<1>10. Piped(Auth_checkRegisterTelegram)
  BY DEF Piped, Plain, Lists, Auth_checkRegisterTelegram
<1> QED BY <1>2, <1>4, <1>6, <1>7, <1>8, <1>9, <1>10 DEF Fit, AuthController

LEMMA AuthListed == Listed(AuthController, {"auth"})
<1>1. /\ Sort(Auth_login, "POST", 2, "auth")
      /\ Sort(Auth_registerTelegram, "POST", 2, "auth")
      /\ Sort(Auth_register, "POST", 2, "auth")
      /\ Sort(Auth_loginTelegram, "POST", 2, "auth")
      /\ Sort(Auth_refresh, "POST", 2, "auth")
  BY DEF Sort, Auth_login, Auth_registerTelegram, Auth_register, Auth_loginTelegram, Auth_refresh
<1>2. /\ Sort(Auth_updatePassword, "PUT", 2, "auth")
      /\ Sort(Auth_getMe, "GET", 2, "auth")
      /\ Sort(Auth_forgotPassword, "POST", 2, "auth")
      /\ Sort(Auth_resetPassword, "POST", 3, "auth")
      /\ Sort(Auth_requestEmailVerification, "POST", 3, "auth")
  BY DEF Sort, Auth_updatePassword, Auth_getMe, Auth_forgotPassword, Auth_resetPassword,
         Auth_requestEmailVerification
<1>3. /\ Sort(Auth_verifyEmail, "POST", 4, "auth")
      /\ Sort(Auth_verifyExistsByUnique, "GET", 2, "auth")
      /\ Sort(Auth_checkCaptain, "GET", 3, "auth")
      /\ Sort(Auth_checkResetToken, "GET", 3, "auth")
      /\ Sort(Auth_checkRegisterTelegram, "GET", 3, "auth")
  BY DEF Sort, Auth_verifyEmail, Auth_verifyExistsByUnique, Auth_checkCaptain,
         Auth_checkResetToken, Auth_checkRegisterTelegram
<1>4. /\ LetsPass(Auth_login, Auth_registerTelegram) /\ LetsPass(Auth_login, Auth_register)
      /\ LetsPass(Auth_registerTelegram, Auth_register)
      /\ LetsPass(Auth_login, Auth_loginTelegram)
      /\ LetsPass(Auth_registerTelegram, Auth_loginTelegram)
      /\ LetsPass(Auth_register, Auth_loginTelegram) /\ LetsPass(Auth_login, Auth_refresh)
      /\ LetsPass(Auth_registerTelegram, Auth_refresh)
  BY DEF LetsPass, Words, Params, Ids, Auth_login, Auth_registerTelegram, Auth_register,
         Auth_loginTelegram, Auth_refresh
<1>5. /\ LetsPass(Auth_register, Auth_refresh) /\ LetsPass(Auth_loginTelegram, Auth_refresh)
      /\ LetsPass(Auth_login, Auth_forgotPassword)
      /\ LetsPass(Auth_registerTelegram, Auth_forgotPassword)
      /\ LetsPass(Auth_register, Auth_forgotPassword)
      /\ LetsPass(Auth_loginTelegram, Auth_forgotPassword)
      /\ LetsPass(Auth_refresh, Auth_forgotPassword)
  BY DEF LetsPass, Words, Params, Ids, Auth_login, Auth_registerTelegram, Auth_register,
         Auth_loginTelegram, Auth_refresh, Auth_forgotPassword
<1>6. LetsPass(Auth_getMe, Auth_verifyExistsByUnique)
  BY DEF LetsPass, Words, Params, Ids, Auth_getMe, Auth_verifyExistsByUnique
<1>7. LetsPass(Auth_resetPassword, Auth_requestEmailVerification)
  BY DEF LetsPass, Words, Params, Ids, Auth_resetPassword, Auth_requestEmailVerification
<1>8. /\ LetsPass(Auth_checkCaptain, Auth_checkResetToken)
      /\ LetsPass(Auth_checkCaptain, Auth_checkRegisterTelegram)
      /\ LetsPass(Auth_checkResetToken, Auth_checkRegisterTelegram)
  BY DEF LetsPass, Words, Params, Ids, Auth_checkCaptain, Auth_checkResetToken,
         Auth_checkRegisterTelegram
<1>9. AuthController \in Seq(Range(AuthController)) /\ {"auth"} \cap Words = {}
  BY DEF AuthController, Range, Words, Params, Ids
<1>10. ASSUME NEW i \in 1..Len(AuthController)
      PROVE  \/ i = 1 /\ AuthController[i] = Auth_login
             \/ i = 2 /\ AuthController[i] = Auth_registerTelegram
             \/ i = 3 /\ AuthController[i] = Auth_register
             \/ i = 4 /\ AuthController[i] = Auth_loginTelegram
             \/ i = 5 /\ AuthController[i] = Auth_refresh
             \/ i = 6 /\ AuthController[i] = Auth_updatePassword
             \/ i = 7 /\ AuthController[i] = Auth_getMe
             \/ i = 8 /\ AuthController[i] = Auth_forgotPassword
             \/ i = 9 /\ AuthController[i] = Auth_resetPassword
             \/ i = 10 /\ AuthController[i] = Auth_requestEmailVerification
             \/ i = 11 /\ AuthController[i] = Auth_verifyEmail
             \/ i = 12 /\ AuthController[i] = Auth_verifyExistsByUnique
             \/ i = 13 /\ AuthController[i] = Auth_checkCaptain
             \/ i = 14 /\ AuthController[i] = Auth_checkResetToken
             \/ i = 15 /\ AuthController[i] = Auth_checkRegisterTelegram
  BY DEF AuthController
<1>11. InOrder(AuthController)
  BY <1>10, <1>1, <1>2, <1>3, <1>4, <1>5, <1>6, <1>7, <1>8, TellsApart DEF InOrder
<1>12. \A i \in 1..Len(AuthController) : \E verb, n : Sort(AuthController[i], verb, n, "auth")
  BY <1>1, <1>2, <1>3, <1>10
<1> QED BY <1>9, <1>11, <1>12, AuthFit DEF Listed

LEMMA GroupFit == \A i \in 1..Len(GroupController) : Fit(GroupController[i])
<1>1. /\ Open(Group_getAll) /\ Open(Group_getGroupsWithTelegramGroups) /\ Open(Group_get)
  BY DEF Open, Group_getAll, Group_getGroupsWithTelegramGroups, Group_get
<1>2. /\ Wired(Group_getAll) /\ Wired(Group_getGroupsWithTelegramGroups) /\ Wired(Group_get)
  BY <1>1 DEF Open, Wired
<1>3. /\ AsksNothing(Group_create, PERMISSION.GROUPS_CREATE)
      /\ AsksNothing(Group_update, PERMISSION.GROUPS_UPDATE)
      /\ AsksNothing(Group_deleteGroup, PERMISSION.GROUPS_DELETE)
  BY DEF AsksNothing, Guarding, Lists, Group_create, Group_update, Group_deleteGroup
<1>4. /\ Wired(Group_create) /\ Wired(Group_update) /\ Wired(Group_deleteGroup)
  BY <1>3, NothingAsked, OtherPermissions
<1>5. /\ AsksById(Group_getStudents, 2, "groupId", PERMISSION.GROUPS_GROUPID_STUDENTS_GET)
      /\ AsksById(Group_getCaptain, 2, "groupId", PERMISSION.GROUPS_GROUPID_CAPTAIN_GET)
      /\ AsksById(Group_getDisciplineTeachers, 2, "groupId",
              PERMISSION.GROUPS_GROUPID_DISCIPLINES_TEACHERS_GET)
      /\ AsksById(Group_getDiscipline, 2, "groupId", PERMISSION.GROUPS_GROUPID_DISCIPLINES_GET)
      /\ AsksById(Group_addUnregistered, 2, "groupId", PERMISSION.GROUPS_GROUPID_STUDENTS_ADD)
      /\ AsksById(Group_verifyStudent, 2, "groupId", PERMISSION.GROUPS_GROUPID_STUDENTS_VERIFY)
  BY DEF AsksById, Guarding, Lists, Group_getStudents, Group_getCaptain,
         Group_getDisciplineTeachers, Group_getDiscipline, Group_addUnregistered,
         Group_verifyStudent
<1>6. /\ Wired(Group_getStudents) /\ Wired(Group_getCaptain) /\ Wired(Group_getDisciplineTeachers)
      /\ Wired(Group_getDiscipline) /\ Wired(Group_addUnregistered) /\ Wired(Group_verifyStudent)
  BY <1>5, IdAsked, GroupPermissions DEF Kinds, Params
<1>7. /\ AsksById(Group_moderatorSwitch, 2, "groupId", PERMISSION.GROUPS_GROUPID_ADMIN_SWITCH)
      /\ AsksById(Group_removeStudent, 2, "groupId", PERMISSION.GROUPS_GROUPID_STUDENTS_REMOVE)
      /\ AsksById(Group_getUnverifiedStudents, 2, "groupId",
              PERMISSION.GROUPS_GROUPID_STUDENTS_UNVERIFIED_GET)
      /\ AsksById(Group_getGroupList, 2, "groupId", PERMISSION.GROUPS_GROUPID_LIST_GET)
      /\ AsksById(Group_leaveGroup, 2, "groupId", PERMISSION.GROUPS_GROUPID_LEAVE)
  BY DEF AsksById, Guarding, Lists, Group_moderatorSwitch, Group_removeStudent,
         Group_getUnverifiedStudents, Group_getGroupList, Group_leaveGroup
<1>8. /\ Wired(Group_moderatorSwitch) /\ Wired(Group_removeStudent)
      /\ Wired(Group_getUnverifiedStudents) /\ Wired(Group_getGroupList)
      /\ Wired(Group_leaveGroup)
  BY <1>7, IdAsked, GroupPermissions DEF Kinds, Params
<1>9. /\ Group_switchCaptain.guards = Access(<< >>) /\ Lists(Group_switchCaptain, "403")
      /\ 2 \in DOMAIN Group_switchCaptain.path /\ Group_switchCaptain.path[2] = "groupId"
      /\ Group_switchCaptain.may =
           <<PERMISSION.GROUPS_CAPTAIN_SWITCH, PERMISSION.GROUPS_GROUPID_TRANSFER>>
  BY DEF Lists, Group_switchCaptain
<1>10. /\ {} \subseteq ParamsOf(Group_switchCaptain)
       /\ {"groupId"} \subseteq ParamsOf(Group_switchCaptain)
  BY <1>9, ParamAsked DEF Params
<1>11. Wired(Group_switchCaptain)
  <2>1. /\ Kinds(PERMISSION.GROUPS_CAPTAIN_SWITCH, {})
        /\ Kinds(PERMISSION.GROUPS_GROUPID_TRANSFER, {"groupId"})
    BY OtherPermissions, GroupPermissions DEF Kinds
  <2>2. /\ Kinds(PERMISSION.GROUPS_CAPTAIN_SWITCH, ParamsOf(Group_switchCaptain))
        /\ Kinds(PERMISSION.GROUPS_GROUPID_TRANSFER, ParamsOf(Group_switchCaptain))
    BY <1>10, <2>1, MoreWords
  <2> QED BY <1>9, <2>2 DEF Wired, Granted
<1>12. /\ Piped(Group_create) /\ Piped(Group_getAll) /\ Piped(Group_getGroupsWithTelegramGroups)
       /\ Piped(Group_get) /\ Piped(Group_update) /\ Piped(Group_deleteGroup)
       /\ Piped(Group_getStudents)
  BY DEF Piped, Plain, Lists, Group_create, Group_getAll, Group_getGroupsWithTelegramGroups,
         Group_get, Group_update, Group_deleteGroup, Group_getStudents
<1>13. /\ Piped(Group_getCaptain) /\ Piped(Group_getDisciplineTeachers)
       /\ Piped(Group_getDiscipline) /\ Piped(Group_addUnregistered) /\ Piped(Group_verifyStudent)
       /\ Piped(Group_moderatorSwitch) /\ Piped(Group_removeStudent)
  BY DEF Piped, Plain, Lists, Group_getCaptain, Group_getDisciplineTeachers, Group_getDiscipline,
         Group_addUnregistered, Group_verifyStudent, Group_moderatorSwitch, Group_removeStudent
<1>14. /\ Piped(Group_getUnverifiedStudents) /\ Piped(Group_switchCaptain)
       /\ Piped(Group_getGroupList) /\ Piped(Group_leaveGroup)
  BY DEF Piped, Plain, Lists, Group_getUnverifiedStudents, Group_switchCaptain, Group_getGroupList,
         Group_leaveGroup
<1> QED BY <1>2, <1>4, <1>6, <1>8, <1>11, <1>12, <1>13, <1>14 DEF Fit, GroupController

LEMMA GroupListed == Listed(GroupController, {"groups"})
<1>1. /\ Sort(Group_create, "POST", 1, "groups")
      /\ Sort(Group_getAll, "GET", 1, "groups")
      /\ Sort(Group_getGroupsWithTelegramGroups, "GET", 2, "groups")
      /\ Sort(Group_get, "GET", 2, "groups")
      /\ Sort(Group_update, "PATCH", 2, "groups")
      /\ Sort(Group_deleteGroup, "DELETE", 2, "groups")
  BY DEF Sort, Group_create, Group_getAll, Group_getGroupsWithTelegramGroups, Group_get,
         Group_update, Group_deleteGroup
<1>2. /\ Sort(Group_getStudents, "GET", 3, "groups")
      /\ Sort(Group_getCaptain, "GET", 3, "groups")
      /\ Sort(Group_getDisciplineTeachers, "GET", 3, "groups")
      /\ Sort(Group_getDiscipline, "GET", 3, "groups")
      /\ Sort(Group_addUnregistered, "POST", 3, "groups")
      /\ Sort(Group_verifyStudent, "PATCH", 4, "groups")
  BY DEF Sort, Group_getStudents, Group_getCaptain, Group_getDisciplineTeachers,
         Group_getDiscipline, Group_addUnregistered, Group_verifyStudent
<1>3. /\ Sort(Group_moderatorSwitch, "PATCH", 4, "groups")
      /\ Sort(Group_removeStudent, "DELETE", 4, "groups")
      /\ Sort(Group_getUnverifiedStudents, "GET", 3, "groups")
      /\ Sort(Group_switchCaptain, "POST", 3, "groups")
      /\ Sort(Group_getGroupList, "GET", 3, "groups")
      /\ Sort(Group_leaveGroup, "PATCH", 3, "groups")
  BY DEF Sort, Group_moderatorSwitch, Group_removeStudent, Group_getUnverifiedStudents,
         Group_switchCaptain, Group_getGroupList, Group_leaveGroup
<1>4. LetsPass(Group_getGroupsWithTelegramGroups, Group_get)
  BY DEF LetsPass, Words, Params, Ids, Group_getGroupsWithTelegramGroups, Group_get
<1>5. /\ LetsPass(Group_getStudents, Group_getCaptain)
      /\ LetsPass(Group_getStudents, Group_getDisciplineTeachers)
      /\ LetsPass(Group_getCaptain, Group_getDisciplineTeachers)
      /\ LetsPass(Group_getStudents, Group_getDiscipline)
      /\ LetsPass(Group_getCaptain, Group_getDiscipline)
      /\ LetsPass(Group_getDisciplineTeachers, Group_getDiscipline)
      /\ LetsPass(Group_getStudents, Group_getUnverifiedStudents)
      /\ LetsPass(Group_getCaptain, Group_getUnverifiedStudents)
  BY DEF LetsPass, Words, Params, Ids, Group_getStudents, Group_getCaptain,
         Group_getDisciplineTeachers, Group_getDiscipline, Group_getUnverifiedStudents
<1>6. /\ LetsPass(Group_getDisciplineTeachers, Group_getUnverifiedStudents)
      /\ LetsPass(Group_getDiscipline, Group_getUnverifiedStudents)
      /\ LetsPass(Group_getStudents, Group_getGroupList)
      /\ LetsPass(Group_getCaptain, Group_getGroupList)
      /\ LetsPass(Group_getDisciplineTeachers, Group_getGroupList)
      /\ LetsPass(Group_getDiscipline, Group_getGroupList)
      /\ LetsPass(Group_getUnverifiedStudents, Group_getGroupList)
  BY DEF LetsPass, Words, Params, Ids, Group_getStudents, Group_getCaptain,
         Group_getDisciplineTeachers, Group_getDiscipline, Group_getUnverifiedStudents,
         Group_getGroupList
<1>7. LetsPass(Group_addUnregistered, Group_switchCaptain)
  BY DEF LetsPass, Words, Params, Ids, Group_addUnregistered, Group_switchCaptain
<1>8. LetsPass(Group_verifyStudent, Group_moderatorSwitch)
  BY DEF LetsPass, Words, Params, Ids, Group_verifyStudent, Group_moderatorSwitch
<1>9. GroupController \in Seq(Range(GroupController)) /\ {"groups"} \cap Words = {}
  BY DEF GroupController, Range, Words, Params, Ids
<1>10. ASSUME NEW i \in 1..Len(GroupController)
      PROVE  \/ i = 1 /\ GroupController[i] = Group_create
             \/ i = 2 /\ GroupController[i] = Group_getAll
             \/ i = 3 /\ GroupController[i] = Group_getGroupsWithTelegramGroups
             \/ i = 4 /\ GroupController[i] = Group_get
             \/ i = 5 /\ GroupController[i] = Group_update
             \/ i = 6 /\ GroupController[i] = Group_deleteGroup
             \/ i = 7 /\ GroupController[i] = Group_getStudents
             \/ i = 8 /\ GroupController[i] = Group_getCaptain
             \/ i = 9 /\ GroupController[i] = Group_getDisciplineTeachers
             \/ i = 10 /\ GroupController[i] = Group_getDiscipline
             \/ i = 11 /\ GroupController[i] = Group_addUnregistered
             \/ i = 12 /\ GroupController[i] = Group_verifyStudent
             \/ i = 13 /\ GroupController[i] = Group_moderatorSwitch
             \/ i = 14 /\ GroupController[i] = Group_removeStudent
             \/ i = 15 /\ GroupController[i] = Group_getUnverifiedStudents
             \/ i = 16 /\ GroupController[i] = Group_switchCaptain
             \/ i = 17 /\ GroupController[i] = Group_getGroupList
             \/ i = 18 /\ GroupController[i] = Group_leaveGroup
  BY DEF GroupController
<1>11. InOrder(GroupController)
  BY <1>10, <1>1, <1>2, <1>3, <1>4, <1>5, <1>6, <1>7, <1>8, TellsApart DEF InOrder
<1>12. \A i \in 1..Len(GroupController) :
         \E verb, n : Sort(GroupController[i], verb, n, "groups")
  BY <1>1, <1>2, <1>3, <1>10
<1> QED BY <1>9, <1>11, <1>12, GroupFit DEF Listed

LEMMA TeacherFit == \A i \in 1..Len(TeacherController) : Fit(TeacherController[i])
<1>1. /\ Open(Teacher_getAll) /\ Open(Teacher_getTeacherRoles) /\ Open(Teacher_getSubjects)
      /\ Open(Teacher_getSubject) /\ Open(Teacher_getTeacher)
  BY DEF Open, Teacher_getAll, Teacher_getTeacherRoles, Teacher_getSubjects, Teacher_getSubject,
         Teacher_getTeacher
<1>2. /\ Wired(Teacher_getAll) /\ Wired(Teacher_getTeacherRoles) /\ Wired(Teacher_getSubjects)
      /\ Wired(Teacher_getSubject) /\ Wired(Teacher_getTeacher)
  BY <1>1 DEF Open, Wired
<1>3. /\ Open(Teacher_getAllContacts) /\ Open(Teacher_getContact) /\ Open(Teacher_getMarks)
      /\ Open(Teacher_getComments)
  BY DEF Open, Teacher_getAllContacts, Teacher_getContact, Teacher_getMarks, Teacher_getComments
<1>4. /\ Wired(Teacher_getAllContacts) /\ Wired(Teacher_getContact) /\ Wired(Teacher_getMarks)
      /\ Wired(Teacher_getComments)
  BY <1>3 DEF Open, Wired
<1>5. AsksNothing(Teacher_create, PERMISSION.TEACHERS_CREATE)
  BY DEF AsksNothing, Guarding, Lists, Teacher_create
<1>6. Wired(Teacher_create)
  BY <1>5, NothingAsked, OtherPermissions
<1>7. /\ AsksById(Teacher_update, 2, "teacherId", PERMISSION.TEACHERS_TEACHERID_UPDATE)
      /\ AsksById(Teacher_delete, 2, "teacherId", PERMISSION.TEACHERS_TEACHERID_DELETE)
      /\ AsksById(Teacher_createContact, 2, "teacherId",
              PERMISSION.TEACHERS_TEACHERID_CONTACTS_CREATE)
      /\ AsksById(Teacher_updateContact, 2, "teacherId",
              PERMISSION.TEACHERS_TEACHERID_CONTACTS_UPDATE)
      /\ AsksById(Teacher_deleteContact, 2, "teacherId",
              PERMISSION.TEACHERS_TEACHERID_CONTACTS_DELETE)
      /\ AsksById(Teacher_connectCathedra, 2, "teacherId",
              PERMISSION.TEACHERS_TEACHERID_CATHEDRAS_UPDATE)
  BY DEF AsksById, Guarding, Lists, Teacher_update, Teacher_delete, Teacher_createContact,
         Teacher_updateContact, Teacher_deleteContact, Teacher_connectCathedra
<1>8. /\ Wired(Teacher_update) /\ Wired(Teacher_delete) /\ Wired(Teacher_createContact)
      /\ Wired(Teacher_updateContact) /\ Wired(Teacher_deleteContact)
      /\ Wired(Teacher_connectCathedra)
  BY <1>7, IdAsked, OtherPermissions DEF Kinds, Params
<1>9. /\ Teacher_getDisciplines.guards = Access(<< >>) /\ Lists(Teacher_getDisciplines, "403")
      /\ 2 \in DOMAIN Teacher_getDisciplines.path /\ Teacher_getDisciplines.path[2] = "teacherId"
      /\ Teacher_getDisciplines.sent = {"userId"}
      /\ Teacher_getDisciplines.may =
           <<PERMISSION.USERS_USERID_TEACHERS_TEACHERID_DISCIPLINES_GET>>
  BY DEF Lists, Teacher_getDisciplines
<1>10. {"userId", "teacherId"} \subseteq ParamsOf(Teacher_getDisciplines)
  <2>1. "teacherId" \in ParamsOf(Teacher_getDisciplines)
    BY <1>9, ParamAsked DEF Params
  <2>2. "userId" \in ParamsOf(Teacher_getDisciplines)
    BY <1>9 DEF Params, ParamsOf
  <2> QED BY <2>1, <2>2
<1>11. Wired(Teacher_getDisciplines)
  <2>1. Kinds(PERMISSION.USERS_USERID_TEACHERS_TEACHERID_DISCIPLINES_GET, {"userId", "teacherId"})
    BY OwnPermissions DEF Kinds
  <2>2. Kinds(PERMISSION.USERS_USERID_TEACHERS_TEACHERID_DISCIPLINES_GET,
              ParamsOf(Teacher_getDisciplines))
    BY <1>10, <2>1, MoreWords
  <2> QED BY <1>9, <2>2 DEF Wired, Granted
<1>12. /\ Piped(Teacher_getAll) /\ Piped(Teacher_getTeacherRoles) /\ Piped(Teacher_getSubjects)
       /\ Piped(Teacher_getDisciplines) /\ Piped(Teacher_getSubject) /\ Piped(Teacher_getTeacher)
       /\ Piped(Teacher_create)
  BY DEF Piped, Plain, Lists, Teacher_getAll, Teacher_getTeacherRoles, Teacher_getSubjects,
         Teacher_getDisciplines, Teacher_getSubject, Teacher_getTeacher, Teacher_create
<1>13. /\ Piped(Teacher_update) /\ Piped(Teacher_delete) /\ Piped(Teacher_getAllContacts)
       /\ Piped(Teacher_getContact) /\ Piped(Teacher_createContact)
       /\ Piped(Teacher_updateContact) /\ Piped(Teacher_deleteContact)
  BY DEF Piped, Plain, Lists, Teacher_update, Teacher_delete, Teacher_getAllContacts,
         Teacher_getContact, Teacher_createContact, Teacher_updateContact, Teacher_deleteContact
<1>14. /\ Piped(Teacher_getMarks) /\ Piped(Teacher_getComments) /\ Piped(Teacher_connectCathedra)
  BY DEF Piped, Plain, Lists, Teacher_getMarks, Teacher_getComments, Teacher_connectCathedra
<1> QED BY <1>2, <1>4, <1>6, <1>8, <1>11, <1>12, <1>13, <1>14 DEF Fit, TeacherController

LEMMA TeacherListed == Listed(TeacherController, {"teachers"})
<1>1. /\ Sort(Teacher_getAll, "GET", 1, "teachers")
      /\ Sort(Teacher_getTeacherRoles, "GET", 3, "teachers")
      /\ Sort(Teacher_getSubjects, "GET", 3, "teachers")
      /\ Sort(Teacher_getDisciplines, "GET", 3, "teachers")
      /\ Sort(Teacher_getSubject, "GET", 4, "teachers")
      /\ Sort(Teacher_getTeacher, "GET", 2, "teachers")
  BY DEF Sort, Teacher_getAll, Teacher_getTeacherRoles, Teacher_getSubjects,
         Teacher_getDisciplines, Teacher_getSubject, Teacher_getTeacher
<1>2. /\ Sort(Teacher_create, "POST", 1, "teachers")
      /\ Sort(Teacher_update, "PATCH", 2, "teachers")
      /\ Sort(Teacher_delete, "DELETE", 2, "teachers")
      /\ Sort(Teacher_getAllContacts, "GET", 3, "teachers")
      /\ Sort(Teacher_getContact, "GET", 4, "teachers")
      /\ Sort(Teacher_createContact, "POST", 3, "teachers")
  BY DEF Sort, Teacher_create, Teacher_update, Teacher_delete, Teacher_getAllContacts,
         Teacher_getContact, Teacher_createContact
<1>3. /\ Sort(Teacher_updateContact, "PATCH", 4, "teachers")
      /\ Sort(Teacher_deleteContact, "DELETE", 4, "teachers")
      /\ Sort(Teacher_getMarks, "GET", 3, "teachers")
      /\ Sort(Teacher_getComments, "GET", 3, "teachers")
      /\ Sort(Teacher_connectCathedra, "PATCH", 4, "teachers")
  BY DEF Sort, Teacher_updateContact, Teacher_deleteContact, Teacher_getMarks, Teacher_getComments,
         Teacher_connectCathedra
<1>4. /\ LetsPass(Teacher_getTeacherRoles, Teacher_getSubjects)
      /\ LetsPass(Teacher_getTeacherRoles, Teacher_getDisciplines)
      /\ LetsPass(Teacher_getSubjects, Teacher_getDisciplines)
      /\ LetsPass(Teacher_getTeacherRoles, Teacher_getAllContacts)
      /\ LetsPass(Teacher_getSubjects, Teacher_getAllContacts)
      /\ LetsPass(Teacher_getDisciplines, Teacher_getAllContacts)
      /\ LetsPass(Teacher_getTeacherRoles, Teacher_getMarks)
      /\ LetsPass(Teacher_getSubjects, Teacher_getMarks)
  BY DEF LetsPass, Words, Params, Ids, Teacher_getTeacherRoles, Teacher_getSubjects,
         Teacher_getDisciplines, Teacher_getAllContacts, Teacher_getMarks
<1>5. /\ LetsPass(Teacher_getDisciplines, Teacher_getMarks)
      /\ LetsPass(Teacher_getAllContacts, Teacher_getMarks)
      /\ LetsPass(Teacher_getTeacherRoles, Teacher_getComments)
      /\ LetsPass(Teacher_getSubjects, Teacher_getComments)
      /\ LetsPass(Teacher_getDisciplines, Teacher_getComments)
      /\ LetsPass(Teacher_getAllContacts, Teacher_getComments)
      /\ LetsPass(Teacher_getMarks, Teacher_getComments)
  BY DEF LetsPass, Words, Params, Ids, Teacher_getTeacherRoles, Teacher_getSubjects,
         Teacher_getDisciplines, Teacher_getAllContacts, Teacher_getMarks, Teacher_getComments
<1>6. LetsPass(Teacher_getSubject, Teacher_getContact)
  BY DEF LetsPass, Words, Params, Ids, Teacher_getSubject, Teacher_getContact
<1>7. LetsPass(Teacher_updateContact, Teacher_connectCathedra)
  BY DEF LetsPass, Words, Params, Ids, Teacher_updateContact, Teacher_connectCathedra
<1>8. TeacherController \in Seq(Range(TeacherController)) /\ {"teachers"} \cap Words = {}
  BY DEF TeacherController, Range, Words, Params, Ids
<1>9. ASSUME NEW i \in 1..Len(TeacherController)
      PROVE  \/ i = 1 /\ TeacherController[i] = Teacher_getAll
             \/ i = 2 /\ TeacherController[i] = Teacher_getTeacherRoles
             \/ i = 3 /\ TeacherController[i] = Teacher_getSubjects
             \/ i = 4 /\ TeacherController[i] = Teacher_getDisciplines
             \/ i = 5 /\ TeacherController[i] = Teacher_getSubject
             \/ i = 6 /\ TeacherController[i] = Teacher_getTeacher
             \/ i = 7 /\ TeacherController[i] = Teacher_create
             \/ i = 8 /\ TeacherController[i] = Teacher_update
             \/ i = 9 /\ TeacherController[i] = Teacher_delete
             \/ i = 10 /\ TeacherController[i] = Teacher_getAllContacts
             \/ i = 11 /\ TeacherController[i] = Teacher_getContact
             \/ i = 12 /\ TeacherController[i] = Teacher_createContact
             \/ i = 13 /\ TeacherController[i] = Teacher_updateContact
             \/ i = 14 /\ TeacherController[i] = Teacher_deleteContact
             \/ i = 15 /\ TeacherController[i] = Teacher_getMarks
             \/ i = 16 /\ TeacherController[i] = Teacher_getComments
             \/ i = 17 /\ TeacherController[i] = Teacher_connectCathedra
  BY DEF TeacherController
<1>10. InOrder(TeacherController)
  BY <1>9, <1>1, <1>2, <1>3, <1>4, <1>5, <1>6, <1>7, TellsApart DEF InOrder
<1>11. \A i \in 1..Len(TeacherController) :
         \E verb, n : Sort(TeacherController[i], verb, n, "teachers")
  BY <1>1, <1>2, <1>3, <1>9
<1> QED BY <1>8, <1>10, <1>11, TeacherFit DEF Listed

LEMMA DisciplineTeacherFit ==
  \A i \in 1..Len(DisciplineTeacherController) : Fit(DisciplineTeacherController[i])
<1>1. Open(DisciplineTeacher_sendResponse)
  BY DEF Open, DisciplineTeacher_sendResponse
<1>2. Wired(DisciplineTeacher_sendResponse)
  BY <1>1 DEF Open, Wired
<1>3. /\ AsksNothing(DisciplineTeacher_create, PERMISSION.DISCIPLINE_TEACHERS_CREATE)
      /\ AsksNothing(DisciplineTeacher_updateById, PERMISSION.DISCIPLINE_TEACHERS_UPDATE)
      /\ AsksNothing(DisciplineTeacher_updateByTeacherAndDiscipline,
              PERMISSION.DISCIPLINE_TEACHERS_UPDATE)
      /\ AsksNothing(DisciplineTeacher_deleteById, PERMISSION.DISCIPLINE_TEACHERS_DELETE)
      /\ AsksNothing(DisciplineTeacher_deleteByTeacherAndDiscipline,
              PERMISSION.DISCIPLINE_TEACHERS_DELETE)
  BY DEF AsksNothing, Guarding, Lists, DisciplineTeacher_create, DisciplineTeacher_updateById,
         DisciplineTeacher_updateByTeacherAndDiscipline, DisciplineTeacher_deleteById,
         DisciplineTeacher_deleteByTeacherAndDiscipline
<1>4. /\ Wired(DisciplineTeacher_create) /\ Wired(DisciplineTeacher_updateById)
      /\ Wired(DisciplineTeacher_updateByTeacherAndDiscipline)
      /\ Wired(DisciplineTeacher_deleteById)
      /\ Wired(DisciplineTeacher_deleteByTeacherAndDiscipline)
  BY <1>3, NothingAsked, OtherPermissions
<1>5. /\ AsksByGroup(DisciplineTeacher_getQuestions, 2, "GroupByDisciplineTeacherGuard",
              PERMISSION.GROUPS_GROUPID_QUESTIONS_GET)
      /\ AsksByGroup(DisciplineTeacher_sendAnswers, 2, "GroupByDisciplineTeacherGuard",
              PERMISSION.GROUPS_GROUPID_ANSWERS_SEND)
      /\ AsksByGroup(DisciplineTeacher_removeDisciplineTeacherFromPoll, 2,
              "GroupByDisciplineTeacherGuard",
              PERMISSION.GROUPS_GROUPID_DISCIPLINE_TEACHERS_REMOVE)
  BY DEF AsksByGroup, Guarding, Lists, AbsenceOf, ThingOf, DisciplineTeacher_getQuestions,
         DisciplineTeacher_sendAnswers, DisciplineTeacher_removeDisciplineTeacherFromPoll
<1>6. /\ Wired(DisciplineTeacher_getQuestions) /\ Wired(DisciplineTeacher_sendAnswers)
      /\ Wired(DisciplineTeacher_removeDisciplineTeacherFromPoll)
  BY <1>5, GroupAsked, GroupPermissions DEF ThingOf
<1>7. /\ Piped(DisciplineTeacher_getQuestions) /\ Piped(DisciplineTeacher_sendAnswers)
      /\ Piped(DisciplineTeacher_sendResponse) /\ Piped(DisciplineTeacher_create)
      /\ Piped(DisciplineTeacher_updateById)
      /\ Piped(DisciplineTeacher_updateByTeacherAndDiscipline)
      /\ Piped(DisciplineTeacher_deleteById)
  BY DEF Piped, Plain, Lists, DisciplineTeacher_getQuestions, DisciplineTeacher_sendAnswers,
         DisciplineTeacher_sendResponse, DisciplineTeacher_create, DisciplineTeacher_updateById,
         DisciplineTeacher_updateByTeacherAndDiscipline, DisciplineTeacher_deleteById
<1>8. /\ Piped(DisciplineTeacher_deleteByTeacherAndDiscipline)
      /\ Piped(DisciplineTeacher_removeDisciplineTeacherFromPoll)
  BY DEF Piped, Plain, Lists, DisciplineTeacher_deleteByTeacherAndDiscipline,
         DisciplineTeacher_removeDisciplineTeacherFromPoll
<1> QED BY <1>2, <1>4, <1>6, <1>7, <1>8 DEF Fit, DisciplineTeacherController

LEMMA DisciplineTeacherListed == Listed(DisciplineTeacherController, {"disciplineTeachers"})
<1>1. /\ Sort(DisciplineTeacher_getQuestions, "GET", 3, "disciplineTeachers")
      /\ Sort(DisciplineTeacher_sendAnswers, "POST", 3, "disciplineTeachers")
      /\ Sort(DisciplineTeacher_sendResponse, "POST", 3, "disciplineTeachers")
      /\ Sort(DisciplineTeacher_create, "POST", 1, "disciplineTeachers")
      /\ Sort(DisciplineTeacher_updateById, "PATCH", 2, "disciplineTeachers")
  BY DEF Sort, DisciplineTeacher_getQuestions, DisciplineTeacher_sendAnswers,
         DisciplineTeacher_sendResponse, DisciplineTeacher_create, DisciplineTeacher_updateById
<1>2. /\ Sort(DisciplineTeacher_updateByTeacherAndDiscipline, "PATCH", 1, "disciplineTeachers")
      /\ Sort(DisciplineTeacher_deleteById, "DELETE", 2, "disciplineTeachers")
      /\ Sort(DisciplineTeacher_deleteByTeacherAndDiscipline, "DELETE", 1, "disciplineTeachers")
      /\ Sort(DisciplineTeacher_removeDisciplineTeacherFromPoll, "POST", 3, "disciplineTeachers")
  BY DEF Sort, DisciplineTeacher_updateByTeacherAndDiscipline, DisciplineTeacher_deleteById,
         DisciplineTeacher_deleteByTeacherAndDiscipline,
         DisciplineTeacher_removeDisciplineTeacherFromPoll
<1>3. /\ LetsPass(DisciplineTeacher_sendAnswers, DisciplineTeacher_sendResponse)
      /\ LetsPass(DisciplineTeacher_sendAnswers, DisciplineTeacher_removeDisciplineTeacherFromPoll)
      /\ LetsPass(DisciplineTeacher_sendResponse, DisciplineTeacher_removeDisciplineTeacherFromPoll)
  BY DEF LetsPass, Words, Params, Ids, DisciplineTeacher_sendAnswers,
         DisciplineTeacher_sendResponse, DisciplineTeacher_removeDisciplineTeacherFromPoll
<1>4. /\ DisciplineTeacherController \in Seq(Range(DisciplineTeacherController))
      /\ {"disciplineTeachers"} \cap Words = {}
  BY DEF DisciplineTeacherController, Range, Words, Params, Ids
<1>5. InOrder(DisciplineTeacherController)
  BY <1>1, <1>2, <1>3, TellsApart DEF InOrder, DisciplineTeacherController
<1>6. \A i \in 1..Len(DisciplineTeacherController) :
        \E verb, n : Sort(DisciplineTeacherController[i], verb, n, "disciplineTeachers")
  BY <1>1, <1>2 DEF DisciplineTeacherController
<1> QED BY <1>4, <1>5, <1>6, DisciplineTeacherFit DEF Listed

LEMMA SubjectFit == \A i \in 1..Len(SubjectController) : Fit(SubjectController[i])
<1>1. /\ Open(Subject_getAll) /\ Open(Subject_get) /\ Open(Subject_getTeachers)
  BY DEF Open, Subject_getAll, Subject_get, Subject_getTeachers
<1>2. /\ Wired(Subject_getAll) /\ Wired(Subject_get) /\ Wired(Subject_getTeachers)
  BY <1>1 DEF Open, Wired
<1>3. /\ AsksNothing(Subject_create, PERMISSION.SUBJECTS_CREATE)
      /\ AsksNothing(Subject_update, PERMISSION.SUBJECTS_UPDATE)
      /\ AsksNothing(Subject_delete, PERMISSION.SUBJECTS_DELETE)
  BY DEF AsksNothing, Guarding, Lists, Subject_create, Subject_update, Subject_delete
<1>4. /\ Wired(Subject_create) /\ Wired(Subject_update) /\ Wired(Subject_delete)
  BY <1>3, NothingAsked, OtherPermissions
<1>5. /\ Piped(Subject_getAll) /\ Piped(Subject_get) /\ Piped(Subject_getTeachers)
      /\ Piped(Subject_create) /\ Piped(Subject_update) /\ Piped(Subject_delete)
  BY DEF Piped, Plain, Lists, Subject_getAll, Subject_get, Subject_getTeachers, Subject_create,
         Subject_update, Subject_delete
<1> QED BY <1>2, <1>4, <1>5 DEF Fit, SubjectController

LEMMA SubjectListed == Listed(SubjectController, {"subjects"})
<1>1. /\ Sort(Subject_getAll, "GET", 1, "subjects")
      /\ Sort(Subject_get, "GET", 2, "subjects")
      /\ Sort(Subject_getTeachers, "GET", 3, "subjects")
      /\ Sort(Subject_create, "POST", 1, "subjects")
      /\ Sort(Subject_update, "PATCH", 2, "subjects")
      /\ Sort(Subject_delete, "DELETE", 2, "subjects")
  BY DEF Sort, Subject_getAll, Subject_get, Subject_getTeachers, Subject_create, Subject_update,
         Subject_delete
<1>2. SubjectController \in Seq(Range(SubjectController)) /\ {"subjects"} \cap Words = {}
  BY DEF SubjectController, Range, Words, Params, Ids
<1>3. InOrder(SubjectController)
  BY <1>1, TellsApart DEF InOrder, SubjectController
<1>4. \A i \in 1..Len(SubjectController) :
        \E verb, n : Sort(SubjectController[i], verb, n, "subjects")
  BY <1>1 DEF SubjectController
<1> QED BY <1>2, <1>3, <1>4, SubjectFit DEF Listed

LEMMA DisciplineFit == \A i \in 1..Len(DisciplineController) : Fit(DisciplineController[i])
<1>1. AsksNothing(Discipline_delete, PERMISSION.DISCIPLINE_DELETE)
  BY DEF AsksNothing, Guarding, Lists, Discipline_delete
<1>2. Wired(Discipline_delete)
  BY <1>1, NothingAsked, OtherPermissions
<1>3. AsksBySent(Discipline_create, "groupId", PERMISSION.GROUPS_GROUPID_DISCIPLINES_CREATE)
  BY DEF AsksBySent, Guarding, Lists, Discipline_create
<1>4. Wired(Discipline_create)
  BY <1>3, SentAsked, GroupPermissions DEF Kinds, Params
<1>5. AsksByGroup(Discipline_getAllByDiscipline, 2, "GroupByDisciplineGuard",
              PERMISSION.GROUPS_GROUPID_DISCIPLINES_TEACHERS_GET)
  BY DEF AsksByGroup, Guarding, Lists, AbsenceOf, ThingOf, Unlisted, Discipline_getAllByDiscipline
<1>6. Wired(Discipline_getAllByDiscipline)
  BY <1>5, GroupAsked, GroupPermissions DEF ThingOf
<1>7. /\ Piped(Discipline_create) /\ Piped(Discipline_getAllByDiscipline)
      /\ Piped(Discipline_delete)
  BY DEF Piped, Plain, Lists, Discipline_create, Discipline_getAllByDiscipline, Discipline_delete
<1> QED BY <1>2, <1>4, <1>6, <1>7 DEF Fit, DisciplineController

LEMMA DisciplineListed == Listed(DisciplineController, {"disciplines"})
<1>1. /\ Sort(Discipline_create, "POST", 1, "disciplines")
      /\ Sort(Discipline_getAllByDiscipline, "GET", 3, "disciplines")
      /\ Sort(Discipline_delete, "DELETE", 2, "disciplines")
  BY DEF Sort, Discipline_create, Discipline_getAllByDiscipline, Discipline_delete
<1>2. /\ DisciplineController \in Seq(Range(DisciplineController))
      /\ {"disciplines"} \cap Words = {}
  BY DEF DisciplineController, Range, Words, Params, Ids
<1>3. InOrder(DisciplineController)
  BY <1>1, TellsApart DEF InOrder, DisciplineController
<1>4. \A i \in 1..Len(DisciplineController) :
        \E verb, n : Sort(DisciplineController[i], verb, n, "disciplines")
  BY <1>1 DEF DisciplineController
<1> QED BY <1>2, <1>3, <1>4, DisciplineFit DEF Listed

LEMMA PollFit == \A i \in 1..Len(PollController) : Fit(PollController[i])
<1>1. Open(Poll_getQuestion)
  BY DEF Open, Poll_getQuestion
<1>2. Wired(Poll_getQuestion)
  BY <1>1 DEF Open, Wired
<1>3. /\ AsksNothing(Poll_create, PERMISSION.QUESTIONS_CREATE)
      /\ AsksNothing(Poll_delete, PERMISSION.QUESTIONS_DELETE)
      /\ AsksNothing(Poll_update, PERMISSION.QUESTIONS_UPDATE)
      /\ AsksNothing(Poll_giveRole, PERMISSION.QUESTIONS_ROLES_GIVE)
      /\ AsksNothing(Poll_deleteRole, PERMISSION.QUESTIONS_ROLES_DELETE)
  BY DEF AsksNothing, Guarding, Lists, Poll_create, Poll_delete, Poll_update, Poll_giveRole,
         Poll_deleteRole
<1>4. /\ Wired(Poll_create) /\ Wired(Poll_delete) /\ Wired(Poll_update) /\ Wired(Poll_giveRole)
      /\ Wired(Poll_deleteRole)
  BY <1>3, NothingAsked, OtherPermissions
<1>5. AsksById(Poll_getPollDisciplineTeachers, 3, "userId",
              PERMISSION.USERS_USERID_POLL_TEACHERS_GET)
  BY DEF AsksById, Guarding, Lists, Poll_getPollDisciplineTeachers
<1>6. Wired(Poll_getPollDisciplineTeachers)
  BY <1>5, IdAsked, OwnPermissions DEF Kinds, Params
<1>7. /\ Piped(Poll_create) /\ Piped(Poll_getPollDisciplineTeachers) /\ Piped(Poll_delete)
      /\ Piped(Poll_update) /\ Piped(Poll_getQuestion) /\ Piped(Poll_giveRole)
      /\ Piped(Poll_deleteRole)
  BY DEF Piped, Plain, Lists, Poll_create, Poll_getPollDisciplineTeachers, Poll_delete,
         Poll_update, Poll_getQuestion, Poll_giveRole, Poll_deleteRole
<1> QED BY <1>2, <1>4, <1>6, <1>7 DEF Fit, PollController

LEMMA PollListed == Listed(PollController, {"poll"})
<1>1. /\ Sort(Poll_create, "POST", 2, "poll")
      /\ Sort(Poll_getPollDisciplineTeachers, "GET", 3, "poll")
      /\ Sort(Poll_delete, "DELETE", 3, "poll")
      /\ Sort(Poll_update, "PATCH", 3, "poll")
  BY DEF Sort, Poll_create, Poll_getPollDisciplineTeachers, Poll_delete, Poll_update
<1>2. /\ Sort(Poll_getQuestion, "GET", 3, "poll")
      /\ Sort(Poll_giveRole, "POST", 4, "poll")
      /\ Sort(Poll_deleteRole, "DELETE", 5, "poll")
  BY DEF Sort, Poll_getQuestion, Poll_giveRole, Poll_deleteRole
<1>3. LetsPass(Poll_getPollDisciplineTeachers, Poll_getQuestion)
  BY DEF LetsPass, Words, Params, Ids, Poll_getPollDisciplineTeachers, Poll_getQuestion
<1>4. PollController \in Seq(Range(PollController)) /\ {"poll"} \cap Words = {}
  BY DEF PollController, Range, Words, Params, Ids
<1>5. InOrder(PollController)
  BY <1>1, <1>2, <1>3, TellsApart DEF InOrder, PollController
<1>6. \A i \in 1..Len(PollController) : \E verb, n : Sort(PollController[i], verb, n, "poll")
  BY <1>1, <1>2 DEF PollController
<1> QED BY <1>4, <1>5, <1>6, PollFit DEF Listed

LEMMA ScheduleFit == \A i \in 1..Len(ScheduleController) : Fit(ScheduleController[i])
<1>1. /\ Open(Schedule_getGeneralEvents) /\ Open(Schedule_getGroupEventsByDay)
      /\ Open(Schedule_getFortnightEvents) /\ Open(Schedule_getGroupEventsByWeek)
      /\ Open(Schedule_createSimpleTelegramEvent)
  BY DEF Open, Schedule_getGeneralEvents, Schedule_getGroupEventsByDay,
         Schedule_getFortnightEvents, Schedule_getGroupEventsByWeek,
         Schedule_createSimpleTelegramEvent
<1>2. /\ Wired(Schedule_getGeneralEvents) /\ Wired(Schedule_getGroupEventsByDay)
      /\ Wired(Schedule_getFortnightEvents) /\ Wired(Schedule_getGroupEventsByWeek)
      /\ Wired(Schedule_createSimpleTelegramEvent)
  BY <1>1 DEF Open, Wired
<1>3. AsksNothing(Schedule_parse, PERMISSION.SCHEDULE_PARSE)
  BY DEF AsksNothing, Guarding, Lists, Unlisted, Schedule_parse
<1>4. Wired(Schedule_parse)
  BY <1>3, NothingAsked, OtherPermissions
<1>5. /\ AsksById(Schedule_getGroupEvents, 3, "groupId", PERMISSION.GROUPS_GROUPID_EVENTS_GET)
      /\ AsksById(Schedule_deleteEvent, 3, "groupId", PERMISSION.GROUPS_GROUPID_EVENTS_DELETE)
      /\ AsksById(Schedule_update, 3, "groupId", PERMISSION.GROUPS_GROUPID_EVENTS_UPDATE)
  BY DEF AsksById, Guarding, Lists, Schedule_getGroupEvents, Schedule_deleteEvent, Schedule_update
<1>6. /\ Wired(Schedule_getGroupEvents) /\ Wired(Schedule_deleteEvent) /\ Wired(Schedule_update)
  BY <1>5, IdAsked, GroupPermissions DEF Kinds, Params
<1>7. AsksBySent(Schedule_createEvent, "groupId", PERMISSION.GROUPS_GROUPID_EVENTS_CREATE)
  BY DEF AsksBySent, Guarding, Lists, Schedule_createEvent
<1>8. Wired(Schedule_createEvent)
  BY <1>7, SentAsked, GroupPermissions DEF Kinds, Params
<1>9. AsksByGroup(Schedule_getEvent, 3, "GroupByEventGuard", PERMISSION.GROUPS_GROUPID_EVENTS_GET)
  BY DEF AsksByGroup, Guarding, Lists, AbsenceOf, ThingOf, Schedule_getEvent
<1>10. Wired(Schedule_getEvent)
  BY <1>9, GroupAsked, GroupPermissions DEF ThingOf
<1>11. /\ Piped(Schedule_parse) /\ Piped(Schedule_getGeneralEvents)
       /\ Piped(Schedule_getGroupEventsByDay) /\ Piped(Schedule_getEvent)
       /\ Piped(Schedule_createEvent) /\ Piped(Schedule_getGroupEvents)
       /\ Piped(Schedule_deleteEvent)
  BY DEF Piped, Plain, Lists, Schedule_parse, Schedule_getGeneralEvents,
         Schedule_getGroupEventsByDay, Schedule_getEvent, Schedule_createEvent,
         Schedule_getGroupEvents, Schedule_deleteEvent
<1>12. /\ Piped(Schedule_update) /\ Piped(Schedule_getFortnightEvents)
       /\ Piped(Schedule_getGroupEventsByWeek) /\ Piped(Schedule_createSimpleTelegramEvent)
  BY DEF Piped, Plain, Lists, Schedule_update, Schedule_getFortnightEvents,
         Schedule_getGroupEventsByWeek, Schedule_createSimpleTelegramEvent
<1> QED BY <1>2, <1>4, <1>6, <1>8, <1>10, <1>11, <1>12 DEF Fit, ScheduleController

LEMMA ScheduleListed == Listed(ScheduleController, {"schedule"})
<1>1. /\ Sort(Schedule_parse, "POST", 2, "schedule")
      /\ Sort(Schedule_getGeneralEvents, "GET", 4, "schedule")
      /\ Sort(Schedule_getGroupEventsByDay, "GET", 4, "schedule")
      /\ Sort(Schedule_getEvent, "GET", 3, "schedule")
      /\ Sort(Schedule_createEvent, "POST", 2, "schedule")
      /\ Sort(Schedule_getGroupEvents, "GET", 4, "schedule")
  BY DEF Sort, Schedule_parse, Schedule_getGeneralEvents, Schedule_getGroupEventsByDay,
         Schedule_getEvent, Schedule_createEvent, Schedule_getGroupEvents
<1>2. /\ Sort(Schedule_deleteEvent, "DELETE", 5, "schedule")
      /\ Sort(Schedule_update, "PATCH", 5, "schedule")
      /\ Sort(Schedule_getFortnightEvents, "GET", 4, "schedule")
      /\ Sort(Schedule_getGroupEventsByWeek, "GET", 4, "schedule")
      /\ Sort(Schedule_createSimpleTelegramEvent, "POST", 3, "schedule")
  BY DEF Sort, Schedule_deleteEvent, Schedule_update, Schedule_getFortnightEvents,
         Schedule_getGroupEventsByWeek, Schedule_createSimpleTelegramEvent
<1>3. LetsPass(Schedule_parse, Schedule_createEvent)
  BY DEF LetsPass, Words, Params, Ids, Schedule_parse, Schedule_createEvent
<1>4. /\ LetsPass(Schedule_getGeneralEvents, Schedule_getGroupEventsByDay)
      /\ LetsPass(Schedule_getGeneralEvents, Schedule_getGroupEvents)
      /\ LetsPass(Schedule_getGroupEventsByDay, Schedule_getGroupEvents)
      /\ LetsPass(Schedule_getGeneralEvents, Schedule_getFortnightEvents)
      /\ LetsPass(Schedule_getGroupEventsByDay, Schedule_getFortnightEvents)
      /\ LetsPass(Schedule_getGroupEvents, Schedule_getFortnightEvents)
      /\ LetsPass(Schedule_getGeneralEvents, Schedule_getGroupEventsByWeek)
      /\ LetsPass(Schedule_getGroupEventsByDay, Schedule_getGroupEventsByWeek)
  BY DEF LetsPass, Words, Params, Ids, Schedule_getGeneralEvents, Schedule_getGroupEventsByDay,
         Schedule_getGroupEvents, Schedule_getFortnightEvents, Schedule_getGroupEventsByWeek
<1>5. /\ LetsPass(Schedule_getGroupEvents, Schedule_getGroupEventsByWeek)
      /\ LetsPass(Schedule_getFortnightEvents, Schedule_getGroupEventsByWeek)
  BY DEF LetsPass, Words, Params, Ids, Schedule_getGroupEvents, Schedule_getFortnightEvents,
         Schedule_getGroupEventsByWeek
<1>6. ScheduleController \in Seq(Range(ScheduleController)) /\ {"schedule"} \cap Words = {}
  BY DEF ScheduleController, Range, Words, Params, Ids
<1>7. InOrder(ScheduleController)
  BY <1>1, <1>2, <1>3, <1>4, <1>5, TellsApart DEF InOrder, ScheduleController
<1>8. \A i \in 1..Len(ScheduleController) :
        \E verb, n : Sort(ScheduleController[i], verb, n, "schedule")
  BY <1>1, <1>2 DEF ScheduleController
<1> QED BY <1>6, <1>7, <1>8, ScheduleFit DEF Listed

LEMMA ResourceFit == \A i \in 1..Len(ResourceController) : Fit(ResourceController[i])
<1>1. /\ Open(Resource_getAll) /\ Open(Resource_get)
  BY DEF Open, Resource_getAll, Resource_get
<1>2. /\ Wired(Resource_getAll) /\ Wired(Resource_get)
  BY <1>1 DEF Open, Wired
<1>3. /\ AsksNothing(Resource_create, PERMISSION.RESOURCES_CREATE)
      /\ AsksNothing(Resource_update, PERMISSION.RESOURCES_UPDATE)
      /\ AsksNothing(Resource_delete, PERMISSION.RESOURCES_DELETE)
  BY DEF AsksNothing, Guarding, Lists, Resource_create, Resource_update, Resource_delete
<1>4. /\ Wired(Resource_create) /\ Wired(Resource_update) /\ Wired(Resource_delete)
  BY <1>3, NothingAsked, OtherPermissions
<1>5. /\ Piped(Resource_getAll) /\ Piped(Resource_get) /\ Piped(Resource_create)
      /\ Piped(Resource_update) /\ Piped(Resource_delete)
  BY DEF Piped, Plain, Lists, Resource_getAll, Resource_get, Resource_create, Resource_update,
         Resource_delete
<1> QED BY <1>2, <1>4, <1>5 DEF Fit, ResourceController

LEMMA ResourceListed == Listed(ResourceController, {"studentResources"})
<1>1. /\ Sort(Resource_getAll, "GET", 1, "studentResources")
      /\ Sort(Resource_get, "GET", 2, "studentResources")
      /\ Sort(Resource_create, "POST", 1, "studentResources")
      /\ Sort(Resource_update, "PATCH", 2, "studentResources")
      /\ Sort(Resource_delete, "DELETE", 2, "studentResources")
  BY DEF Sort, Resource_getAll, Resource_get, Resource_create, Resource_update, Resource_delete
<1>2. /\ ResourceController \in Seq(Range(ResourceController))
      /\ {"studentResources"} \cap Words = {}
  BY DEF ResourceController, Range, Words, Params, Ids
<1>3. InOrder(ResourceController)
  BY <1>1, TellsApart DEF InOrder, ResourceController
<1>4. \A i \in 1..Len(ResourceController) :
        \E verb, n : Sort(ResourceController[i], verb, n, "studentResources")
  BY <1>1 DEF ResourceController
<1> QED BY <1>2, <1>3, <1>4, ResourceFit DEF Listed

LEMMA CathedraFit == \A i \in 1..Len(CathedraController) : Fit(CathedraController[i])
<1>1. Open(Cathedra_getAll)
  BY DEF Open, Cathedra_getAll
<1>2. Wired(Cathedra_getAll)
  BY <1>1 DEF Open, Wired
<1>3. /\ AsksNothing(Cathedra_create, PERMISSION.CATHEDRAS_CREATE)
      /\ AsksNothing(Cathedra_update, PERMISSION.CATHEDRAS_UPDATE)
      /\ AsksNothing(Cathedra_delete, PERMISSION.CATHEDRAS_DELETE)
  BY DEF AsksNothing, Guarding, Lists, Cathedra_create, Cathedra_update, Cathedra_delete
<1>4. /\ Wired(Cathedra_create) /\ Wired(Cathedra_update) /\ Wired(Cathedra_delete)
  BY <1>3, NothingAsked, OtherPermissions
<1>5. /\ Piped(Cathedra_getAll) /\ Piped(Cathedra_create) /\ Piped(Cathedra_update)
      /\ Piped(Cathedra_delete)
  BY DEF Piped, Plain, Lists, Cathedra_getAll, Cathedra_create, Cathedra_update, Cathedra_delete
<1> QED BY <1>2, <1>4, <1>5 DEF Fit, CathedraController

LEMMA CathedraListed == Listed(CathedraController, {"cathedras"})
<1>1. /\ Sort(Cathedra_getAll, "GET", 1, "cathedras")
      /\ Sort(Cathedra_create, "POST", 1, "cathedras")
      /\ Sort(Cathedra_update, "PATCH", 2, "cathedras")
      /\ Sort(Cathedra_delete, "DELETE", 2, "cathedras")
  BY DEF Sort, Cathedra_getAll, Cathedra_create, Cathedra_update, Cathedra_delete
<1>2. CathedraController \in Seq(Range(CathedraController)) /\ {"cathedras"} \cap Words = {}
  BY DEF CathedraController, Range, Words, Params, Ids
<1>3. InOrder(CathedraController)
  BY <1>1, TellsApart DEF InOrder, CathedraController
<1>4. \A i \in 1..Len(CathedraController) :
        \E verb, n : Sort(CathedraController[i], verb, n, "cathedras")
  BY <1>1 DEF CathedraController
<1> QED BY <1>2, <1>3, <1>4, CathedraFit DEF Listed

LEMMA DocumentFit == \A i \in 1..Len(DocumentController) : Fit(DocumentController[i])
<1>1. /\ Open(Document_createContract) /\ Open(Document_generatePriority)
      /\ Open(Document_sendContract) /\ Open(Document_sendPriority)
  BY DEF Open, Document_createContract, Document_generatePriority, Document_sendContract,
         Document_sendPriority
<1>2. /\ Wired(Document_createContract) /\ Wired(Document_generatePriority)
      /\ Wired(Document_sendContract) /\ Wired(Document_sendPriority)
  BY <1>1 DEF Open, Wired
<1>3. /\ Piped(Document_createContract) /\ Piped(Document_generatePriority)
      /\ Piped(Document_sendContract) /\ Piped(Document_sendPriority)
  BY DEF Piped, Plain, Lists, Document_createContract, Document_generatePriority,
         Document_sendContract, Document_sendPriority
<1> QED BY <1>2, <1>3 DEF Fit, DocumentController

LEMMA DocumentListed == Listed(DocumentController, {"documents"})
<1>1. /\ Sort(Document_createContract, "POST", 2, "documents")
      /\ Sort(Document_generatePriority, "POST", 2, "documents")
      /\ Sort(Document_sendContract, "GET", 3, "documents")
      /\ Sort(Document_sendPriority, "GET", 3, "documents")
  BY DEF Sort, Document_createContract, Document_generatePriority, Document_sendContract,
         Document_sendPriority
<1>2. LetsPass(Document_createContract, Document_generatePriority)
  BY DEF LetsPass, Words, Params, Ids, Document_createContract, Document_generatePriority
<1>3. LetsPass(Document_sendContract, Document_sendPriority)
  BY DEF LetsPass, Words, Params, Ids, Document_sendContract, Document_sendPriority
<1>4. DocumentController \in Seq(Range(DocumentController)) /\ {"documents"} \cap Words = {}
  BY DEF DocumentController, Range, Words, Params, Ids
<1>5. InOrder(DocumentController)
  BY <1>1, <1>2, <1>3, TellsApart DEF InOrder, DocumentController
<1>6. \A i \in 1..Len(DocumentController) :
        \E verb, n : Sort(DocumentController[i], verb, n, "documents")
  BY <1>1 DEF DocumentController
<1> QED BY <1>4, <1>5, <1>6, DocumentFit DEF Listed

LEMMA EntrantFit == \A i \in 1..Len(EntrantController) : Fit(EntrantController[i])
<1>1. /\ AsksNothing(Entrant_approveContract, PERMISSION.ENTRANT_CONTRACT_CREATE)
      /\ AsksNothing(Entrant_getEntrantPriority, PERMISSION.ADMISSION_PRIORITIES_GET)
      /\ AsksNothing(Entrant_approvePriority, PERMISSION.ADMISSION_PRIORITIES_APPROVE)
      /\ AsksNothing(Entrant_approvePriorityById, PERMISSION.ADMISSION_PRIORITIES_APPROVE)
  BY DEF AsksNothing, Guarding, Lists, Entrant_approveContract, Entrant_getEntrantPriority,
         Entrant_approvePriority, Entrant_approvePriorityById
<1>2. /\ Wired(Entrant_approveContract) /\ Wired(Entrant_getEntrantPriority)
      /\ Wired(Entrant_approvePriority) /\ Wired(Entrant_approvePriorityById)
  BY <1>1, NothingAsked, OtherPermissions
<1>3. /\ AsksNothing(Entrant_deleteEntrantData, PERMISSION.ADMISSION_DELETE)
      /\ AsksNothing(Entrant_get, PERMISSION.ADMISSION_GET)
      /\ AsksNothing(Entrant_delete, PERMISSION.ADMISSION_DELETE)
  BY DEF AsksNothing, Guarding, Lists, Entrant_deleteEntrantData, Entrant_get, Entrant_delete
<1>4. /\ Wired(Entrant_deleteEntrantData) /\ Wired(Entrant_get) /\ Wired(Entrant_delete)
  BY <1>3, NothingAsked, OtherPermissions
<1>5. /\ Piped(Entrant_approveContract) /\ Piped(Entrant_getEntrantPriority)
      /\ Piped(Entrant_approvePriority) /\ Piped(Entrant_approvePriorityById)
      /\ Piped(Entrant_deleteEntrantData) /\ Piped(Entrant_get) /\ Piped(Entrant_delete)
  BY DEF Piped, Plain, Lists, Entrant_approveContract, Entrant_getEntrantPriority,
         Entrant_approvePriority, Entrant_approvePriorityById, Entrant_deleteEntrantData,
         Entrant_get, Entrant_delete
<1> QED BY <1>2, <1>4, <1>5 DEF Fit, EntrantController

LEMMA EntrantListed == Listed(EntrantController, {"entrants"})
<1>1. /\ Sort(Entrant_approveContract, "POST", 2, "entrants")
      /\ Sort(Entrant_getEntrantPriority, "GET", 2, "entrants")
      /\ Sort(Entrant_approvePriority, "PATCH", 3, "entrants")
      /\ Sort(Entrant_approvePriorityById, "PATCH", 4, "entrants")
  BY DEF Sort, Entrant_approveContract, Entrant_getEntrantPriority, Entrant_approvePriority,
         Entrant_approvePriorityById
<1>2. /\ Sort(Entrant_deleteEntrantData, "DELETE", 2, "entrants")
      /\ Sort(Entrant_get, "GET", 1, "entrants")
      /\ Sort(Entrant_delete, "DELETE", 2, "entrants")
  BY DEF Sort, Entrant_deleteEntrantData, Entrant_get, Entrant_delete
<1>3. LetsPass(Entrant_deleteEntrantData, Entrant_delete)
  BY DEF LetsPass, Words, Params, Ids, Entrant_deleteEntrantData, Entrant_delete
<1>4. EntrantController \in Seq(Range(EntrantController)) /\ {"entrants"} \cap Words = {}
  BY DEF EntrantController, Range, Words, Params, Ids
<1>5. InOrder(EntrantController)
  BY <1>1, <1>2, <1>3, TellsApart DEF InOrder, EntrantController
<1>6. \A i \in 1..Len(EntrantController) :
        \E verb, n : Sort(EntrantController[i], verb, n, "entrants")
  BY <1>1, <1>2 DEF EntrantController
<1> QED BY <1>4, <1>5, <1>6, EntrantFit DEF Listed

LEMMA AdmissionFit == \A i \in 1..Len(AdmissionController) : Fit(AdmissionController[i])
<1>1. /\ Open(Admission_createQueue) /\ Open(Admission_getQueues) /\ Open(Admission_getQueue)
      /\ Open(Admission_updateQueue) /\ Open(Admission_deleteQueue)
  BY DEF Open, Admission_createQueue, Admission_getQueues, Admission_getQueue,
         Admission_updateQueue, Admission_deleteQueue
<1>2. /\ Wired(Admission_createQueue) /\ Wired(Admission_getQueues) /\ Wired(Admission_getQueue)
      /\ Wired(Admission_updateQueue) /\ Wired(Admission_deleteQueue)
  BY <1>1 DEF Open, Wired
<1>3. /\ Open(Admission_advanceQueue) /\ Open(Admission_getQueueUsers)
      /\ Open(Admission_createQueueUser) /\ Open(Admission_removeQueueUser)
      /\ Open(Admission_updateQueueUser)
  BY DEF Open, Admission_advanceQueue, Admission_getQueueUsers, Admission_createQueueUser,
         Admission_removeQueueUser, Admission_updateQueueUser
<1>4. /\ Wired(Admission_advanceQueue) /\ Wired(Admission_getQueueUsers)
      /\ Wired(Admission_createQueueUser) /\ Wired(Admission_removeQueueUser)
      /\ Wired(Admission_updateQueueUser)
  BY <1>3 DEF Open, Wired
<1>5. /\ Open(Admission_getQueueUser) /\ Open(Admission_getUsers) /\ Open(Admission_createUser)
      /\ Open(Admission_getUser)
  BY DEF Open, Admission_getQueueUser, Admission_getUsers, Admission_createUser, Admission_getUser
<1>6. /\ Wired(Admission_getQueueUser) /\ Wired(Admission_getUsers) /\ Wired(Admission_createUser)
      /\ Wired(Admission_getUser)
  BY <1>5 DEF Open, Wired
<1>7. /\ Piped(Admission_createQueue) /\ Piped(Admission_getQueues) /\ Piped(Admission_getQueue)
      /\ Piped(Admission_updateQueue) /\ Piped(Admission_deleteQueue)
      /\ Piped(Admission_advanceQueue) /\ Piped(Admission_getQueueUsers)
  BY DEF Piped, Plain, Lists, Admission_createQueue, Admission_getQueues, Admission_getQueue,
         Admission_updateQueue, Admission_deleteQueue, Admission_advanceQueue,
         Admission_getQueueUsers
<1>8. /\ Piped(Admission_createQueueUser) /\ Piped(Admission_removeQueueUser)
      /\ Piped(Admission_updateQueueUser) /\ Piped(Admission_getQueueUser)
      /\ Piped(Admission_getUsers) /\ Piped(Admission_createUser) /\ Piped(Admission_getUser)
  BY DEF Piped, Plain, Lists, Admission_createQueueUser, Admission_removeQueueUser,
         Admission_updateQueueUser, Admission_getQueueUser, Admission_getUsers,
         Admission_createUser, Admission_getUser
<1> QED BY <1>2, <1>4, <1>6, <1>7, <1>8 DEF Fit, AdmissionController

LEMMA AdmissionListed == Listed(AdmissionController, {"admission"})
<1>1. /\ Sort(Admission_createQueue, "POST", 2, "admission")
      /\ Sort(Admission_getQueues, "GET", 2, "admission")
      /\ Sort(Admission_getQueue, "GET", 3, "admission")
      /\ Sort(Admission_updateQueue, "PATCH", 3, "admission")
      /\ Sort(Admission_deleteQueue, "DELETE", 3, "admission")
  BY DEF Sort, Admission_createQueue, Admission_getQueues, Admission_getQueue,
         Admission_updateQueue, Admission_deleteQueue
<1>2. /\ Sort(Admission_advanceQueue, "POST", 4, "admission")
      /\ Sort(Admission_getQueueUsers, "GET", 4, "admission")
      /\ Sort(Admission_createQueueUser, "POST", 4, "admission")
      /\ Sort(Admission_removeQueueUser, "DELETE", 5, "admission")
      /\ Sort(Admission_updateQueueUser, "PATCH", 5, "admission")
  BY DEF Sort, Admission_advanceQueue, Admission_getQueueUsers, Admission_createQueueUser,
         Admission_removeQueueUser, Admission_updateQueueUser
<1>3. /\ Sort(Admission_getQueueUser, "GET", 5, "admission")
      /\ Sort(Admission_getUsers, "GET", 2, "admission")
      /\ Sort(Admission_createUser, "POST", 2, "admission")
      /\ Sort(Admission_getUser, "GET", 3, "admission")
  BY DEF Sort, Admission_getQueueUser, Admission_getUsers, Admission_createUser, Admission_getUser
<1>4. LetsPass(Admission_createQueue, Admission_createUser)
  BY DEF LetsPass, Words, Params, Ids, Admission_createQueue, Admission_createUser
<1>5. LetsPass(Admission_getQueues, Admission_getUsers)
  BY DEF LetsPass, Words, Params, Ids, Admission_getQueues, Admission_getUsers
<1>6. LetsPass(Admission_getQueue, Admission_getUser)
  BY DEF LetsPass, Words, Params, Ids, Admission_getQueue, Admission_getUser
<1>7. LetsPass(Admission_advanceQueue, Admission_createQueueUser)
  BY DEF LetsPass, Words, Params, Ids, Admission_advanceQueue, Admission_createQueueUser
<1>8. AdmissionController \in Seq(Range(AdmissionController)) /\ {"admission"} \cap Words = {}
  BY DEF AdmissionController, Range, Words, Params, Ids
<1>9. ASSUME NEW i \in 1..Len(AdmissionController)
      PROVE  \/ i = 1 /\ AdmissionController[i] = Admission_createQueue
             \/ i = 2 /\ AdmissionController[i] = Admission_getQueues
             \/ i = 3 /\ AdmissionController[i] = Admission_getQueue
             \/ i = 4 /\ AdmissionController[i] = Admission_updateQueue
             \/ i = 5 /\ AdmissionController[i] = Admission_deleteQueue
             \/ i = 6 /\ AdmissionController[i] = Admission_advanceQueue
             \/ i = 7 /\ AdmissionController[i] = Admission_getQueueUsers
             \/ i = 8 /\ AdmissionController[i] = Admission_createQueueUser
             \/ i = 9 /\ AdmissionController[i] = Admission_removeQueueUser
             \/ i = 10 /\ AdmissionController[i] = Admission_updateQueueUser
             \/ i = 11 /\ AdmissionController[i] = Admission_getQueueUser
             \/ i = 12 /\ AdmissionController[i] = Admission_getUsers
             \/ i = 13 /\ AdmissionController[i] = Admission_createUser
             \/ i = 14 /\ AdmissionController[i] = Admission_getUser
  BY DEF AdmissionController
<1>10. InOrder(AdmissionController)
  BY <1>9, <1>1, <1>2, <1>3, <1>4, <1>5, <1>6, <1>7, TellsApart DEF InOrder
<1>11. \A i \in 1..Len(AdmissionController) :
         \E verb, n : Sort(AdmissionController[i], verb, n, "admission")
  BY <1>1, <1>2, <1>3, <1>9
<1> QED BY <1>8, <1>10, <1>11, AdmissionFit DEF Listed

LEMMA TelegramGroupFit ==
  \A i \in 1..Len(TelegramGroupController) : Fit(TelegramGroupController[i])
<1>1. /\ Open(TelegramGroup_create) /\ Open(TelegramGroup_update) /\ Open(TelegramGroup_delete)
      /\ Open(TelegramGroup_getTelegramGroups) /\ Open(TelegramGroup_getGroupsByTelegramId)
  BY DEF Open, TelegramGroup_create, TelegramGroup_update, TelegramGroup_delete,
         TelegramGroup_getTelegramGroups, TelegramGroup_getGroupsByTelegramId
<1>2. /\ Wired(TelegramGroup_create) /\ Wired(TelegramGroup_update) /\ Wired(TelegramGroup_delete)
      /\ Wired(TelegramGroup_getTelegramGroups) /\ Wired(TelegramGroup_getGroupsByTelegramId)
  BY <1>1 DEF Open, Wired
<1>3. /\ Piped(TelegramGroup_create) /\ Piped(TelegramGroup_update) /\ Piped(TelegramGroup_delete)
      /\ Piped(TelegramGroup_getTelegramGroups) /\ Piped(TelegramGroup_getGroupsByTelegramId)
  BY DEF Piped, Plain, Lists, TelegramGroup_create, TelegramGroup_update, TelegramGroup_delete,
         TelegramGroup_getTelegramGroups, TelegramGroup_getGroupsByTelegramId
<1> QED BY <1>2, <1>3 DEF Fit, TelegramGroupController

LEMMA TelegramGroupListed == Listed(TelegramGroupController, {"telegramGroups"})
<1>1. /\ Sort(TelegramGroup_create, "POST", 2, "telegramGroups")
      /\ Sort(TelegramGroup_update, "PATCH", 1, "telegramGroups")
      /\ Sort(TelegramGroup_delete, "DELETE", 1, "telegramGroups")
      /\ Sort(TelegramGroup_getTelegramGroups, "GET", 2, "telegramGroups")
      /\ Sort(TelegramGroup_getGroupsByTelegramId, "GET", 3, "telegramGroups")
  BY DEF Sort, TelegramGroup_create, TelegramGroup_update, TelegramGroup_delete,
         TelegramGroup_getTelegramGroups, TelegramGroup_getGroupsByTelegramId
<1>2. /\ TelegramGroupController \in Seq(Range(TelegramGroupController))
      /\ {"telegramGroups"} \cap Words = {}
  BY DEF TelegramGroupController, Range, Words, Params, Ids
<1>3. InOrder(TelegramGroupController)
  BY <1>1, TellsApart DEF InOrder, TelegramGroupController
<1>4. \A i \in 1..Len(TelegramGroupController) :
        \E verb, n : Sort(TelegramGroupController[i], verb, n, "telegramGroups")
  BY <1>1 DEF TelegramGroupController
<1> QED BY <1>2, <1>3, <1>4, TelegramGroupFit DEF Listed

LEMMA PermissionFit == \A i \in 1..Len(PermissionController) : Fit(PermissionController[i])
<1>1. Open(Permission_checkPermissions)
  BY DEF Open, Permission_checkPermissions
<1>2. Wired(Permission_checkPermissions)
  BY <1>1 DEF Open, Wired
<1>3. Piped(Permission_checkPermissions)
  BY DEF Piped, Plain, Lists, Permission_checkPermissions
<1> QED BY <1>2, <1>3 DEF Fit, PermissionController

LEMMA PermissionListed == Listed(PermissionController, {"permissions"})
<1>1. Sort(Permission_checkPermissions, "POST", 2, "permissions")
  BY DEF Sort, Permission_checkPermissions
<1>2. /\ PermissionController \in Seq(Range(PermissionController))
      /\ {"permissions"} \cap Words = {}
  BY DEF PermissionController, Range, Words, Params, Ids
<1>3. InOrder(PermissionController)
  BY <1>1, TellsApart DEF InOrder, PermissionController
<1>4. \A i \in 1..Len(PermissionController) :
        \E verb, n : Sort(PermissionController[i], verb, n, "permissions")
  BY <1>1 DEF PermissionController
<1> QED BY <1>2, <1>3, <1>4, PermissionFit DEF Listed

LEMMA StudentFit == \A i \in 1..Len(StudentController) : Fit(StudentController[i])
<1>1. AsksNothing(Student_getAll, PERMISSION.STUDENTS_GET)
  BY DEF AsksNothing, Guarding, Lists, Student_getAll
<1>2. Wired(Student_getAll)
  BY <1>1, NothingAsked, OtherPermissions
<1>3. Piped(Student_getAll)
  BY DEF Piped, Plain, Lists, Unlisted, Student_getAll
<1> QED BY <1>2, <1>3 DEF Fit, StudentController

LEMMA StudentListed == Listed(StudentController, {"students"})
<1>1. Sort(Student_getAll, "GET", 1, "students")
  BY DEF Sort, Student_getAll
<1>2. StudentController \in Seq(Range(StudentController)) /\ {"students"} \cap Words = {}
  BY DEF StudentController, Range, Words, Params, Ids
<1>3. InOrder(StudentController)
  BY <1>1, TellsApart DEF InOrder, StudentController
<1>4. \A i \in 1..Len(StudentController) :
        \E verb, n : Sort(StudentController[i], verb, n, "students")
  BY <1>1 DEF StudentController
<1> QED BY <1>2, <1>3, <1>4, StudentFit DEF Listed

LEMMA DateFit == \A i \in 1..Len(DateController) : Fit(DateController[i])
<1>1. /\ Open(Date_getPreviousSemesters) /\ Open(Date_getCurrentSemester)
  BY DEF Open, Date_getPreviousSemesters, Date_getCurrentSemester
<1>2. /\ Wired(Date_getPreviousSemesters) /\ Wired(Date_getCurrentSemester)
  BY <1>1 DEF Open, Wired
<1>3. /\ Piped(Date_getPreviousSemesters) /\ Piped(Date_getCurrentSemester)
  BY DEF Piped, Plain, Lists, Date_getPreviousSemesters, Date_getCurrentSemester
<1> QED BY <1>2, <1>3 DEF Fit, DateController

LEMMA DateListed == Listed(DateController, {"dates"})
<1>1. /\ Sort(Date_getPreviousSemesters, "GET", 2, "dates")
      /\ Sort(Date_getCurrentSemester, "GET", 3, "dates")
  BY DEF Sort, Date_getPreviousSemesters, Date_getCurrentSemester
<1>2. DateController \in Seq(Range(DateController)) /\ {"dates"} \cap Words = {}
  BY DEF DateController, Range, Words, Params, Ids
<1>3. InOrder(DateController)
  BY <1>1, TellsApart DEF InOrder, DateController
<1>4. \A i \in 1..Len(DateController) : \E verb, n : Sort(DateController[i], verb, n, "dates")
  BY <1>1 DEF DateController
<1> QED BY <1>2, <1>3, <1>4, DateFit DEF Listed

HIDE DEF Get, Post, Put, Patch, Delete, Route

\* One controller after another: no two begin with the same word.
LEMMA RoutesListed == \E firsts : Listed(Routes, firsts)
<1> DEFINE r1 == UserController   f1 == {"users"}
           r2 == r1 \o RoleController   f2 == f1 \cup {"roles"}
           r3 == r2 \o GrantController   f3 == f2 \cup {"grants"}
           r4 == r3 \o AuthController   f4 == f3 \cup {"auth"}
           r5 == r4 \o GroupController   f5 == f4 \cup {"groups"}
           r6 == r5 \o TeacherController   f6 == f5 \cup {"teachers"}
           r7 == r6 \o DisciplineTeacherController   f7 == f6 \cup {"disciplineTeachers"}
           r8 == r7 \o SubjectController   f8 == f7 \cup {"subjects"}
           r9 == r8 \o DisciplineController   f9 == f8 \cup {"disciplines"}
           r10 == r9 \o PollController   f10 == f9 \cup {"poll"}
           r11 == r10 \o ScheduleController   f11 == f10 \cup {"schedule"}
           r12 == r11 \o ResourceController   f12 == f11 \cup {"studentResources"}
           r13 == r12 \o CathedraController   f13 == f12 \cup {"cathedras"}
           r14 == r13 \o DocumentController   f14 == f13 \cup {"documents"}
           r15 == r14 \o EntrantController   f15 == f14 \cup {"entrants"}
           r16 == r15 \o AdmissionController   f16 == f15 \cup {"admission"}
           r17 == r16 \o TelegramGroupController   f17 == f16 \cup {"telegramGroups"}
           r18 == r17 \o PermissionController   f18 == f17 \cup {"permissions"}
           r19 == r18 \o StudentController   f19 == f18 \cup {"students"}
           r20 == r19 \o DateController   f20 == f19 \cup {"dates"}
<1>1. Listed(r1, f1)
  BY UserListed
<1> HIDE DEF r1, f1, r2, f2, r3, f3, r4, f4, r5, f5, r6, f6, r7, f7, r8, f8, r9, f9, r10, f10,
            r11, f11, r12, f12, r13, f13, r14, f14, r15, f15, r16, f16, r17, f17, r18, f18,
            r19, f19, r20, f20
<1>2. Listed(r2, f2)
  <2>1. f1 \cap {"roles"} = {}
    BY DEF f1
  <2> QED BY <1>1, <2>1, ListedTogether, RoleListed DEF r2, f2
<1>3. Listed(r3, f3)
  <2>1. f2 \cap {"grants"} = {}
    BY DEF f1, f2
  <2> QED BY <1>2, <2>1, ListedTogether, GrantListed DEF r3, f3
<1>4. Listed(r4, f4)
  <2>1. f3 \cap {"auth"} = {}
    BY DEF f1, f2, f3
  <2> QED BY <1>3, <2>1, ListedTogether, AuthListed DEF r4, f4
<1>5. Listed(r5, f5)
  <2>1. f4 \cap {"groups"} = {}
    BY DEF f1, f2, f3, f4
  <2> QED BY <1>4, <2>1, ListedTogether, GroupListed DEF r5, f5
<1>6. Listed(r6, f6)
  <2>1. f5 \cap {"teachers"} = {}
    BY DEF f1, f2, f3, f4, f5
  <2> QED BY <1>5, <2>1, ListedTogether, TeacherListed DEF r6, f6
<1>7. Listed(r7, f7)
  <2>1. f6 \cap {"disciplineTeachers"} = {}
    BY DEF f1, f2, f3, f4, f5, f6
  <2> QED BY <1>6, <2>1, ListedTogether, DisciplineTeacherListed DEF r7, f7
<1>8. Listed(r8, f8)
  <2>1. f7 \cap {"subjects"} = {}
    BY DEF f1, f2, f3, f4, f5, f6, f7
  <2> QED BY <1>7, <2>1, ListedTogether, SubjectListed DEF r8, f8
<1>9. Listed(r9, f9)
  <2>1. f8 \cap {"disciplines"} = {}
    BY DEF f1, f2, f3, f4, f5, f6, f7, f8
  <2> QED BY <1>8, <2>1, ListedTogether, DisciplineListed DEF r9, f9
<1>10. Listed(r10, f10)
  <2>1. f9 \cap {"poll"} = {}
    BY DEF f1, f2, f3, f4, f5, f6, f7, f8, f9
  <2> QED BY <1>9, <2>1, ListedTogether, PollListed DEF r10, f10
<1>11. Listed(r11, f11)
  <2>1. f10 \cap {"schedule"} = {}
    BY DEF f1, f2, f3, f4, f5, f6, f7, f8, f9, f10
  <2> QED BY <1>10, <2>1, ListedTogether, ScheduleListed DEF r11, f11
<1>12. Listed(r12, f12)
  <2>1. f11 \cap {"studentResources"} = {}
    BY DEF f1, f2, f3, f4, f5, f6, f7, f8, f9, f10, f11
  <2> QED BY <1>11, <2>1, ListedTogether, ResourceListed DEF r12, f12
<1>13. Listed(r13, f13)
  <2>1. f12 \cap {"cathedras"} = {}
    BY DEF f1, f2, f3, f4, f5, f6, f7, f8, f9, f10, f11, f12
  <2> QED BY <1>12, <2>1, ListedTogether, CathedraListed DEF r13, f13
<1>14. Listed(r14, f14)
  <2>1. f13 \cap {"documents"} = {}
    BY DEF f1, f2, f3, f4, f5, f6, f7, f8, f9, f10, f11, f12, f13
  <2> QED BY <1>13, <2>1, ListedTogether, DocumentListed DEF r14, f14
<1>15. Listed(r15, f15)
  <2>1. f14 \cap {"entrants"} = {}
    BY DEF f1, f2, f3, f4, f5, f6, f7, f8, f9, f10, f11, f12, f13, f14
  <2> QED BY <1>14, <2>1, ListedTogether, EntrantListed DEF r15, f15
<1>16. Listed(r16, f16)
  <2>1. f15 \cap {"admission"} = {}
    BY DEF f1, f2, f3, f4, f5, f6, f7, f8, f9, f10, f11, f12, f13, f14, f15
  <2> QED BY <1>15, <2>1, ListedTogether, AdmissionListed DEF r16, f16
<1>17. Listed(r17, f17)
  <2>1. f16 \cap {"telegramGroups"} = {}
    BY DEF f1, f2, f3, f4, f5, f6, f7, f8, f9, f10, f11, f12, f13, f14, f15, f16
  <2> QED BY <1>16, <2>1, ListedTogether, TelegramGroupListed DEF r17, f17
<1>18. Listed(r18, f18)
  <2>1. f17 \cap {"permissions"} = {}
    BY DEF f1, f2, f3, f4, f5, f6, f7, f8, f9, f10, f11, f12, f13, f14, f15, f16, f17
  <2> QED BY <1>17, <2>1, ListedTogether, PermissionListed DEF r18, f18
<1>19. Listed(r19, f19)
  <2>1. f18 \cap {"students"} = {}
    BY DEF f1, f2, f3, f4, f5, f6, f7, f8, f9, f10, f11, f12, f13, f14, f15, f16, f17, f18
  <2> QED BY <1>18, <2>1, ListedTogether, StudentListed DEF r19, f19
<1>20. Listed(r20, f20)
  <2>1. f19 \cap {"dates"} = {}
    BY DEF f1, f2, f3, f4, f5, f6, f7, f8, f9, f10, f11, f12, f13, f14, f15, f16, f17, f18, f19
  <2> QED BY <1>19, <2>1, ListedTogether, DateListed DEF r20, f20
<1> QED BY <1>20 DEF r1, r2, r3, r4, r5, r6, r7, r8, r9, r10, r11, r12, r13, r14, r15, r16, r17,
                   r18, r19, r20, Routes

LEMMA RightRoute ==
  ASSUME NEW e \in EndpointIds, NEW ids, DOMAIN ids \subseteq Params, Range(ids) \subseteq Ids,
         ParamsOf(Routes[e]) \subseteq DOMAIN ids
  PROVE  Dispatch(Routes[e].verb, Filled(Routes[e].path, ids)) = e
<1> DEFINE verb == Routes[e].verb
           path == Filled(Routes[e].path, ids)
<1>1. Len(Routes) \in Nat /\ InOrder(Routes)
  BY RoutesListed DEF Listed
<1>2. Takes(e, verb, path)
  <2>1. ASSUME NEW k \in DOMAIN Routes[e].path
        PROVE  Routes[e].path[k] \in Params \/ Routes[e].path[k] = path[k]
    BY DEF Filled
  <2> QED BY <2>1 DEF Takes, Matches, Filled
<1>3. ASSUME NEW i \in 1..(e - 1) PROVE ~Takes(i, verb, path)
  <2>1. i \in EndpointIds /\ i < e
    BY <1>1 DEF EndpointIds
  <2>2. LetsPass(Routes[i], Routes[e])
    BY <1>1, <2>1 DEF InOrder, EndpointIds
  <2>3. CASE \E k \in DOMAIN Routes[e].path :
               Routes[i].path[k] \notin Words /\ Routes[i].path[k] # Routes[e].path[k]
    <3>1. PICK k \in DOMAIN Routes[e].path :
            Routes[i].path[k] \notin Words /\ Routes[i].path[k] # Routes[e].path[k]
      BY <2>3
    <3>2. path[k] = Routes[e].path[k] \/ path[k] \in Ids
      BY DEF Filled, Range
    <3>3. k \in DOMAIN path /\ path[k] # Routes[i].path[k] /\ Routes[i].path[k] \notin Params
      BY <3>1, <3>2 DEF Words, Filled
    <3> QED BY <3>3 DEF Takes, Matches
  <2>4. CASE Routes[i].verb # Routes[e].verb \/ DOMAIN Routes[i].path # DOMAIN Routes[e].path
    BY <2>4 DEF Takes, Matches, Filled
  <2> QED BY <2>2, <2>3, <2>4 DEF LetsPass
<1> HIDE DEF verb, path
<1> DEFINE First(i) == Takes(i, verb, path) /\ \A j \in 1..(i - 1) : ~Takes(j, verb, path)
<1>4. First(e)
  BY <1>2, <1>3
<1>5. ASSUME NEW i \in EndpointIds, First(i) PROVE i = e
  <2>1. ~(i < e) /\ ~(e < i)
    BY <1>1, <1>4, <1>5 DEF EndpointIds
  <2> QED BY <1>1, <2>1 DEF EndpointIds
<1>6. Dispatch(verb, path) = CHOOSE i \in EndpointIds : First(i)
  BY DEF Dispatch
<1> QED BY <1>4, <1>5, <1>6 DEF verb, path

\* So what reaches the endpoint that changes a grant was meant for it.
LEMMA UpdateIsMeant ==
  ASSUME NEW e \in EndpointIds, NEW ids \in IdsFor(e),
         Routes[Dispatch(Routes[e].verb, Filled(Routes[e].path, ids))] = Role_updateGrant
  PROVE  Routes[e] = Role_updateGrant
<1>1. DOMAIN ids = ParamsOf(Routes[e]) /\ ParamsOf(Routes[e]) \subseteq Params
  BY DEF IdsFor, ParamsOf
<1>2. Range(ids) \subseteq Ids
  BY DEF IdsFor, Ids, Range
<1> QED BY <1>1, <1>2, RightRoute

-----------------------------------------------------------------------------
(* What a permission check answers to user "1" *)

LEMMA Matched ==
  ASSUME NEW q, Len(q) \in Nat
  PROVE  /\ isGrantMatchesPermission(q, <<"users", "1", "*">>) <=>
              Len(q) >= 3 /\ q[1] = "users" /\ q[2] = "1"
         /\ isGrantMatchesPermission(q, <<"groups", "1", "*">>) <=>
              Len(q) >= 3 /\ q[1] = "groups" /\ q[2] = "1"
         /\ isGrantMatchesPermission(q, <<"groups", "1", "admin", "switch">>) <=>
              Len(q) = 4 /\ q[1] = "groups" /\ q[2] = "1" /\ q[3] = "admin" /\ q[4] = "switch"
         /\ isGrantMatchesPermission(q, <<"groups", "1", "students", "get">>) <=>
              Len(q) = 4 /\ q[1] = "groups" /\ q[2] = "1" /\ q[3] = "students" /\ q[4] = "get"
         /\ isGrantMatchesPermission(q, <<"groups", "1", "students", "*">>) <=>
              Len(q) >= 4 /\ q[1] = "groups" /\ q[2] = "1" /\ q[3] = "students"
<1>1. ASSUME NEW a, NEW b, a # "*"
      PROVE  isGrantMatchesPermission(q, <<a, b, "*">>) <=>
               Len(q) >= 3 /\ q[1] = a /\ b \in {"*", q[2]}
  BY <1>1 DEF isGrantMatchesPermission
<1>2. ASSUME NEW a, NEW b, NEW c, NEW d, d # "*"
      PROVE  isGrantMatchesPermission(q, <<a, b, c, d>>) <=>
               /\ Len(q) = 4 /\ a \in {"*", q[1]} /\ b \in {"*", q[2]}
               /\ c \in {"*", q[3]} /\ d = q[4]
  <2> DEFINE g == <<a, b, c, d>>
  <2>1. Len(g) = 4 /\ g[1] = a /\ g[2] = b /\ g[3] = c /\ g[4] = d
    OBVIOUS
  <2> HIDE DEF g
  <2>2. (\A i \in 1..Len(g) : g[i] \in {"*", q[i]}) <=>
          a \in {"*", q[1]} /\ b \in {"*", q[2]} /\ c \in {"*", q[3]} /\ d = q[4]
    BY <1>2, <2>1
  <2>3. ASSUME isGrantMatchesPermission(q, g)
        PROVE  Len(q) = 4 /\ \A i \in 1..Len(g) : g[i] \in {"*", q[i]}
    <3>1. 4 <= Len(q) /\ (4 < Len(q) => d = "*") /\ \A i \in 1..Len(g) : g[i] \in {"*", q[i]}
      BY <2>1, <2>3 DEF isGrantMatchesPermission
    <3>2. 4 <= Len(q) /\ ~(4 < Len(q))
      BY <1>2, <3>1
    <3>3. \A n \in Nat : 4 <= n /\ ~(4 < n) => n = 4
      OBVIOUS
    <3> QED BY <3>1, <3>2, <3>3
  <2>4. ASSUME Len(q) = 4, \A i \in 1..Len(g) : g[i] \in {"*", q[i]}
        PROVE  isGrantMatchesPermission(q, g)
    BY <2>1, <2>4 DEF isGrantMatchesPermission
  <2> QED BY <2>2, <2>3, <2>4 DEF g
<1>3. ASSUME NEW a, NEW b, NEW c
      PROVE  isGrantMatchesPermission(q, <<a, b, c, "*">>) <=>
               Len(q) >= 4 /\ a \in {"*", q[1]} /\ b \in {"*", q[2]} /\ c \in {"*", q[3]}
  BY <1>3 DEF isGrantMatchesPermission
<1>4. "users" # "*" /\ "groups" # "*" /\ "1" # "*" /\ "admin" # "*" /\ "switch" # "*"
      /\ "students" # "*" /\ "get" # "*"
  OBVIOUS
<1> QED BY <1>1, <1>2, <1>3, <1>4

\* Where the grants that decide all say the same, and some do if it is yes.
LEMMA OneAnswer ==
  ASSUME NEW R, NEW q, NEW may \in BOOLEAN,
         \A role \in R : \A g \in Deciding(role, q) : g.set = may,
         may => \E role \in R : Deciding(role, q) # {}
  PROVE  \A has \in Answers(R, q) : has <=> may
<1> DEFINE first == UNION {Deciding(role, q) : role \in R}
<1>1. \A g \in first : g.set = may
  OBVIOUS
<1>2. may => first # {}
  OBVIOUS
<1>3. Answers(R, q) = IF first = {} THEN {FALSE} ELSE {g.set : g \in first}
  BY DEF Answers
<1> HIDE DEF first
<1> SUFFICES ASSUME NEW has \in Answers(R, q) PROVE has = may
  OBVIOUS
<1>4. CASE first = {}
  BY <1>2, <1>3, <1>4
<1>5. CASE first # {}
  BY <1>1, <1>3, <1>5
<1> QED BY <1>4, <1>5

\* Who may what by his role in the group the request has come to name.
May(p, ids) ==
  \/ p[1] = "users" /\ p[2] = "userId" /\ ids["userId"] = "1"
  \/ p[1] = "groups" /\ p[2] = "groupId" /\ ids["groupId"] = "1" /\ MayInGroup(p)

LEMMA InPlace ==
  ASSUME NEW p, NEW words, Asks(p, words), NEW ids, DOMAIN ids \subseteq Params
  PROVE  /\ Len(Filled(p, ids)) = Len(p) /\ Len(p) \in Nat
         /\ \A i \in 1..Len(p) : p[i] \notin Params => Filled(p, ids)[i] = p[i]
         /\ \A i \in 1..Len(p) : p[i] \in DOMAIN ids => Filled(p, ids)[i] = ids[p[i]]
<1>1. DOMAIN p = 1..Len(p) /\ Len(p) \in Nat
  BY DEF Asks
<1>2. Filled(p, ids) = [i \in 1..Len(p) |-> IF p[i] \in DOMAIN ids THEN ids[p[i]] ELSE p[i]]
  BY <1>1 DEF Filled
<1> QED BY <1>1, <1>2

\* The roles of user "1".
Owns == Grant(<<"users", "1", "*">>, TRUE, 1)
Runs == Grant(<<"groups", "1", "*">>, TRUE, 1)
NotSwitch == Grant(<<"groups", "1", "admin", "switch">>, FALSE, 2)
Looks == Grant(<<"groups", "1", "students", "get">>, TRUE, 4)
NotStudents == Grant(<<"groups", "1", "students", "*">>, FALSE, 3)

LEMMA RolesOfOne ==
  ASSUME rank \in {"NONE", "STUDENT", "MODERATOR", "CAPTAIN"}
  PROVE  /\ rank = "NONE" => RolesOf("1") = {{Owns}}
         /\ rank = "CAPTAIN" => RolesOf("1") = {{Owns}, {Runs}}
         /\ rank = "MODERATOR" => RolesOf("1") = {{Owns}, {NotSwitch, Runs}}
         /\ rank = "STUDENT" => RolesOf("1") = {{Owns}, {NotSwitch, Looks, NotStudents, Runs}}
<1>1. UserGrants("1") = {Owns}
  BY DEF UserGrants, Owns
<1>2. /\ ROLE_LIST("1")["CAPTAIN"] = {Runs}
      /\ ROLE_LIST("1")["MODERATOR"] = {NotSwitch, Runs}
      /\ ROLE_LIST("1")["STUDENT"] = {NotSwitch, Looks, NotStudents, Runs}
  BY DEF ROLE_LIST, Runs, NotSwitch, Looks, NotStudents
<1>3. RolesOf("1") = {UserGrants("1")} \cup
        (IF rank = "NONE" THEN {} ELSE {ROLE_LIST("1")[rank]})
  BY DEF RolesOf
<1> QED BY <1>1, <1>2, <1>3

\* Which grants match, and what they say and weigh.
LEMMA MatchedOfOne ==
  ASSUME NEW q, Len(q) \in Nat
  PROVE  /\ isGrantMatchesPermission(q, Owns.permission) <=>
              Len(q) >= 3 /\ q[1] = "users" /\ q[2] = "1"
         /\ isGrantMatchesPermission(q, Runs.permission) <=>
              Len(q) >= 3 /\ q[1] = "groups" /\ q[2] = "1"
         /\ isGrantMatchesPermission(q, NotSwitch.permission) <=>
              Len(q) = 4 /\ q[1] = "groups" /\ q[2] = "1" /\ q[3] = "admin" /\ q[4] = "switch"
         /\ isGrantMatchesPermission(q, Looks.permission) <=>
              Len(q) = 4 /\ q[1] = "groups" /\ q[2] = "1" /\ q[3] = "students" /\ q[4] = "get"
         /\ isGrantMatchesPermission(q, NotStudents.permission) <=>
              Len(q) >= 4 /\ q[1] = "groups" /\ q[2] = "1" /\ q[3] = "students"
  BY Matched DEF Grant, Owns, Runs, NotSwitch, Looks, NotStudents

LEMMA Weights ==
  /\ Owns.set = TRUE /\ Owns.weight = 1
  /\ Runs.set = TRUE /\ Runs.weight = 1
  /\ NotSwitch.set = FALSE /\ NotSwitch.weight = 2
  /\ Looks.set = TRUE /\ Looks.weight = 4
  /\ NotStudents.set = FALSE /\ NotStudents.weight = 3
  BY DEF Grant, Owns, Runs, NotSwitch, Looks, NotStudents

\* Nobody's: no grant matches.
LEMMA AnsweredNobody ==
  ASSUME rank \in {"NONE", "STUDENT", "MODERATOR", "CAPTAIN"}, NEW p, NEW words, OfNobody(p, words),
         NEW ids, DOMAIN ids \subseteq Params, \A w \in DOMAIN ids : ids[w] \in Ids
  PROVE  \A has \in Answers(RolesOf("1"), Filled(p, ids)) : has <=> May(p, ids)
<1> DEFINE q == Filled(p, ids)
<1>1. /\ Len(q) = Len(p) /\ Len(p) \in Nat /\ Len(p) >= 2 /\ q[1] = p[1]
      /\ p[2] \notin Params => q[2] = p[2]
  BY InPlace DEF OfNobody
<1>2. p[1] \notin {"users", "groups"} \/ p[2] \notin Params \cup Ids
  BY DEF OfNobody
<1>3. May(p, ids) = FALSE
  BY <1>2 DEF May, Params
<1>4. q[1] \notin {"users", "groups"} \/ q[2] # "1"
  BY <1>1, <1>2 DEF Ids
<1> HIDE DEF q
<1>5. /\ ~isGrantMatchesPermission(q, Owns.permission)
      /\ ~isGrantMatchesPermission(q, Runs.permission)
      /\ ~isGrantMatchesPermission(q, NotSwitch.permission)
      /\ ~isGrantMatchesPermission(q, Looks.permission)
      /\ ~isGrantMatchesPermission(q, NotStudents.permission)
  BY <1>1, <1>4, MatchedOfOne
<1>6. \A role \in RolesOf("1") : Deciding(role, q) = {}
  BY <1>5, RolesOfOne DEF Deciding
<1>7. \A has \in Answers(RolesOf("1"), q) : has <=> FALSE
  BY <1>6, OneAnswer
<1> QED BY <1>3, <1>7 DEF q

LEMMA AnsweredOwn ==
  ASSUME rank \in {"NONE", "STUDENT", "MODERATOR", "CAPTAIN"}, NEW p, NEW words, Own(p, words),
         NEW ids, DOMAIN ids \subseteq Params, words \subseteq DOMAIN ids
  PROVE  \A has \in Answers(RolesOf("1"), Filled(p, ids)) : has <=> May(p, ids)
<1> DEFINE q == Filled(p, ids)
           may == ids["userId"] = "1"
<1>1. /\ Asks(p, words) /\ Len(p) \in Nat /\ Len(p) >= 3 /\ p[1] = "users" /\ p[2] = "userId"
  BY DEF Own, Asks
<1>2. p[1] \notin Params /\ p[2] \in DOMAIN ids
  BY <1>1 DEF Asks, Params
<1>3. Len(q) = Len(p) /\ q[1] = "users" /\ q[2] = ids["userId"]
  BY <1>1, <1>2, InPlace
<1>4. May(p, ids) <=> may
  BY <1>1 DEF May
<1> HIDE DEF q
<1>5. /\ isGrantMatchesPermission(q, Owns.permission) <=> may
      /\ ~isGrantMatchesPermission(q, Runs.permission)
      /\ ~isGrantMatchesPermission(q, NotSwitch.permission)
      /\ ~isGrantMatchesPermission(q, Looks.permission)
      /\ ~isGrantMatchesPermission(q, NotStudents.permission)
  BY <1>1, <1>3, MatchedOfOne
<1> HIDE DEF may
<1>6. \A role \in RolesOf("1") : \A g \in Deciding(role, q) : g = Owns /\ may
  BY <1>5, RolesOfOne DEF Deciding
<1>7. {Owns} \in RolesOf("1") /\ (may => Owns \in Deciding({Owns}, q))
  BY <1>5, RolesOfOne, Weights DEF Deciding
<1>8. may \in BOOLEAN
  BY DEF may
<1>9. \A has \in Answers(RolesOf("1"), q) : has <=> may
  BY <1>6, <1>7, <1>8, OneAnswer, Weights
<1> QED BY <1>4, <1>9 DEF q

\* The group's: the heaviest of the grants that match is the one that is meant.
LEMMA AnsweredGroup ==
  ASSUME rank \in {"NONE", "STUDENT", "MODERATOR", "CAPTAIN"}, NEW p, NEW words, OfGroup(p, words),
         NEW ids, DOMAIN ids \subseteq Params, words \subseteq DOMAIN ids
  PROVE  \A has \in Answers(RolesOf("1"), Filled(p, ids)) : has <=> May(p, ids)
<1> DEFINE q == Filled(p, ids)
           mine == ids["groupId"] = "1"
           switch == Len(p) = 4 /\ p[3] = "admin" /\ p[4] = "switch"
           look == Len(p) = 4 /\ p[3] = "students" /\ p[4] = "get"
           may == May(p, ids)
<1>1. /\ Asks(p, words) /\ Len(p) \in Nat /\ Len(p) >= 3 /\ p[1] = "groups" /\ p[2] = "groupId"
      /\ \A i \in 3..Len(p) : p[i] \notin Params
      /\ p[3] = "students" => Len(p) >= 4
  BY DEF OfGroup, Asks
<1>2. p[1] \notin Params /\ p[2] \in DOMAIN ids
  BY <1>1 DEF Asks, Params
<1>3. /\ Len(q) = Len(p) /\ q[1] = "groups" /\ q[2] = ids["groupId"] /\ q[3] = p[3]
      /\ Len(p) = 4 => q[4] = p[4]
  BY <1>1, <1>2, InPlace
<1>4. /\ p = PERMISSION.GROUPS_GROUPID_ADMIN_SWITCH <=> switch
      /\ p = PERMISSION.GROUPS_GROUPID_STUDENTS_GET <=> look
  BY DEF OfGroup
<1>5. may <=> mine /\ \/ rank = "CAPTAIN"
                      \/ rank = "MODERATOR" /\ ~switch
                      \/ rank = "STUDENT" /\ ~switch /\ (p[3] = "students" => look)
  BY <1>1, <1>4 DEF May, MayInGroup
<1> HIDE DEF q
<1>6. /\ ~isGrantMatchesPermission(q, Owns.permission)
      /\ isGrantMatchesPermission(q, Runs.permission) <=> mine
      /\ isGrantMatchesPermission(q, NotSwitch.permission) <=> mine /\ switch
      /\ isGrantMatchesPermission(q, Looks.permission) <=> mine /\ look
      /\ isGrantMatchesPermission(q, NotStudents.permission) <=> mine /\ p[3] = "students"
  BY <1>1, <1>3, MatchedOfOne
<1>7. look => p[3] = "students" /\ ~switch
  OBVIOUS
<1>8. may \in BOOLEAN
  BY DEF May
<1> HIDE DEF may, mine, switch, look
<1>9. Deciding({Owns}, q) = {}
  BY <1>6 DEF Deciding
<1>10. CASE rank = "NONE"
  <2>1. RolesOf("1") = {{Owns}} /\ ~may
    BY <1>5, <1>10, RolesOfOne
  <2>2. \A role \in RolesOf("1") : \A g \in Deciding(role, q) : g.set = may
    BY <1>9, <2>1
  <2> QED BY <1>8, <2>1, <2>2, OneAnswer DEF q, may
<1>11. CASE rank = "CAPTAIN"
  <2>1. Deciding({Runs}, q) = IF mine THEN {Runs} ELSE {}
    BY <1>6, Weights DEF Deciding
  <2>2. RolesOf("1") = {{Owns}, {Runs}}
    BY <1>11, RolesOfOne
  <2>3. \A role \in RolesOf("1") : \A g \in Deciding(role, q) : g.set = may
    BY <1>5, <1>8, <1>9, <1>11, <2>1, <2>2, Weights
  <2>4. may => \E role \in RolesOf("1") : Deciding(role, q) # {}
    BY <1>5, <1>11, <2>1, <2>2
  <2> QED BY <1>8, <2>3, <2>4, OneAnswer DEF q, may
<1>12. CASE rank = "MODERATOR"
  <2>1. Deciding({NotSwitch, Runs}, q) =
          IF ~mine THEN {} ELSE IF switch THEN {NotSwitch} ELSE {Runs}
    BY <1>6, Weights DEF Deciding
  <2>2. RolesOf("1") = {{Owns}, {NotSwitch, Runs}}
    BY <1>12, RolesOfOne
  <2>3. \A role \in RolesOf("1") : \A g \in Deciding(role, q) : g.set = may
    BY <1>5, <1>8, <1>9, <1>12, <2>1, <2>2, Weights
  <2>4. may => \E role \in RolesOf("1") : Deciding(role, q) # {}
    BY <1>5, <1>12, <2>1, <2>2
  <2> QED BY <1>8, <2>3, <2>4, OneAnswer DEF q, may
<1>13. CASE rank = "STUDENT"
  <2> DEFINE all == {NotSwitch, Looks, NotStudents, Runs}
  <2>1. Deciding(all, q) =
          IF ~mine THEN {} ELSE IF look THEN {Looks} ELSE IF p[3] = "students" THEN {NotStudents}
          ELSE IF switch THEN {NotSwitch} ELSE {Runs}
    <3>1. switch => p[3] # "students"
      BY DEF switch
    <3> QED BY <1>6, <1>7, <3>1, Weights DEF Deciding
  <2>2. RolesOf("1") = {{Owns}, all}
    BY <1>13, RolesOfOne
  <2>3. \A role \in RolesOf("1") : \A g \in Deciding(role, q) : g.set = may
    BY <1>5, <1>7, <1>8, <1>9, <1>13, <2>1, <2>2, Weights
  <2>4. may => \E role \in RolesOf("1") : Deciding(role, q) # {}
    BY <1>5, <1>13, <2>1, <2>2
  <2> QED BY <1>8, <2>3, <2>4, OneAnswer DEF q, may
<1> QED BY <1>10, <1>11, <1>12, <1>13

LEMMA Answering ==
  ASSUME rank \in {"NONE", "STUDENT", "MODERATOR", "CAPTAIN"}, NEW p, NEW words, Kinds(p, words),
         NEW ids, DOMAIN ids \subseteq Params, words \subseteq DOMAIN ids,
         \A w \in DOMAIN ids : ids[w] \in Ids
  PROVE  \A has \in Answers(RolesOf("1"), Filled(p, ids)) : has <=> May(p, ids)
  BY AnsweredNobody, AnsweredOwn, AnsweredGroup DEF Kinds

-----------------------------------------------------------------------------
(* A request on its way *)

\* It brings all its endpoint looks at, and its guards see as much, or more.
Brings(r) ==
  /\ DOMAIN r.seen \subseteq Params /\ \A p \in DOMAIN r.seen : r.seen[p] \in Ids
  /\ ParamsOf(Routes[r.ep]) \subseteq DOMAIN r.ids /\ DOMAIN r.ids \subseteq DOMAIN r.seen

\* If a guard finds out its group, it has.
Grouped(r) ==
  \A guard \in DOMAIN ThingOf : Routes[r.ep].guards = Access(<<guard>>) =>
    "groupId" \in DOMAIN r.seen /\ r.seen["groupId"] = r.seen[ThingOf[guard]]

\* The first n permissions have been asked for in vain, the others are left.
Asked(r) == [i \in 1..Len(Routes[r.ep].may) |-> Filled(Routes[r.ep].may[i], r.seen)]
Rest(s, len, n) == [i \in 1..(len - n) |-> s[n + i]]
InVain(r, n) ==
  /\ r.left = Rest(Asked(r), Len(Routes[r.ep].may), n)
  /\ r.by = "1" => \A i \in 1..n : ~May(Routes[r.ep].may[i], r.seen)

AtGuards(r) ==
  Routes[r.ep].guards # << >> =>
    /\ r.at \in 1..Len(Routes[r.ep].guards)
    /\ r.at > 1 => r.by \in Users
    /\ r.at = 3 => Grouped(r)
AtCheck(r) ==
  /\ r.by \in Users /\ Grouped(r)
  /\ r.at = Len(Routes[r.ep].guards) /\ "PermissionGuard" \in Range(Routes[r.ep].guards)
  /\ \E n \in 0..Len(Routes[r.ep].may) : InVain(r, n)
LetIn(r) == r.by # "2" => Entitled(Routes[r.ep], r.by, r.seen)
Answered(r) ==
  /\ r.who \in Guards /\ r.by # "2" => ~Entitled(Routes[r.ep], r.by, r.seen)
  /\ r.who \in {"pipes", "handler"} => LetIn(r)
  /\ r.who # "handler" /\ r.status # "401" => Lists(Routes[r.ep], r.status)

\* It has come to the endpoint it was meant for, and nothing lets it go further
\* that does not entitle its sender to.
Way(r) ==
  /\ DOMAIN r = DOMAIN NoRequest
  /\ r.step # "idle" =>
       /\ r.meant \in EndpointIds /\ r.ep = r.meant /\ r.by \in Callers /\ Brings(r)
       /\ r.step = "guards" => AtGuards(r)
       /\ r.step = "check" => AtCheck(r)
       /\ r.step \in {"pipes", "handler", "shift", "raise", "write"} => LetIn(r)
       /\ r.step = "done" => Answered(r)
WayInv == DOMAIN req = Handlers /\ rank \in Ranks /\ \A h \in Handlers : Way(req[h])

-----------------------------------------------------------------------------
(* Steps of a request *)

\* What a step of a request leaves of it.
Goes(h, r) == DOMAIN req = Handlers /\ req' = [req EXCEPT ![h] = r]

LEMMA Others ==
  ASSUME NEW h \in Handlers, NEW r, Goes(h, r)
  PROVE  /\ DOMAIN req' = Handlers /\ req'[h] = r
         /\ \A k \in Handlers : k # h => req'[k] = req[k]
  BY DEF Goes

LEMMA NoRequestShape ==
  /\ DOMAIN NoRequest = {"step", "meant", "ep", "by", "ids", "seen", "at", "left", "body",
                         "todo", "prev", "higher", "status", "who"}
  /\ NoRequest.step = "idle" /\ NoRequest.body = << >>
  BY DEF NoRequest

LEMMA AccessShape ==
  /\ Len(Access(<< >>)) = 2 /\ DOMAIN Access(<< >>) = 1..2
  /\ Access(<< >>)[1] = "JwtGuard" /\ Access(<< >>)[2] = "PermissionGuard"
  /\ \A guard :
       /\ Len(Access(<<guard>>)) = 3 /\ DOMAIN Access(<<guard>>) = 1..3
       /\ Access(<<guard>>)[1] = "JwtGuard" /\ Access(<<guard>>)[2] = guard
       /\ Access(<<guard>>)[3] = "PermissionGuard"
  BY DEF Access

LEMMA Things ==
  /\ DOMAIN ThingOf = {"GroupByDisciplineGuard", "GroupByDisciplineTeacherGuard",
                       "GroupByEventGuard"}
  /\ DOMAIN AbsenceOf = DOMAIN ThingOf
  /\ ThingOf["GroupByDisciplineGuard"] = "disciplineId"
  /\ ThingOf["GroupByDisciplineTeacherGuard"] = "disciplineTeacherId"
  /\ ThingOf["GroupByEventGuard"] = "eventId"
  /\ AbsenceOf["GroupByDisciplineGuard"] = "500"
  /\ AbsenceOf["GroupByDisciplineTeacherGuard"] = "400"
  /\ AbsenceOf["GroupByEventGuard"] = "400"
  BY DEF ThingOf, AbsenceOf

LEMMA EveryRouteFits == \A e \in EndpointIds : Fit(Routes[e])
  BY RoutesListed DEF Listed, EndpointIds

\* Behind which guards a permission is asked for.
Permitted(e) ==
  \/ e.guards = Access(<< >>) /\ Granted(e, ParamsOf(e))
  \/ \E guard \in DOMAIN ThingOf :
       /\ e.guards = Access(<<guard>>) /\ ThingOf[guard] \in ParamsOf(e)
       /\ Granted(e, ParamsOf(e) \cup {"groupId"}) /\ Lists(e, AbsenceOf[guard])

\* What is known of an endpoint by the guard a request for it has come to.
LEMMA WiredByGuard ==
  ASSUME NEW e, Wired(e), e.guards # << >>
  PROVE  /\ Len(e.guards) \in 1..3 /\ DOMAIN e.guards = 1..Len(e.guards)
         /\ "PermissionGuard" \in Range(e.guards) <=> Permitted(e)
         /\ \A i \in 1..Len(e.guards) :
              /\ e.guards[i] = "JwtGuard" =>
                   i = 1 /\ (e.guards = <<"JwtGuard">> \/ Permitted(e))
              /\ e.guards[i] = "TelegramGuard" =>
                   i = 1 /\ e.guards = <<"TelegramGuard">> /\ e.may = << >>
              /\ e.guards[i] = "LocalGuard" =>
                   i = 1 /\ e.guards = <<"LocalGuard">> /\ e.may = << >> /\ Lists(e, "400")
              /\ e.guards[i] = "PermissionGuard" => i = Len(e.guards) /\ Permitted(e)
              /\ e.guards[i] \in DOMAIN ThingOf =>
                   i = 2 /\ Permitted(e) /\ e.guards = Access(<<e.guards[i]>>)
         /\ Permitted(e) => Len(e.guards) \in {2, 3} /\ e.guards[1] = "JwtGuard"
<1>1. CASE e.guards \in {<<"JwtGuard">>, <<"TelegramGuard">>, <<"LocalGuard">>}
  <2>1. /\ Len(e.guards) = 1 /\ DOMAIN e.guards = 1..1
        /\ e.guards[1] \in {"JwtGuard", "TelegramGuard", "LocalGuard"} /\ e.guards = <<e.guards[1]>>
    BY <1>1
  <2>2. e.guards # Access(<< >>) /\ \A guard : e.guards # Access(<<guard>>)
    BY <2>1, AccessShape
  <2>3. e.guards[1] # "JwtGuard" => e.may = << >> /\ (e.guards[1] = "LocalGuard" => Lists(e, "400"))
    <3>1. e.guards[1] = "LocalGuard" => e.guards \notin {<< >>, <<"JwtGuard">>, <<"TelegramGuard">>}
      BY <2>1
    <3>2. e.guards[1] # "JwtGuard" => e.guards # <<"JwtGuard">>
      BY <2>1
    <3>3. e.guards[1] # "LocalGuard" => e.guards # <<"LocalGuard">>
      BY <2>1
    <3> QED BY <3>1, <3>2, <3>3, <2>1, <2>2 DEF Wired
  <2>4. ~Permitted(e)
    BY <2>2 DEF Permitted
  <2> QED BY <2>1, <2>3, <2>4, Things DEF Range
<1>2. CASE e.guards = Access(<< >>) /\ Permitted(e)
  <2>1. /\ Len(e.guards) = 2 /\ DOMAIN e.guards = 1..2
        /\ e.guards[1] = "JwtGuard" /\ e.guards[2] = "PermissionGuard"
    BY <1>2, AccessShape
  <2>2. Range(e.guards) = {"JwtGuard", "PermissionGuard"}
    BY <2>1 DEF Range
  <2>3. \A i \in 1..Len(e.guards) :
          \/ i = 1 /\ e.guards[i] = "JwtGuard"
          \/ i = 2 /\ e.guards[i] = "PermissionGuard"
    BY <2>1
  <2> QED BY <1>2, <2>1, <2>2, <2>3, Things
<1>3. CASE \E guard \in DOMAIN ThingOf : e.guards = Access(<<guard>>) /\ Permitted(e)
  <2>1. PICK guard \in DOMAIN ThingOf : e.guards = Access(<<guard>>) /\ Permitted(e)
    BY <1>3
  <2>2. /\ Len(e.guards) = 3 /\ DOMAIN e.guards = 1..3 /\ e.guards[1] = "JwtGuard"
        /\ e.guards[2] = guard /\ e.guards[3] = "PermissionGuard"
    BY <2>1, AccessShape
  <2>3. Range(e.guards) = {"JwtGuard", guard, "PermissionGuard"}
    BY <2>2 DEF Range
  <2>4. \A i \in 1..Len(e.guards) :
          \/ i = 1 /\ e.guards[i] = "JwtGuard"
          \/ i = 2 /\ e.guards[i] = guard
          \/ i = 3 /\ e.guards[i] = "PermissionGuard"
    BY <2>2
  <2> QED BY <2>1, <2>2, <2>3, <2>4, Things
<1> QED BY <1>1, <1>2, <1>3 DEF Wired, Permitted

LEMMA MeantGroup ==
  ASSUME NEW e, NEW ids
  PROVE  /\ e.guards = Access(<< >>) => GroupMeant(e, ids) = ids["groupId"]
         /\ \A guard \in DOMAIN ThingOf :
              e.guards = Access(<<guard>>) => GroupMeant(e, ids) = ids[ThingOf[guard]]
<1>1. e.guards = Access(<< >>) => Range(e.guards) = {"JwtGuard", "PermissionGuard"}
  BY AccessShape DEF Range
<1>2. \A guard : e.guards = Access(<<guard>>) =>
        Range(e.guards) = {"JwtGuard", guard, "PermissionGuard"}
  BY AccessShape DEF Range
<1> QED BY <1>1, <1>2, Things DEF GroupMeant

\* Behind a permission guard a sender is entitled by a permission or not at all.
LEMMA ByPermission ==
  ASSUME NEW r, Permitted(Routes[r.ep]), Grouped(r)
  PROVE  Entitled(Routes[r.ep], r.by, r.seen) <=>
           r.by = "1" /\ \E i \in 1..Len(Routes[r.ep].may) : May(Routes[r.ep].may[i], r.seen)
<1> DEFINE e == Routes[r.ep]
<1>1. GroupMeant(e, r.seen) = r.seen["groupId"]
  BY MeantGroup DEF Permitted, Grouped
<1>2. Len(e.guards) \in {2, 3}
  BY AccessShape DEF Permitted
<1>3. e.guards # << >> /\ \A guard : e.guards # <<guard>>
  <2>1. Len(<< >>) = 0 /\ \A guard : Len(<<guard>>) = 1
    OBVIOUS
  <2> QED BY <1>2, <2>1
<1> QED BY <1>1, <1>3 DEF Entitled, May

\* The rank changes nothing that is known of a request.
LEMMA WayStays ==
  ASSUME NEW q, Way(q), UNCHANGED rank
  PROVE  Way(q)'
<1>1. \A p : MayInGroup(p)' <=> MayInGroup(p)
  BY DEF MayInGroup
<1>2. \A p, ids : May(p, ids)' <=> May(p, ids)
  BY <1>1 DEF May
<1>3. \A e, by, ids : Entitled(e, by, ids)' <=> Entitled(e, by, ids)
  BY <1>1 DEF Entitled, GroupMeant
<1>4. LetIn(q)' <=> LetIn(q)
  BY <1>3 DEF LetIn
<1>5. Answered(q) => Answered(q)'
  BY <1>3, <1>4 DEF Answered, Lists
<1>6. AtCheck(q) => AtCheck(q)'
  BY <1>2 DEF AtCheck, InVain, Asked, Grouped
<1>7. Brings(q)' <=> Brings(q)
  BY DEF Brings
<1>8. AtGuards(q)' <=> AtGuards(q)
  BY DEF AtGuards, Grouped
<1> QED BY <1>4, <1>5, <1>6, <1>7, <1>8 DEF Way

LEMMA WayGoes ==
  ASSUME WayInv, NEW h \in Handlers, NEW r, Goes(h, r), Way(r), UNCHANGED rank
  PROVE  WayInv'
<1>1. DOMAIN req' = Handlers /\ req'[h] = r /\ \A k \in Handlers \ {h} : req'[k] = req[k]
  BY Others
<1>2. ASSUME NEW k \in Handlers PROVE Way(req[k])'
  <2>1. PICK q : q = req'[k]
    OBVIOUS
  <2>2. Way(q)
    BY <1>1, <2>1 DEF WayInv
  <2>3. Way(q)'
    BY <2>2, WayStays
  <2> QED BY <2>1, <2>3
<1> QED BY <1>1, <1>2 DEF WayInv

LEMMA KnownRank == WayInv => rank \in {"NONE", "STUDENT", "MODERATOR", "CAPTAIN"}
<1>1. DOMAIN ROLE_LIST("1") = {"CAPTAIN", "MODERATOR", "STUDENT"}
  BY DEF ROLE_LIST
<1> QED BY <1>1, AccessAssumption DEF WayInv

\* What is known of a request that has been sent.
LEMMA SentWay ==
  ASSUME WayInv, NEW h \in Handlers, req[h].step # "idle"
  PROVE  /\ DOMAIN req = Handlers /\ DOMAIN req[h] = DOMAIN NoRequest
         /\ {"step", "meant", "ep", "by", "ids", "seen", "at", "left", "todo", "prev",
             "higher", "status", "who"} \subseteq DOMAIN req[h]
         /\ req[h].meant \in EndpointIds /\ req[h].ep = req[h].meant /\ req[h].by \in Callers
         /\ Brings(req[h]) /\ Wired(Endpoint(h)) /\ Piped(Endpoint(h))
<1>1. Way(req[h]) /\ DOMAIN req = Handlers
  BY DEF WayInv
<1>2. req[h].meant \in EndpointIds /\ req[h].ep = req[h].meant
  BY <1>1 DEF Way
<1>3. Fit(Endpoint(h))
  BY <1>2, EveryRouteFits DEF Endpoint
<1> QED BY <1>1, <1>2, <1>3, NoRequestShape DEF Way, Fit

\* What a request is entitled to, is asked for and belongs to is up to these.
LEMMA Alike ==
  ASSUME NEW q, NEW r, r.ep = q.ep, r.by = q.by, r.ids = q.ids, r.seen = q.seen
  PROVE  /\ Brings(r) <=> Brings(q)
         /\ Grouped(r) <=> Grouped(q)
         /\ LetIn(r) <=> LetIn(q)
         /\ Asked(r) = Asked(q)
<1>1. Asked(r) = Asked(q)
  BY DEF Asked
<1> QED BY <1>1 DEF Brings, Grouped, LetIn

LEMMA AnswerWay ==
  ASSUME WayInv, NEW h \in Handlers, req[h].step # "idle", NEW status, NEW who,
         Answer(h, status, who), UNCHANGED rank,
         who \in Guards /\ req[h].by # "2" => ~Entitled(Endpoint(h), req[h].by, req[h].seen),
         who \in {"pipes", "handler"} => LetIn(req[h]),
         who # "handler" /\ status # "401" => Lists(Endpoint(h), status)
  PROVE  WayInv'
<1> DEFINE r == [req[h] EXCEPT !.step = "done", !.status = status, !.who = who]
<1>1. Goes(h, r)
  BY DEF Goes, Answer, Step, WayInv
<1>2. /\ r.step = "done" /\ r.status = status /\ r.who = who /\ DOMAIN r = DOMAIN req[h]
      /\ r.meant = req[h].meant /\ r.ep = req[h].ep /\ r.by = req[h].by
      /\ r.ids = req[h].ids /\ r.seen = req[h].seen
  BY SentWay
<1> HIDE DEF r
<1>3. Brings(r) /\ (LetIn(r) <=> LetIn(req[h]))
  BY <1>2, SentWay, Alike
<1>4. Answered(r)
  BY <1>2, <1>3 DEF Answered, Endpoint
<1>5. Way(r)
  BY <1>2, <1>3, <1>4, SentWay DEF Way
<1> QED BY <1>1, <1>5, WayGoes

LEMMA PassedWay ==
  ASSUME WayInv, NEW h \in Handlers, req[h].step # "idle", NEW q, Passed(h, q), UNCHANGED rank,
         DOMAIN q = DOMAIN req[h], q.meant = req[h].meant, q.ep = req[h].ep, q.by = req[h].by,
         Brings(q), q.at \in 1..Len(Endpoint(h).guards), Len(Endpoint(h).guards) \in Nat,
         q.at < Len(Endpoint(h).guards) => q.by \in Users /\ (q.at + 1 = 3 => Grouped(q)),
         q.at = Len(Endpoint(h).guards) => LetIn(q)
  PROVE  WayInv'
<1> DEFINE r == [q EXCEPT !.at = q.at + 1,
                   !.step = IF q.at < Len(Endpoint(h).guards) THEN "guards" ELSE "pipes"]
<1>1. Goes(h, r)
  BY DEF Goes, Passed, Step, WayInv
<1>2. /\ r.step = (IF q.at < Len(Endpoint(h).guards) THEN "guards" ELSE "pipes")
      /\ r.at = q.at + 1 /\ DOMAIN r = DOMAIN q
      /\ r.meant = q.meant /\ r.ep = q.ep /\ r.by = q.by
      /\ r.ids = q.ids /\ r.seen = q.seen
  BY SentWay
<1> HIDE DEF r
<1>3. /\ Brings(r) /\ (LetIn(r) <=> LetIn(q)) /\ (Grouped(r) <=> Grouped(q))
  BY <1>2, Alike
<1>4. CASE q.at < Len(Endpoint(h).guards)
  <2>1. r.step = "guards" /\ r.at \in 1..Len(Endpoint(h).guards)
    BY <1>2, <1>4
  <2>2. AtGuards(r)
    BY <1>2, <1>3, <1>4, <2>1 DEF AtGuards, Endpoint
  <2>3. Way(r)
    BY <1>2, <1>3, <2>1, <2>2, SentWay DEF Way
  <2> QED BY <1>1, <2>3, WayGoes
<1>5. CASE q.at = Len(Endpoint(h).guards)
  <2>1. r.step = "pipes" /\ LetIn(r)
    BY <1>2, <1>3, <1>5
  <2>2. Way(r)
    BY <1>2, <1>3, <2>1, SentWay DEF Way
  <2> QED BY <1>1, <2>2, WayGoes
<1> QED BY <1>4, <1>5

\* A step that leaves alone what is known of a request.
LEMMA OnWay ==
  ASSUME WayInv, NEW h \in Handlers, req[h].step # "idle", NEW r, Goes(h, r), UNCHANGED rank,
         r.step \in {"handler", "shift", "raise", "write"},
         DOMAIN r = DOMAIN req[h], r.meant = req[h].meant, r.ep = req[h].ep, r.by = req[h].by,
         r.ids = req[h].ids /\ r.seen = req[h].seen, LetIn(req[h])
  PROVE  WayInv'
<1>1. Brings(r) /\ LetIn(r)
  BY SentWay, Alike
<1>2. Way(r)
  BY <1>1, SentWay DEF Way
<1> QED BY <1>2, WayGoes

LEMMA SendWay ==
  ASSUME WayInv, NEW h \in Handlers, NEW e \in EndpointIds, NEW by \in Senders(e),
         NEW ids \in IdsFor(e), NEW query \in QueriesFor(e), NEW body,
         Send(h, e, by, ids, query, body)
  PROVE  WayInv'
<1> DEFINE r == [NoRequest EXCEPT
          !.step = "guards", !.meant = e, !.by = by, !.ids = ids, !.body = body,
          !.seen = get(query, ids),
          !.ep = Dispatch(Routes[e].verb, Filled(Routes[e].path, ids))]
<1>1. Goes(h, r) /\ UNCHANGED rank
  BY DEF Send, Goes, Step, WayInv
<1>2. /\ DOMAIN ids = ParamsOf(Routes[e]) /\ ParamsOf(Routes[e]) \subseteq Params
      /\ \A p \in DOMAIN ids : ids[p] \in Ids
  BY DEF IdsFor, ParamsOf, Ids
<1>3. Dispatch(Routes[e].verb, Filled(Routes[e].path, ids)) = e
  BY <1>2, RightRoute DEF Range
<1>4. /\ DOMAIN r = DOMAIN NoRequest /\ r.step = "guards" /\ r.meant = e /\ r.ep = e
      /\ r.by = by /\ r.ids = ids /\ r.seen = get(query, ids) /\ r.at = 1
  BY <1>3, NoRequestShape DEF NoRequest
<1> HIDE DEF r
<1>5. by \in Callers
  BY DEF Senders, Callers, Users
<1>10. DOMAIN query \subseteq Params /\ \A p \in DOMAIN query : query[p] \in Ids
  BY DEF QueriesFor, LookedUp
<1>11. /\ DOMAIN r.seen = DOMAIN query \cup DOMAIN ids
       /\ \A p \in DOMAIN query : r.seen[p] = query[p]
       /\ \A p \in DOMAIN ids \ DOMAIN query : r.seen[p] = ids[p]
  BY <1>4 DEF get
<1>12. \A p \in DOMAIN r.seen : r.seen[p] \in Ids
  BY <1>2, <1>10, <1>11
<1>6. Brings(r)
  BY <1>2, <1>4, <1>10, <1>11, <1>12 DEF Brings
<1>7. Wired(Routes[e])
  BY EveryRouteFits DEF Fit
<1>8. AtGuards(r)
  BY <1>4, <1>7, WiredByGuard DEF AtGuards
<1>9. Way(r)
  BY <1>4, <1>5, <1>6, <1>8 DEF Way
<1> QED BY <1>1, <1>9, WayGoes

-----------------------------------------------------------------------------
(* At the guards *)

\* At a guard: which it is, and where it stands.
LEMMA AtGuard ==
  ASSUME WayInv, NEW h \in Handlers, NEW guard, Guarded(h, guard)
  PROVE  /\ req[h].step # "idle" /\ Endpoint(h).guards # << >>
         /\ Len(Endpoint(h).guards) \in 1..3
         /\ req[h].at \in 1..Len(Endpoint(h).guards) /\ Endpoint(h).guards[req[h].at] = guard
         /\ req[h].at > 1 => req[h].by \in Users
         /\ req[h].at = 3 => Grouped(req[h])
         /\ Wired(Endpoint(h))
<1>1. req[h].step = "guards" /\ Endpoint(h).guards # << >> /\ Endpoint(h).guards[req[h].at] = guard
  BY DEF Guarded
<1>2. Wired(Endpoint(h)) /\ AtGuards(req[h])
  BY <1>1, SentWay DEF WayInv, Way
<1> QED BY <1>1, <1>2, WiredByGuard DEF AtGuards, Endpoint

LEMMA NoGuardsWay ==
  ASSUME WayInv, NEW h \in Handlers, NoGuards(h) PROVE WayInv'
<1> DEFINE r == [req[h] EXCEPT !.step = "pipes"]
<1>1. req[h].step = "guards" /\ Endpoint(h).guards = << >> /\ UNCHANGED rank
  BY DEF NoGuards
<1>2. Goes(h, r)
  BY DEF NoGuards, Step, Goes, WayInv
<1>3. /\ r.step = "pipes" /\ DOMAIN r = DOMAIN req[h] /\ r.meant = req[h].meant
      /\ r.ep = req[h].ep /\ r.by = req[h].by
      /\ r.ids = req[h].ids /\ r.seen = req[h].seen
  BY <1>1, SentWay
<1> HIDE DEF r
<1>4. LetIn(r)
  BY <1>1, <1>3 DEF LetIn, Entitled, Endpoint
<1>5. Brings(r)
  BY <1>1, <1>3, SentWay, Alike
<1>6. Way(r)
  BY <1>1, <1>3, <1>4, <1>5, SentWay DEF Way
<1> QED BY <1>1, <1>2, <1>6, WayGoes

\* A session, the bot's key or a password alone entitles to what asks for no more.
LEMMA JwtGuardWay ==
  ASSUME WayInv, NEW h \in Handlers, JwtGuard(h) PROVE WayInv'
<1>1. Guarded(h, "JwtGuard") /\ UNCHANGED rank
  BY DEF JwtGuard
<1>2. /\ req[h].step # "idle" /\ Endpoint(h).guards # << >> /\ Wired(Endpoint(h))
      /\ Len(Endpoint(h).guards) \in 1..3 /\ req[h].at \in 1..Len(Endpoint(h).guards)
      /\ Endpoint(h).guards[req[h].at] = "JwtGuard"
  BY <1>1, AtGuard
<1>3. req[h].at = 1
  BY <1>2, WiredByGuard
<1>4. Endpoint(h).guards = <<"JwtGuard">> \/ Permitted(Endpoint(h))
  BY <1>2, WiredByGuard
<1>5. Permitted(Endpoint(h)) => Len(Endpoint(h).guards) \in {2, 3}
  BY <1>2, WiredByGuard
<1>6. CASE req[h].by \in Users
  <2>1. Passed(h, req[h])
    BY <1>6 DEF JwtGuard
  <2>2. LetIn(req[h]) \/ Len(Endpoint(h).guards) # 1
    <3>1. CASE Endpoint(h).guards = <<"JwtGuard">>
      BY <3>1, <1>6 DEF LetIn, Entitled, Endpoint
    <3>2. CASE Len(Endpoint(h).guards) \in {2, 3}
      BY <3>2
    <3> QED BY <1>4, <1>5, <3>1, <3>2
  <2>3. Len(Endpoint(h).guards) \in Nat /\ Brings(req[h])
    BY <1>2, SentWay
  <2>4. req[h].at + 1 # 3
    BY <1>3
  <2>5. req[h].at = Len(Endpoint(h).guards) => LetIn(req[h])
    BY <1>3, <2>2
  <2> QED BY <1>1, <1>2, <1>6, <2>1, <2>3, <2>4, <2>5, PassedWay
<1>7. CASE req[h].by \notin Users
  <2>1. Answer(h, "401", "JwtGuard")
    BY <1>7 DEF JwtGuard
  <2>2. Endpoint(h).guards # <<"TelegramGuard">>
    BY <1>2, <1>3
  <2>3. ~Entitled(Endpoint(h), req[h].by, req[h].seen)
    BY <1>2, <1>7, <2>2 DEF Entitled, Users
  <2> QED BY <1>1, <1>2, <2>1, <2>3, AnswerWay DEF Guards
<1> QED BY <1>6, <1>7

LEMMA TelegramGuardWay ==
  ASSUME WayInv, NEW h \in Handlers, TelegramGuard(h) PROVE WayInv'
<1>1. Guarded(h, "TelegramGuard") /\ UNCHANGED rank
  BY DEF TelegramGuard
<1>2. /\ req[h].at = 1 /\ req[h].step # "idle" /\ Endpoint(h).guards = <<"TelegramGuard">>
      /\ Endpoint(h).may = << >> /\ Len(Endpoint(h).guards) = 1
  <2>1. /\ req[h].step # "idle" /\ Endpoint(h).guards # << >> /\ Wired(Endpoint(h))
        /\ req[h].at \in 1..Len(Endpoint(h).guards)
        /\ Endpoint(h).guards[req[h].at] = "TelegramGuard"
    BY <1>1, AtGuard
  <2>2. Len(<<"TelegramGuard">>) = 1
    OBVIOUS
  <2> QED BY <2>1, <2>2, WiredByGuard
<1>3. CASE req[h].by = "bot"
  <2>1. Passed(h, req[h])
    BY <1>3 DEF TelegramGuard
  <2>2. LetIn(req[h])
    BY <1>2, <1>3 DEF LetIn, Entitled, Endpoint
  <2>3. /\ req[h].at \in 1..Len(Endpoint(h).guards) /\ Len(Endpoint(h).guards) \in Nat
        /\ ~(req[h].at < Len(Endpoint(h).guards)) /\ Brings(req[h])
    BY <1>2, SentWay
  <2> QED BY <1>1, <1>2, <2>1, <2>2, <2>3, PassedWay
<1>4. CASE req[h].by # "bot"
  <2>1. Answer(h, "401", "TelegramGuard")
    BY <1>4 DEF TelegramGuard
  <2>2. ~Entitled(Endpoint(h), req[h].by, req[h].seen)
    BY <1>2, <1>4 DEF Entitled
  <2> QED BY <1>1, <1>2, <2>1, <2>2, AnswerWay DEF Guards
<1> QED BY <1>3, <1>4

LEMMA LocalGuardWay ==
  ASSUME WayInv, NEW h \in Handlers, LocalGuard(h) PROVE WayInv'
<1>1. Guarded(h, "LocalGuard") /\ UNCHANGED rank
  BY DEF LocalGuard
<1>2. /\ req[h].at = 1 /\ req[h].step # "idle" /\ Endpoint(h).guards = <<"LocalGuard">>
      /\ Endpoint(h).may = << >> /\ Len(Endpoint(h).guards) = 1 /\ Lists(Endpoint(h), "400")
  <2>1. /\ req[h].step # "idle" /\ Endpoint(h).guards # << >> /\ Wired(Endpoint(h))
        /\ req[h].at \in 1..Len(Endpoint(h).guards) /\ Endpoint(h).guards[req[h].at] = "LocalGuard"
    BY <1>1, AtGuard
  <2>2. Len(<<"LocalGuard">>) = 1
    OBVIOUS
  <2> QED BY <2>1, <2>2, WiredByGuard
<1>3. CASE req[h].by \in Users
  <2>1. Passed(h, req[h])
    BY <1>3 DEF LocalGuard
  <2>2. LetIn(req[h])
    BY <1>2, <1>3 DEF LetIn, Entitled, Endpoint
  <2>3. /\ req[h].at \in 1..Len(Endpoint(h).guards) /\ Len(Endpoint(h).guards) \in Nat
        /\ ~(req[h].at < Len(Endpoint(h).guards)) /\ Brings(req[h])
    BY <1>2, SentWay
  <2> QED BY <1>1, <1>2, <2>1, <2>2, <2>3, PassedWay
<1>4. CASE req[h].by \notin Users
  <2>1. PICK status \in {"400", "401"} : Answer(h, status, "LocalGuard")
    BY <1>4 DEF LocalGuard
  <2>2. ~Entitled(Endpoint(h), req[h].by, req[h].seen)
    BY <1>2, <1>4 DEF Entitled
  <2> QED BY <1>1, <1>2, <2>1, <2>2, AnswerWay DEF Guards
<1> QED BY <1>3, <1>4

\* The group's guard fills in the group of the thing the path names.
LEMMA GroupOfWay ==
  ASSUME WayInv, NEW h \in Handlers, NEW guard \in DOMAIN ThingOf,
         GroupOf(h, guard, AbsenceOf[guard])
  PROVE  WayInv'
<1> DEFINE param == ThingOf[guard]
           found == [groupId |-> req[h].seen[param]]
           q == [req[h] EXCEPT !.seen = get(found, @)]
<1>1. Guarded(h, guard) /\ UNCHANGED rank
  BY DEF GroupOf
<1>2. /\ req[h].at = 2 /\ req[h].step # "idle" /\ Permitted(Endpoint(h))
      /\ Endpoint(h).guards = Access(<<guard>>)
  BY <1>1, AtGuard, WiredByGuard
<1>3. Len(Endpoint(h).guards) = 3 /\ req[h].by \in Users
  BY <1>1, <1>2, AtGuard, AccessShape
<1>4. \A other \in DOMAIN ThingOf : Endpoint(h).guards = Access(<<other>>) => other = guard
  BY <1>2, AccessShape
<1>5. param \in ParamsOf(Endpoint(h)) /\ Lists(Endpoint(h), AbsenceOf[guard])
  <2>1. Endpoint(h).guards # Access(<< >>)
    BY <1>3, AccessShape
  <2> QED BY <1>2, <1>4, <2>1 DEF Permitted
<1>6. param \in DOMAIN req[h].seen /\ param # "groupId"
  BY <1>2, <1>5, Things, SentWay DEF Brings, Endpoint
<1>7. CASE req[h].seen[param] = "0"
  <2>1. Answer(h, AbsenceOf[guard], guard)
    BY <1>7 DEF GroupOf
  <2>2. guard \notin Guards \cup {"pipes", "handler"}
    BY Things DEF Guards
  <2> QED BY <1>1, <1>2, <1>5, <2>1, <2>2, AnswerWay
<1>8. CASE req[h].seen[param] # "0"
  <2>1. Passed(h, q)
    BY <1>8 DEF GroupOf
  <2>2. /\ DOMAIN q = DOMAIN req[h] /\ q.meant = req[h].meant /\ q.ep = req[h].ep
        /\ q.by = req[h].by /\ q.at = req[h].at
        /\ q.ids = req[h].ids /\ q.seen = get(found, req[h].seen)
    BY <1>2, SentWay
  <2> HIDE DEF q
  <2>3. "groupId" \in Params
    BY DEF Params
  <2>6. /\ DOMAIN q.seen = DOMAIN req[h].seen \cup {"groupId"}
        /\ q.seen["groupId"] = req[h].seen[param]
        /\ \A p \in DOMAIN req[h].seen : p # "groupId" => q.seen[p] = req[h].seen[p]
    <3>1. DOMAIN found = {"groupId"} /\ found["groupId"] = req[h].seen[param]
      OBVIOUS
    <3> HIDE DEF found
    <3>2. /\ DOMAIN get(found, req[h].seen) = DOMAIN found \cup DOMAIN req[h].seen
          /\ \A p \in DOMAIN found : get(found, req[h].seen)[p] = found[p]
          /\ \A p \in DOMAIN req[h].seen \ DOMAIN found :
               get(found, req[h].seen)[p] = req[h].seen[p]
      BY DEF get
    <3> QED BY <2>2, <3>1, <3>2
  <2>4. Brings(q)
    BY <1>2, <1>6, <2>2, <2>3, <2>6, SentWay DEF Brings
  <2>5. Grouped(q)
    BY <1>4, <1>6, <2>2, <2>6 DEF Grouped, Endpoint
  <2> HIDE DEF param
  <2> QED BY <1>1, <1>2, <1>3, <2>1, <2>2, <2>4, <2>5, PassedWay
<1> QED BY <1>7, <1>8

LEMMA GroupGuardsWay ==
  ASSUME WayInv, NEW h \in Handlers,
         GroupByDisciplineGuard(h) \/ GroupByDisciplineTeacherGuard(h) \/ GroupByEventGuard(h)
  PROVE  WayInv'
<1>1. \E guard \in DOMAIN ThingOf : GroupOf(h, guard, AbsenceOf[guard])
  BY Things DEF GroupByDisciplineGuard, GroupByDisciplineTeacherGuard, GroupByEventGuard
<1> QED BY <1>1, GroupOfWay

LEMMA FromHere ==
  ASSUME NEW f, NEW len \in Nat, NEW n \in 0..len
  PROVE  /\ Rest(f, len, n) = << >> <=> n = len
         /\ n # len => /\ Head(Rest(f, len, n)) = f[n + 1]
                       /\ Tail(Rest(f, len, n)) = Rest(f, len, n + 1)
<1> DEFINE s == Rest(f, len, n)
<1>1. s = [i \in 1..(len - n) |-> f[n + i]]
  BY DEF Rest
<1> HIDE DEF s
<1>2. len - n \in Nat /\ Len(s) = len - n /\ DOMAIN s = 1..(len - n)
  BY <1>1
<1>3. s = << >> <=> n = len
  BY <1>2
<1>4. ASSUME n # len
      PROVE  /\ Head(s) = f[n + 1]
             /\ Tail(s) = Rest(f, len, n + 1)
  <2>1. 1 \in 1..(len - n) /\ Head(s) = s[1]
    BY <1>1, <1>2, <1>4
  <2>2. Tail(s) = [i \in 1..(Len(s) - 1) |-> s[i + 1]]
    BY <1>1, <1>2, <1>4
  <2>3. (len - n) - 1 = len - (n + 1)
    OBVIOUS
  <2>4. \A i \in 1..(len - (n + 1)) : s[i + 1] = f[(n + 1) + i]
    BY <1>1
  <2> QED BY <1>1, <1>2, <2>1, <2>2, <2>3, <2>4 DEF Rest
<1> QED BY <1>3, <1>4 DEF s

\* A permission asks for what the request has brought by then.
LEMMA AskedFor ==
  ASSUME WayInv, NEW h \in Handlers, req[h].step # "idle",
         Permitted(Endpoint(h)), Grouped(req[h])
  PROVE  \E words : words \subseteq DOMAIN req[h].seen /\ Granted(Endpoint(h), words)
<1>1. ParamsOf(Endpoint(h)) \subseteq DOMAIN req[h].seen
  BY SentWay DEF Brings, Endpoint
<1>2. CASE Granted(Endpoint(h), ParamsOf(Endpoint(h)))
  BY <1>1, <1>2
<1>3. CASE \E guard \in DOMAIN ThingOf :
             /\ Endpoint(h).guards = Access(<<guard>>)
             /\ Granted(Endpoint(h), ParamsOf(Endpoint(h)) \cup {"groupId"})
  <2>1. "groupId" \in DOMAIN req[h].seen
    BY <1>3 DEF Grouped, Endpoint
  <2> QED BY <1>1, <1>3, <2>1
<1> QED BY <1>2, <1>3 DEF Permitted

LEMMA NotGrouped ==
  ASSUME NEW r, Len(Routes[r.ep].guards) # 3
  PROVE  Grouped(r)
  BY AccessShape DEF Grouped

LEMMA getPermissionsWay ==
  ASSUME WayInv, NEW h \in Handlers, getPermissions(h) PROVE WayInv'
<1> DEFINE may == Endpoint(h).may
           asked == (UNION {Range(may[i]) : i \in 1..Len(may)}) \cap Params
           left == [i \in 1..Len(may) |-> Filled(may[i], req[h].seen)]
           r == [req[h] EXCEPT !.step = "check", !.left = left]
<1>1. Guarded(h, "PermissionGuard") /\ UNCHANGED rank
  BY DEF getPermissions
<1>2. /\ req[h].step # "idle" /\ Endpoint(h).guards # << >> /\ Wired(Endpoint(h))
      /\ Len(Endpoint(h).guards) \in 1..3 /\ req[h].at \in 1..Len(Endpoint(h).guards)
      /\ Endpoint(h).guards[req[h].at] = "PermissionGuard"
      /\ req[h].at > 1 => req[h].by \in Users
      /\ req[h].at = 3 => Grouped(req[h])
  BY <1>1, AtGuard
<1>3. Permitted(Endpoint(h)) /\ req[h].at = Len(Endpoint(h).guards)
  BY <1>2, WiredByGuard
<1>4. "PermissionGuard" \in Range(Endpoint(h).guards) /\ Len(Endpoint(h).guards) \in {2, 3}
  BY <1>2, <1>3, WiredByGuard
<1>5. req[h].by \in Users /\ Grouped(req[h])
  <2>1. CASE Len(Endpoint(h).guards) = 3
    BY <1>2, <1>3, <2>1
  <2>2. CASE Len(Endpoint(h).guards) = 2
    <3>1. req[h].at = 2 /\ Len(Endpoint(h).guards) # 3
      BY <1>3, <2>2
    <3> QED BY <1>2, <3>1, NotGrouped DEF Endpoint
  <2> QED BY <1>4, <2>1, <2>2
<1>6. PICK words : words \subseteq DOMAIN req[h].seen /\ Granted(Endpoint(h), words)
  BY <1>2, <1>3, <1>5, AskedFor
<1>7. asked \subseteq DOMAIN req[h].seen
  <2>1. ASSUME NEW i \in 1..Len(may), NEW word \in Range(may[i]) \cap Params
        PROVE  word \in words
    <3>1. Kinds(may[i], words)
      BY <1>6 DEF Granted
    <3>2. Asks(may[i], words)
      BY <3>1 DEF Kinds, Own, OfGroup, OfNobody
    <3> QED BY <3>2 DEF Asks, Range
  <2>2. ASSUME NEW word \in asked
        PROVE  \E i \in 1..Len(may) : word \in Range(may[i]) \cap Params
    <3>1. PICK S \in {Range(may[i]) : i \in 1..Len(may)} : word \in S
      BY <2>2
    <3>2. PICK i \in 1..Len(may) : S = Range(may[i])
      BY <3>1
    <3>3. word \in Params
      BY <2>2
    <3> QED BY <3>1, <3>2, <3>3
  <2>3. asked \subseteq words
    BY <2>1, <2>2
  <2> HIDE DEF asked
  <2> QED BY <1>6, <2>3
<1>8. Step(h, r)
  BY <1>7 DEF getPermissions
<1>9. Goes(h, r)
  BY <1>8 DEF Step, Goes, WayInv
<1>10. /\ r.step = "check" /\ DOMAIN r = DOMAIN req[h] /\ r.meant = req[h].meant
       /\ r.ep = req[h].ep /\ r.by = req[h].by
       /\ r.ids = req[h].ids /\ r.seen = req[h].seen /\ r.at = req[h].at
       /\ r.left = left
  BY <1>2, SentWay
<1> HIDE DEF r
<1>11. Brings(r) /\ Grouped(r)
  BY <1>2, <1>5, <1>10, SentWay, Alike
<1>12. Len(may) \in Nat
  BY <1>6 DEF Granted
<1>13. InVain(r, 0)
  <2>1. Asked(r) = left
    BY <1>10 DEF Asked, Endpoint
  <2>2. left = Rest(left, Len(may), 0)
    BY <1>12 DEF Rest
  <2> HIDE DEF left
  <2> QED BY <1>10, <2>1, <2>2 DEF InVain, Endpoint
<1>14. AtCheck(r)
  BY <1>3, <1>4, <1>5, <1>10, <1>11, <1>12, <1>13 DEF AtCheck, Endpoint
<1>15. Way(r)
  BY <1>2, <1>10, <1>11, <1>14, SentWay DEF Way
<1> QED BY <1>1, <1>9, <1>15, WayGoes

\* The permission that is granted is one that entitles, and those that were not do not.
LEMMA PermissionGuardWay ==
  ASSUME WayInv, NEW h \in Handlers, PermissionGuard(h) PROVE WayInv'
<1> DEFINE may == Endpoint(h).may
<1>1. req[h].step = "check" /\ req[h].step # "idle" /\ UNCHANGED rank
  BY DEF PermissionGuard
<1>2. AtCheck(req[h]) /\ Wired(Endpoint(h))
  BY <1>1, SentWay DEF WayInv, Way
<1>3. /\ req[h].by \in Users /\ Grouped(req[h]) /\ req[h].at = Len(Endpoint(h).guards)
      /\ "PermissionGuard" \in Range(Endpoint(h).guards)
  BY <1>2 DEF AtCheck, Endpoint
<1>4. PICK n \in 0..Len(may) : InVain(req[h], n)
  BY <1>2 DEF AtCheck, Endpoint
<1>5. Endpoint(h).guards # << >>
  <2>1. \E i \in DOMAIN Endpoint(h).guards : Endpoint(h).guards[i] = "PermissionGuard"
    BY <1>3 DEF Range
  <2> QED BY <2>1
<1>6. Permitted(Endpoint(h)) /\ Len(Endpoint(h).guards) \in 1..3
  BY <1>2, <1>3, <1>5, WiredByGuard
<1>7. PICK words : words \subseteq DOMAIN req[h].seen /\ Granted(Endpoint(h), words)
  BY <1>1, <1>3, <1>6, AskedFor
<1>8. Len(may) \in Nat /\ Lists(Endpoint(h), "403") /\ \A i \in 1..Len(may) : Kinds(may[i], words)
  BY <1>7 DEF Granted
<1>9. /\ req[h].left = Rest(Asked(req[h]), Len(may), n)
      /\ req[h].by = "1" => \A i \in 1..n : ~May(may[i], req[h].seen)
  BY <1>4 DEF InVain, Endpoint
<1>10. /\ req[h].left = << >> <=> n = Len(may)
       /\ n # Len(may) =>
            /\ Head(req[h].left) = Asked(req[h])[n + 1]
            /\ Tail(req[h].left) = Rest(Asked(req[h]), Len(may), n + 1)
  <2> DEFINE s == Asked(req[h])
             len == Len(may)
  <2>1. len \in Nat /\ n \in 0..len
    BY <1>4, <1>8
  <2> HIDE DEF s, len
  <2>2. /\ Rest(s, len, n) = << >> <=> n = len
        /\ n # len => /\ Head(Rest(s, len, n)) = s[n + 1]
                      /\ Tail(Rest(s, len, n)) = Rest(s, len, n + 1)
    BY <2>1, FromHere
  <2> QED BY <1>9, <2>2 DEF s, len
<1>11. Entitled(Endpoint(h), req[h].by, req[h].seen) <=>
         req[h].by = "1" /\ \E i \in 1..Len(may) : May(may[i], req[h].seen)
  BY <1>3, <1>6, ByPermission DEF Endpoint
<1>12. CASE req[h].left = << >>
  <2>1. Answer(h, "403", "PermissionGuard")
    BY <1>12 DEF PermissionGuard
  <2>2. ~Entitled(Endpoint(h), req[h].by, req[h].seen)
    BY <1>9, <1>10, <1>11, <1>12
  <2> QED BY <1>1, <1>8, <2>1, <2>2, AnswerWay
<1>13. CASE req[h].left # << >>
  <2>1. n # Len(may) /\ n + 1 \in 1..Len(may)
    BY <1>8, <1>10, <1>13
  <2>2. Head(req[h].left) = Filled(may[n + 1], req[h].seen)
    BY <1>10, <2>1 DEF Asked, Endpoint
  <2>3. PICK has \in Answers(RolesOf(req[h].by), Head(req[h].left)) :
          IF has THEN Passed(h, req[h]) ELSE Step(h, [req[h] EXCEPT !.left = Tail(@)])
    BY <1>13 DEF PermissionGuard
  <2>4. req[h].by = "1" => (has <=> May(may[n + 1], req[h].seen))
    <3>1. /\ DOMAIN req[h].seen \subseteq Params
          /\ \A w \in DOMAIN req[h].seen : req[h].seen[w] \in Ids
      BY <1>1, SentWay DEF Brings
    <3>2. Kinds(may[n + 1], words)
      BY <1>8, <2>1
    <3>3. \A answer \in Answers(RolesOf("1"), Filled(may[n + 1], req[h].seen)) :
            answer <=> May(may[n + 1], req[h].seen)
      BY <1>7, <3>1, <3>2, KnownRank, Answering
    <3> QED BY <2>2, <2>3, <3>3
  <2>5. CASE has
    <3>1. Passed(h, req[h])
      BY <2>3, <2>5
    <3>2. LetIn(req[h])
      BY <1>3, <1>11, <2>1, <2>4, <2>5 DEF LetIn, Users, Endpoint
    <3>3. Brings(req[h])
      BY <1>1, SentWay
    <3>4. Len(Endpoint(h).guards) \in Nat /\ req[h].at \in 1..Len(Endpoint(h).guards)
      <4>1. \A len \in 1..3 : len \in Nat /\ len \in 1..len
        OBVIOUS
      <4> QED BY <1>3, <1>6, <4>1
    <3>5. ~(req[h].at < Len(Endpoint(h).guards))
      BY <1>3, <3>4
    <3> QED BY <1>1, <3>1, <3>2, <3>3, <3>4, <3>5, PassedWay
  <2>6. CASE ~has
    <3> DEFINE r == [req[h] EXCEPT !.left = Tail(@)]
    <3>1. Step(h, r)
      BY <2>3, <2>6
    <3>2. Goes(h, r)
      BY <3>1 DEF Step, Goes, WayInv
    <3>3. /\ r.step = "check" /\ DOMAIN r = DOMAIN req[h] /\ r.meant = req[h].meant
          /\ r.ep = req[h].ep /\ r.by = req[h].by
          /\ r.ids = req[h].ids /\ r.seen = req[h].seen /\ r.at = req[h].at
          /\ r.left = Tail(req[h].left)
      BY <1>1, SentWay
    <3> HIDE DEF r
    <3>4. Brings(r) /\ Grouped(r) /\ Asked(r) = Asked(req[h])
      BY <1>1, <1>3, <3>3, SentWay, Alike
    <3>5. r.by = "1" => \A i \in 1..(n + 1) : ~May(may[i], r.seen)
      <4> SUFFICES ASSUME r.by = "1", NEW i \in 1..(n + 1) PROVE ~May(may[i], r.seen)
        OBVIOUS
      <4>1. i \in 1..n \/ i = n + 1
        BY <1>8
      <4> QED BY <1>9, <2>4, <2>6, <3>3, <4>1
    <3>6. InVain(r, n + 1)
      BY <1>10, <2>1, <3>3, <3>4, <3>5 DEF InVain, Endpoint
    <3>7. n + 1 \in 0..Len(may)
      BY <1>8, <2>1
    <3>8. AtCheck(r)
      BY <1>3, <3>3, <3>4, <3>6, <3>7 DEF AtCheck, Endpoint
    <3>9. Way(r)
      BY <1>1, <3>3, <3>4, <3>8, SentWay DEF Way
    <3> QED BY <1>1, <3>2, <3>9, WayGoes
  <2> QED BY <2>5, <2>6
<1> QED BY <1>12, <1>13

-----------------------------------------------------------------------------
(* Pipes, handlers and the end of the way *)

\* What pipes can refuse with.
LEMMA RefusalStatuses ==
  ASSUME NEW ids
  PROVE  /\ \A pipe \in Plain : Refusals(pipe, ids) \subseteq {"400"}
         /\ Refusals("StudentPipe", ids) \subseteq {"403"}
<1>1. \A param : Unknown(ids, param) \subseteq {"400"}
  BY DEF Unknown
<1>2. /\ UserByIdPipe(ids) \subseteq {"400"} /\ GroupByIdPipe(ids) \subseteq {"400"}
      /\ TeacherByIdPipe(ids) \subseteq {"400"} /\ DisciplineByIdPipe(ids) \subseteq {"400"}
      /\ DisciplineTeacherByIdPipe(ids) \subseteq {"400"} /\ QuestionByIdPipe(ids) \subseteq {"400"}
      /\ SubjectByIdPipe(ids) \subseteq {"400"} /\ ResourceByIdPipe(ids) \subseteq {"400"}
  BY <1>1 DEF UserByIdPipe, GroupByIdPipe, TeacherByIdPipe, DisciplineByIdPipe,
              DisciplineTeacherByIdPipe, QuestionByIdPipe, SubjectByIdPipe, ResourceByIdPipe
<1>3. /\ CathedraByIdPipe(ids) \subseteq {"400"} /\ EntrantByIdPipe(ids) \subseteq {"400"}
      /\ EventByIdPipe(ids) \subseteq {"400"} /\ TelegramGroupByIdPipe(ids) \subseteq {"400"}
      /\ UserByTelegramIdPipe(ids) \subseteq {"400"} /\ RoleByIdPipe(ids) \subseteq {"400"}
      /\ GrantByIdPipe(ids) \subseteq {"400"} /\ CommentsQueryPipe(ids) \subseteq {"400"}
  BY <1>1 DEF CathedraByIdPipe, EntrantByIdPipe, EventByIdPipe, TelegramGroupByIdPipe,
              UserByTelegramIdPipe, RoleByIdPipe, GrantByIdPipe, CommentsQueryPipe
<1>4. /\ ContactByNamePipe(ids) \subseteq {"400"} /\ ContactByUserIdPipe(ids) \subseteq {"400"}
      /\ QuestionByRoleAndIdPipe(ids) \subseteq {"400"} /\ AllStudentsPipe(ids) \subseteq {"400"}
      /\ AllTeachersPipe(ids) \subseteq {"400"} /\ EventPipe(ids) \subseteq {"400"}
      /\ SelectiveDisciplinesPipe(ids) \subseteq {"400"}
  BY <1>1 DEF ContactByNamePipe, ContactByUserIdPipe, QuestionByRoleAndIdPipe, AllStudentsPipe,
              AllTeachersPipe, EventPipe, SelectiveDisciplinesPipe
<1>5. StudentPipe(ids) \subseteq {"403"} /\ Refusals("StudentPipe", ids) = StudentPipe(ids)
  BY DEF StudentPipe, Refusals
<1>6. \A pipe \in Plain : Refusals(pipe, ids) \subseteq {"400"}
  <2>1. \A pipe \in {"UserByIdPipe", "GroupByIdPipe", "TeacherByIdPipe", "DisciplineByIdPipe",
                     "DisciplineTeacherByIdPipe", "QuestionByIdPipe", "SubjectByIdPipe",
                     "ResourceByIdPipe"} : Refusals(pipe, ids) \subseteq {"400"}
    BY <1>2 DEF Refusals
  <2>2. \A pipe \in {"CathedraByIdPipe", "EntrantByIdPipe", "EventByIdPipe",
                     "TelegramGroupByIdPipe", "UserByTelegramIdPipe", "RoleByIdPipe",
                     "GrantByIdPipe", "CommentsQueryPipe"} : Refusals(pipe, ids) \subseteq {"400"}
    BY <1>3 DEF Refusals
  <2>3. \A pipe \in {"ContactByNamePipe", "ContactByUserIdPipe", "QuestionByRoleAndIdPipe",
                     "AllStudentsPipe", "AllTeachersPipe", "EventPipe",
                     "SelectiveDisciplinesPipe"} : Refusals(pipe, ids) \subseteq {"400"}
    BY <1>4 DEF Refusals
  <2> QED BY <2>1, <2>2, <2>3 DEF Plain
<1> QED BY <1>5, <1>6

LEMMA PipesWay ==
  ASSUME WayInv, NEW h \in Handlers, Pipes(h) PROVE WayInv'
<1> DEFINE pipes == Endpoint(h).pipes
           refusals == UNION {Refusals(p, req[h].ids) : p \in pipes \ {"AvatarValidationPipe"}}
           files == IF "AvatarValidationPipe" \in pipes THEN AvatarValidationPipe ELSE {}
           r == [req[h] EXCEPT !.step = "handler"]
<1>1. req[h].step = "pipes" /\ req[h].step # "idle" /\ UNCHANGED rank
  BY DEF Pipes
<1>2. LetIn(req[h]) /\ Piped(Endpoint(h))
  BY <1>1, SentWay DEF WayInv, Way
<1>3. CASE Step(h, r)
  <2>1. Goes(h, r)
    BY <1>3 DEF Step, Goes, WayInv
  <2>2. /\ r.step = "handler" /\ DOMAIN r = DOMAIN req[h] /\ r.meant = req[h].meant
        /\ r.ep = req[h].ep /\ r.by = req[h].by
        /\ r.ids = req[h].ids /\ r.seen = req[h].seen
    BY <1>1, SentWay
  <2> HIDE DEF r
  <2> QED BY <1>1, <1>2, <2>1, <2>2, OnWay
<1>4. CASE \E status \in refusals \cup files : Answer(h, status, "pipes")
  <2>1. PICK status \in refusals \cup files : Answer(h, status, "pipes")
    BY <1>4
  <2>2. Lists(Endpoint(h), status)
    <3>1. CASE status \in files
      BY <1>2, <3>1 DEF Piped, AvatarValidationPipe
    <3>2. CASE status \in refusals
      <4>1. PICK p \in pipes \ {"AvatarValidationPipe"} : status \in Refusals(p, req[h].ids)
        BY <3>2
      <4>2. p \in Plain \/ p = "StudentPipe"
        BY <1>2, <4>1 DEF Piped
      <4>3. CASE p \in Plain
        <5>1. status = "400" /\ pipes # {}
          BY <4>1, <4>3, RefusalStatuses
        <5> QED BY <1>2, <5>1 DEF Piped
      <4>4. CASE p = "StudentPipe"
        <5>1. status = "403" /\ "StudentPipe" \in pipes
          BY <4>1, <4>4, RefusalStatuses
        <5> QED BY <1>2, <5>1 DEF Piped
      <4> QED BY <4>2, <4>3, <4>4
    <3> QED BY <2>1, <3>1, <3>2
  <2>3. "pipes" \notin Guards
    BY DEF Guards
  <2> QED BY <1>1, <1>2, <2>1, <2>2, <2>3, AnswerWay
<1>5. Step(h, r) \/ \E status \in refusals \cup files : Answer(h, status, "pipes")
  BY DEF Pipes
<1> QED BY <1>3, <1>4, <1>5

\* A handler has let nobody in, and only goes on or answers.
LEMMA HandlerWay ==
  ASSUME WayInv, NEW h \in Handlers,
         \/ Serve(h) \/ giveRole(h) \/ removeRole(h) \/ createRole(h) \/ createRoleWithGrants(h)
         \/ deleteRole(h) \/ deleteGrant(h) \/ Insert(h) \/ updateHigherGrants(h)
         \/ Raise(h) \/ Raised(h) \/ Create(h) \/ Update(h)
  PROVE  WayInv'
<1>1. /\ req[h].step \in {"handler", "shift", "raise", "write"} /\ req[h].step # "idle"
      /\ UNCHANGED rank
  BY DEF Serve, giveRole, removeRole, createRole, createRoleWithGrants, deleteRole, deleteGrant,
         Insert, updateHigherGrants, Raise, Raised, Create, Update, Arrived, Refuse
<1>2. LetIn(req[h])
  BY <1>1 DEF WayInv, Way
<1>3. ASSUME NEW status, Answer(h, status, "handler") PROVE WayInv'
  <2>1. "handler" \notin Guards
    BY DEF Guards
  <2> QED BY <1>1, <1>2, <1>3, <2>1, AnswerWay
<1>4. ASSUME NEW r, Step(h, r), r.step \in {"handler", "shift", "raise", "write"},
             DOMAIN r = DOMAIN req[h], r.meant = req[h].meant, r.ep = req[h].ep,
             r.by = req[h].by, r.ids = req[h].ids /\ r.seen = req[h].seen
      PROVE  WayInv'
  <2>1. Goes(h, r)
    BY <1>4 DEF Step, Goes, WayInv
  <2> QED BY <1>1, <1>2, <1>4, <2>1, OnWay
<1>5. CASE \/ Serve(h) \/ giveRole(h) \/ removeRole(h) \/ createRole(h)
           \/ createRoleWithGrants(h) \/ deleteRole(h) \/ deleteGrant(h) \/ Create(h) \/ Update(h)
  BY <1>3, <1>5 DEF Serve, giveRole, removeRole, createRole, createRoleWithGrants, deleteRole,
                    deleteGrant, Create, Update, Refuse
<1>6. CASE Insert(h)
  <2> DEFINE todo == [i \in 1..Len(req[h].body) |-> req[h].body[i].weight]
             r == [req[h] EXCEPT !.step = "shift", !.todo = todo]
  <2>1. Step(h, r)
    BY <1>6 DEF Insert
  <2>2. /\ r.step = "shift" /\ DOMAIN r = DOMAIN req[h] /\ r.meant = req[h].meant
        /\ r.ep = req[h].ep /\ r.by = req[h].by
        /\ r.ids = req[h].ids /\ r.seen = req[h].seen
    BY <1>1, SentWay
  <2> HIDE DEF r
  <2> QED BY <1>4, <2>1, <2>2
<1>7. CASE updateHigherGrants(h)
  <2> DEFINE weight == Head(req[h].todo)
             r == [req[h] EXCEPT !.step = "write"]
             q == [req[h] EXCEPT !.step = "raise", !.todo = Tail(@), !.prev = weight,
               !.higher = {g \in grants : g.role = req[h].ids["roleId"] /\ g.weight >= weight}]
  <2>1. Step(h, r) \/ Step(h, q)
    BY <1>7 DEF updateHigherGrants
  <2>2. /\ r.step = "write" /\ DOMAIN r = DOMAIN req[h] /\ r.meant = req[h].meant
        /\ r.ep = req[h].ep /\ r.by = req[h].by
        /\ r.ids = req[h].ids /\ r.seen = req[h].seen
    BY <1>1, SentWay
  <2>3. /\ q.step = "raise" /\ DOMAIN q = DOMAIN req[h] /\ q.meant = req[h].meant
        /\ q.ep = req[h].ep /\ q.by = req[h].by
        /\ q.ids = req[h].ids /\ q.seen = req[h].seen
    BY <1>1, SentWay
  <2> HIDE DEF r, q
  <2> QED BY <1>4, <2>1, <2>2, <2>3
<1>8. CASE Raise(h)
  <2>1. PICK g \in Lowest(req[h].higher) :
          \/ Step(h, [req[h] EXCEPT !.prev = @ + 1, !.higher = @ \ {g}])
          \/ Answer(h, "500", "handler")
    BY <1>8 DEF Raise
  <2> DEFINE r == [req[h] EXCEPT !.prev = @ + 1, !.higher = @ \ {g}]
  <2>2. /\ r.step = req[h].step /\ DOMAIN r = DOMAIN req[h] /\ r.meant = req[h].meant
        /\ r.ep = req[h].ep /\ r.by = req[h].by
        /\ r.ids = req[h].ids /\ r.seen = req[h].seen
    BY <1>1, SentWay
  <2>3. Step(h, r) \/ Answer(h, "500", "handler")
    BY <2>1
  <2> HIDE DEF r
  <2> QED BY <1>1, <1>3, <1>4, <2>2, <2>3
<1>9. CASE Raised(h)
  <2> DEFINE r == [req[h] EXCEPT !.step = "shift", !.prev = 0, !.higher = {}]
  <2>1. Step(h, r)
    BY <1>9 DEF Raised
  <2>2. /\ r.step = "shift" /\ DOMAIN r = DOMAIN req[h] /\ r.meant = req[h].meant
        /\ r.ep = req[h].ep /\ r.by = req[h].by
        /\ r.ids = req[h].ids /\ r.seen = req[h].seen
    BY <1>1, SentWay
  <2> HIDE DEF r
  <2> QED BY <1>4, <2>1, <2>2
<1> QED BY <1>5, <1>6, <1>7, <1>8, <1>9

LEMMA DoneWay ==
  ASSUME WayInv, NEW h \in Handlers, Done(h) PROVE WayInv'
<1>1. Goes(h, NoRequest) /\ UNCHANGED rank
  BY DEF Done, Step, Goes, WayInv
<1>2. Way(NoRequest)
  BY NoRequestShape DEF Way
<1> QED BY <1>1, <1>2, WayGoes

LEMMA InitWay == Init => WayInv
  BY NoRequestShape DEF Init, WayInv, Way

LEMMA NextWay == WayInv /\ [Next]_vars => WayInv'
<1> SUFFICES ASSUME WayInv, [Next]_vars PROVE WayInv'
  OBVIOUS
<1>1. CASE UNCHANGED vars
  <2>1. UNCHANGED <<rank, req>>
    BY <1>1 DEF vars
  <2>2. ASSUME NEW h \in Handlers PROVE Way(req[h])'
    <3>1. PICK q : q = req[h]
      OBVIOUS
    <3>2. Way(q)
      BY <3>1 DEF WayInv
    <3>3. Way(q)'
      BY <2>1, <3>2, WayStays
    <3> QED BY <2>1, <3>1, <3>3
  <2> QED BY <2>1, <2>2 DEF WayInv
<1>2. ASSUME NEW h \in Handlers, NEW e \in Sendable, NEW by \in Senders(e),
             NEW ids \in IdsFor(e), NEW query \in QueriesFor(e), NEW body \in BodiesFor(e),
             Send(h, e, by, ids, query, body)
      PROVE  WayInv'
  BY <1>2, SendWay DEF Sendable
<1>3. ASSUME NEW h \in Handlers,
             \/ NoGuards(h) \/ JwtGuard(h) \/ TelegramGuard(h) \/ LocalGuard(h)
             \/ GroupByDisciplineGuard(h) \/ GroupByDisciplineTeacherGuard(h)
             \/ GroupByEventGuard(h) \/ getPermissions(h) \/ PermissionGuard(h) \/ Pipes(h)
      PROVE  WayInv'
  BY <1>3, NoGuardsWay, JwtGuardWay, TelegramGuardWay, LocalGuardWay, GroupGuardsWay,
     getPermissionsWay, PermissionGuardWay, PipesWay
<1>4. ASSUME NEW h \in Handlers,
             \/ Serve(h) \/ giveRole(h) \/ removeRole(h) \/ createRole(h)
             \/ createRoleWithGrants(h) \/ deleteRole(h) \/ deleteGrant(h) \/ Insert(h)
             \/ updateHigherGrants(h) \/ Raise(h) \/ Raised(h) \/ Create(h) \/ Update(h)
      PROVE  WayInv'
  BY <1>4, HandlerWay
<1>5. ASSUME NEW h \in Handlers, Done(h) PROVE WayInv'
  BY <1>5, DoneWay
<1> QED BY <1>1, <1>2, <1>3, <1>4, <1>5 DEF Next

\* Where guards see of the path and the body what stands there, who is entitled to the
\* one is entitled to the other.
LEMMA EntitledAsSent ==
  ASSUME NEW r, Wired(Routes[r.ep]), Brings(r), SeenAsSent(r)
  PROVE  Entitled(Routes[r.ep], r.by, r.seen) <=> Entitled(Routes[r.ep], r.by, r.ids)
<1> DEFINE e == Routes[r.ep]
<1>1. \A p \in ParamsOf(e) : r.seen[p] = r.ids[p]
  BY DEF Brings, SeenAsSent
<1>2. CASE e.may = << >>
  BY <1>2 DEF Entitled
<1>3. CASE Permitted(e)
  <2>1. /\ \A i \in 1..Len(e.may) : Kinds(e.may[i], ParamsOf(e) \cup {"groupId"})
        /\ e.guards = Access(<< >>) =>
             \A i \in 1..Len(e.may) : Kinds(e.may[i], ParamsOf(e))
    <3>1. CASE e.guards = Access(<< >>)
      <4>1. \A guard : e.guards # Access(<<guard>>)
        <5> SUFFICES ASSUME NEW guard, e.guards = Access(<<guard>>) PROVE FALSE
          OBVIOUS
        <5>1. Len(e.guards) = 2 /\ Len(e.guards) = 3
          BY <3>1, AccessShape
        <5> QED BY <5>1
      <4>2. \A i \in 1..Len(e.may) : Kinds(e.may[i], ParamsOf(e))
        BY <1>3, <4>1 DEF Permitted, Granted
      <4> QED BY <4>2, MoreWords
    <3>2. CASE e.guards # Access(<< >>)
      BY <1>3, <3>2 DEF Permitted, Granted
    <3> QED BY <3>1, <3>2
  <2>2. ASSUME NEW i \in 1..Len(e.may), e.may[i][1] = "users", e.may[i][2] = "userId"
        PROVE  r.seen["userId"] = r.ids["userId"]
    <3>1. Asks(e.may[i], ParamsOf(e) \cup {"groupId"}) /\ 2 \in 1..Len(e.may[i])
      BY <2>1, KindsAsk
    <3>2. "userId" \in Params
      BY DEF Params
    <3>3. "userId" \in ParamsOf(e)
      BY <2>2, <3>1, <3>2 DEF Asks
    <3> QED BY <1>1, <3>3
  <2>3. ASSUME NEW i \in 1..Len(e.may), e.may[i][1] = "groups", e.may[i][2] = "groupId"
        PROVE  GroupMeant(e, r.seen) = GroupMeant(e, r.ids)
    <3>1. CASE e.guards = Access(<< >>)
      <4>1. Asks(e.may[i], ParamsOf(e)) /\ 2 \in 1..Len(e.may[i])
        BY <2>1, <3>1, KindsAsk
      <4>2. "groupId" \in Params
        BY DEF Params
      <4>3. "groupId" \in ParamsOf(e)
        BY <2>3, <4>1, <4>2 DEF Asks
      <4> QED BY <1>1, <3>1, <4>3, MeantGroup
    <3>2. CASE \E guard \in DOMAIN ThingOf : e.guards = Access(<<guard>>)
                                           /\ ThingOf[guard] \in ParamsOf(e)
      BY <1>1, <3>2, MeantGroup
    <3> QED BY <1>3, <3>1, <3>2 DEF Permitted
  <2> QED BY <2>2, <2>3 DEF Entitled
<1> QED BY <1>2, <1>3 DEF Wired, Permitted

LEMMA WayMeans == WayInv => AnsweredAsMeant /\ RefusalsDocumented
<1> SUFFICES ASSUME WayInv, NEW h \in Handlers, req[h].step = "done"
             PROVE  /\ req[h].ep = req[h].meant
                    /\ req[h].by # "2" /\ SeenAsSent(req[h]) =>
                         /\ req[h].who \in Guards =>
                              ~Entitled(Routes[req[h].meant], req[h].by, req[h].ids)
                         /\ req[h].who \in {"pipes", "handler"} =>
                              Entitled(Routes[req[h].meant], req[h].by, req[h].ids)
                    /\ req[h].who # "handler" /\ req[h].status # "401" =>
                         Lists(Endpoint(h), req[h].status)
  BY DEF AnsweredAsMeant, RefusalsDocumented, Lists
<1>1. Way(req[h])
  BY DEF WayInv
<1>2. req[h].ep = req[h].meant /\ Answered(req[h])
  BY <1>1 DEF Way
<1>3. SeenAsSent(req[h]) => (Entitled(Routes[req[h].ep], req[h].by, req[h].seen) <=>
                             Entitled(Routes[req[h].ep], req[h].by, req[h].ids))
  BY SentWay, EntitledAsSent DEF Endpoint
<1> QED BY <1>2, <1>3 DEF Answered, LetIn, Endpoint

\* Every request, in any state it can be in, is at the endpoint it was written for
\* and has passed no guard without being entitled to what that guard saw it name: what
\* RequestUtils.get finds, which the query can make another thing than the handler works
\* on (RequestUtils.ts:5, PermissionGuard.ts:19-53).
THEOREM WayAlways == Spec => []WayInv
<1>1. Init => WayInv
  BY InitWay
<1>2. WayInv /\ [Next]_vars => WayInv'
  BY NextWay
<1> QED BY <1>1, <1>2, PTL DEF Spec

\* Any number of requests, from anyone and about anything, whatever roles and grants
\* are changed meanwhile: each of the 166 routes gets what was written for it, and
\* its guards let user "1", the bot and strangers pass exactly when they may do what
\* the endpoint does, unless a query names for the guards another thing than the path and
\* the body name for the handler (RequestUtils.ts:5, PermissionGuard.ts:19-53,
\* PermissionService.ts, ROLE_LIST of GroupService.ts).
THEOREM RequestsAnsweredAsMeant == Spec => []AnsweredAsMeant
  BY WayAlways, WayMeans, PTL

\* No guard and no pipe of an endpoint refuses with a status that its documentation
\* does not list, but for the three of Unlisted (the docs of ApiEndpoint in the
\* controllers, against the guards and the pipes behind them).
THEOREM RefusalsAsDocumented == Spec => []RefusalsDocumented
  BY WayAlways, WayMeans, PTL

-----------------------------------------------------------------------------
(* What requests for grants know *)

\* A request brings its grants lightest first, and no two of a weight.  (Room
\* is made for one after another: at equal weights the second finds it already
\* there, and room made below fills what was made above.)
Climbing ==
  \A body \in Bodies : \A i, j \in 1..Len(body) : i < j => body[i].weight < body[j].weight

\* A request keeps its columns; one to change a grant brings one; one that is let
\* in to insert grants is about a role that was there.
AskedInv ==
  /\ DOMAIN req = Handlers /\ roles \subseteq named
  /\ \A h \in Handlers :
       LET r == req[h] IN
       /\ DOMAIN r = DOMAIN NoRequest
       /\ r.body \in Bodies \cup {<< >>}
       /\ r.step # "idle" /\ Endpoint(h) = Role_updateGrant => Len(r.body) = 1
       /\ Writing(h) => Endpoint(h) \in Inserting
       /\ r.step \in {"handler", "shift", "raise", "write"} /\ Endpoint(h) \in Inserting =>
            r.ids["roleId"] \in named

\* Rows are numbered, their weights are numbers and their roles are there.
Numbered ==
  /\ made \in Nat
  /\ \A g \in grants :
       /\ g.id \in Nat /\ g.id <= made /\ g.weight \in Int /\ g.role \in roles
       /\ DOMAIN g = {"id", "role", "permission", "set", "weight"}
  /\ \A g, other \in grants : g.id = other.id => g = other

\* No two rows of a role in this set weigh the same.
Apart(rows) == \A g, other \in rows : ~Rivals(g, other)

\* The weights room is made at: those of the body, and how many are behind.
Behind(r) == Len(r.body) - Len(r.todo)
AsBrought(r) ==
  /\ r.todo \in Seq(Int) /\ Len(r.todo) <= Len(r.body)
  /\ \A i \in 1..Len(r.todo) : r.todo[i] = r.body[Behind(r) + i].weight

\* The first n grants of the body have room.
Cleared(r, n) ==
  \A g \in grants, i \in 1..n : g.role = r.ids["roleId"] => g.weight # r.body[i].weight

\* While grants are raised: those that were read and wait are at prev or above,
\* the others below the gap at the weight asked for or above it up to prev.
Raises(r) ==
  /\ Behind(r) \in 1..Len(r.body) /\ r.prev \in Int
  /\ r.body[Behind(r)].weight <= r.prev
  /\ r.higher \subseteq grants
  /\ \A g \in r.higher : g.role = r.ids["roleId"] /\ r.prev <= g.weight
  /\ \A g \in grants \ r.higher : g.role = r.ids["roleId"] =>
       g.weight <= r.prev /\ g.weight # r.body[Behind(r)].weight
  /\ Apart(r.higher) /\ Apart(grants \ r.higher)

Fits(r) ==
  /\ r.step = "shift" => AsBrought(r) /\ Apart(grants) /\ Cleared(r, Behind(r))
  /\ r.step = "raise" => AsBrought(r) /\ Raises(r) /\ Cleared(r, Behind(r) - 1)
  /\ r.step = "write" => Apart(grants) /\ Cleared(r, Len(r.body))

\* Until requests crossed, one at most is at work on the weights, and with
\* none the grants are apart.
RoomInv ==
  ~torn =>
    /\ Numbered
    /\ \A h, k \in Handlers : Writing(h) /\ Writing(k) => h = k
    /\ \A h \in Handlers : Fits(req[h])
    /\ (\A h \in Handlers : ~Writing(h)) => Apart(grants)

LEMMA BodyFacts ==
  ASSUME NEW body \in Bodies \cup {<< >>}
  PROVE  /\ Len(body) \in Nat /\ \A i \in 1..Len(body) : body[i].weight \in Int
         /\ Climbing => \A i, j \in 1..Len(body) : i < j => body[i].weight < body[j].weight
  BY AccessAssumption DEF Climbing

-----------------------------------------------------------------------------
(* What is asked *)

\* A request that goes on with what it came with, short of the handlers.
GoesOn(h, r) ==
  /\ Goes(h, r) /\ req[h].step # "idle"
  /\ DOMAIN r = DOMAIN req[h] /\ r.body = req[h].body /\ r.ep = req[h].ep
  /\ r.step \notin {"handler", "shift", "raise", "write"}

LEMMA AskedGoes ==
  ASSUME AskedInv, NEW h \in Handlers, NEW r, Goes(h, r),
         DOMAIN r = DOMAIN NoRequest, r.body \in Bodies \cup {<< >>},
         r.step # "idle" /\ Routes[r.ep] = Role_updateGrant => Len(r.body) = 1,
         r.step \in {"shift", "raise", "write"} => Routes[r.ep] \in Inserting,
         r.step \in {"handler", "shift", "raise", "write"} /\ Routes[r.ep] \in Inserting =>
           r.ids["roleId"] \in named',
         named \subseteq named', roles' \subseteq named'
  PROVE  AskedInv'
<1>1. DOMAIN req' = Handlers /\ req'[h] = r /\ \A k \in Handlers \ {h} : req'[k] = req[k]
  BY Others
<1>2. ASSUME NEW k \in Handlers
      PROVE  LET q == req'[k] IN
             /\ DOMAIN q = DOMAIN NoRequest
             /\ q.body \in Bodies \cup {<< >>}
             /\ q.step # "idle" /\ Routes[q.ep] = Role_updateGrant => Len(q.body) = 1
             /\ q.step \in {"shift", "raise", "write"} => Routes[q.ep] \in Inserting
             /\ q.step \in {"handler", "shift", "raise", "write"} /\ Routes[q.ep] \in Inserting =>
                  q.ids["roleId"] \in named'
  <2>1. CASE k = h
    BY <1>1, <2>1
  <2>2. CASE k # h
    BY <1>1, <2>2 DEF AskedInv, Endpoint, Writing
  <2> QED BY <2>1, <2>2
<1> QED BY <1>1, <1>2 DEF AskedInv, Endpoint, Writing

LEMMA AskedGoesOn ==
  ASSUME AskedInv, NEW h \in Handlers, NEW r, GoesOn(h, r),
         named \subseteq named', roles' \subseteq named'
  PROVE  AskedInv'
<1>1. Goes(h, r) /\ r.step \notin {"shift", "raise", "write"} /\ r.step # "handler"
  BY DEF GoesOn
<1>2. DOMAIN r = DOMAIN NoRequest /\ r.body \in Bodies \cup {<< >>}
  BY DEF GoesOn, AskedInv
<1>3. Routes[r.ep] = Role_updateGrant => Len(r.body) = 1
  BY DEF GoesOn, AskedInv, Endpoint
<1> QED BY <1>1, <1>2, <1>3, AskedGoes

LEMMA AnswerGoes ==
  ASSUME AskedInv, NEW h \in Handlers, NEW status, NEW who, Answer(h, status, who),
         req[h].step # "idle"
  PROVE  \E r : GoesOn(h, r)
<1> DEFINE r == [req[h] EXCEPT !.step = "done", !.status = status, !.who = who]
<1>1. Goes(h, r)
  BY DEF Goes, Answer, Step, AskedInv
<1>2. "step" \in DOMAIN req[h] /\ "body" \in DOMAIN req[h] /\ "ep" \in DOMAIN req[h]
  BY NoRequestShape DEF AskedInv
<1>3. r.step = "done" /\ DOMAIN r = DOMAIN req[h] /\ r.body = req[h].body /\ r.ep = req[h].ep
  BY <1>2
<1> QED BY <1>1, <1>3 DEF GoesOn

LEMMA PassedGoes ==
  ASSUME AskedInv, NEW h \in Handlers, NEW q, Passed(h, q), req[h].step # "idle",
         DOMAIN q = DOMAIN req[h], q.body = req[h].body, q.ep = req[h].ep
  PROVE  \E r : GoesOn(h, r)
<1> DEFINE r == [q EXCEPT !.at = q.at + 1,
                   !.step = IF q.at < Len(Endpoint(h).guards) THEN "guards" ELSE "pipes"]
<1>1. Goes(h, r)
  BY DEF Goes, Passed, Step, AskedInv
<1>2. "step" \in DOMAIN req[h] /\ "body" \in DOMAIN req[h] /\ "ep" \in DOMAIN req[h]
  BY NoRequestShape DEF AskedInv
<1>3. /\ r.step \in {"guards", "pipes"} /\ DOMAIN r = DOMAIN req[h]
      /\ r.body = req[h].body /\ r.ep = req[h].ep
  BY <1>2
<1> QED BY <1>1, <1>3 DEF GoesOn

-----------------------------------------------------------------------------
(* Steps that leave the grants alone, and those that only add or delete *)

\* What RankKept says of a step.
Ranked ==
  torn' \/ \A g, other \in grants : \A gNow, otherNow \in grants' :
       /\ gNow.id = g.id /\ otherNow.id = other.id
       /\ g.role = other.role /\ g.weight > other.weight
       => \/ gNow.weight >= otherNow.weight
          \/ \E h \in Handlers : Updated(h, g) \/ Updated(h, other)

LEMMA NoneMoves ==
  ASSUME RoomInv, torn => torn', \A g \in grants' : g \in grants \/ ~(g.id <= made)
  PROVE  Ranked
<1> SUFFICES ASSUME ~torn', NEW g \in grants, NEW other \in grants,
                    NEW gNow \in grants', NEW otherNow \in grants',
                    gNow.id = g.id, otherNow.id = other.id, g.weight > other.weight
             PROVE  gNow.weight >= otherNow.weight
  BY DEF Ranked
<1>1. Numbered
  BY DEF RoomInv
<1>2. gNow = g /\ otherNow = other
  BY <1>1 DEF Numbered
<1> QED BY <1>1, <1>2 DEF Numbered

LEMMA FitsStays ==
  ASSUME NEW k \in Handlers, req'[k] = req[k], Fits(req[k]), UNCHANGED grants
  PROVE  Fits(req[k])'
<1>1. PICK q : q = req[k]
  OBVIOUS
<1>2. req[k]' = q
  BY <1>1
<1>3. Fits(q)
  BY <1>1
<1>4. Fits(q)'
  BY <1>3 DEF Fits, Apart, Rivals, Cleared, Raises, AsBrought, Behind
<1> QED BY <1>2, <1>4

\* Who works on weights is not the one who makes this step.
LEMMA QuietRoom ==
  ASSUME RoomInv, NEW h \in Handlers, NEW r, Goes(h, r), ~Writing(h),
         r.step \notin {"shift", "raise", "write"}, roles \subseteq roles',
         UNCHANGED <<grants, made, torn>>
  PROVE  RoomInv' /\ Ranked
<1>1. DOMAIN req' = Handlers /\ req'[h] = r /\ \A k \in Handlers \ {h} : req'[k] = req[k]
  BY Others
<1>2. \A k \in Handlers : Writing(k)' => k # h /\ Writing(k)
  BY <1>1 DEF Writing
<1>3. \A k \in Handlers : Writing(k) => Writing(k)'
  BY <1>1 DEF Writing
<1>4. Numbered => Numbered'
  BY DEF Numbered
<1>5. \A k \in Handlers : Fits(req[k]) => Fits(req[k])'
  <2> SUFFICES ASSUME NEW k \in Handlers, Fits(req[k]) PROVE Fits(req[k])'
    OBVIOUS
  <2>1. CASE k = h
    BY <1>1, <2>1 DEF Fits
  <2>2. CASE k # h
    BY <1>1, <2>2, FitsStays
  <2> QED BY <2>1, <2>2
<1>6. Apart(grants) => Apart(grants)'
  BY DEF Apart, Rivals
<1>7. RoomInv'
  BY <1>2, <1>3, <1>4, <1>5, <1>6 DEF RoomInv
<1> QED BY <1>7, NoneMoves

LEMMA QuietStep ==
  ASSUME AskedInv, RoomInv, NEW h \in Handlers, NEW r, GoesOn(h, r), ~Writing(h),
         UNCHANGED <<roles, named, grants, made, torn>>
  PROVE  AskedInv' /\ RoomInv' /\ Ranked
<1>1. AskedInv'
  BY AskedGoesOn DEF AskedInv
<1>2. RoomInv' /\ Ranked
  BY QuietRoom DEF GoesOn
<1> QED BY <1>1, <1>2

Kept == AskedInv' /\ RoomInv' /\ Ranked

-----------------------------------------------------------------------------
(* A request comes in and passes guards and pipes *)

LEMMA SendKept ==
  ASSUME AskedInv, RoomInv, NEW h \in Handlers, req[h].step = "idle", NEW e \in EndpointIds,
         NEW by, NEW ids \in IdsFor(e), NEW query, NEW body \in BodiesFor(e),
         Send(h, e, by, ids, query, body)
  PROVE  Kept
<1> DEFINE r == [NoRequest EXCEPT
          !.step = "guards", !.meant = e, !.by = by, !.ids = ids, !.body = body,
          !.seen = get(query, ids),
          !.ep = Dispatch(Routes[e].verb, Filled(Routes[e].path, ids))]
<1>1. Goes(h, r) /\ UNCHANGED <<roles, named, grants, made, torn>>
  BY DEF Send, Goes, Step, AskedInv
<1>2. /\ DOMAIN r = DOMAIN NoRequest /\ r.step = "guards" /\ r.body = body
      /\ r.ep = Dispatch(Routes[e].verb, Filled(Routes[e].path, ids))
  BY NoRequestShape
<1> HIDE DEF r
<1>3. body \in Bodies \cup {<< >>}
  BY DEF BodiesFor
<1>4. ASSUME Routes[r.ep] = Role_updateGrant PROVE Len(r.body) = 1
  <2>1. Routes[e] = Role_updateGrant
    BY <1>2, <1>4, UpdateIsMeant
  <2>2. Role_updateGrant \notin {Role_createGrants, Role_createWithGrants}
    BY DEF Role_updateGrant, Role_createGrants, Role_createWithGrants, Patch, Post, Route
  <2>3. body \in {b \in Bodies : Len(b) = 1}
    BY <2>1, <2>2 DEF BodiesFor
  <2> QED BY <1>2, <2>3
<1>5. AskedInv'
  BY <1>1, <1>2, <1>3, <1>4, AskedGoes DEF AskedInv
<1>6. ~Writing(h)
  BY DEF Writing
<1> QED BY <1>1, <1>2, <1>5, <1>6, QuietRoom DEF Kept

LEMMA GuardKept ==
  ASSUME AskedInv, RoomInv, NEW h \in Handlers,
         \/ NoGuards(h) \/ JwtGuard(h) \/ TelegramGuard(h) \/ LocalGuard(h)
         \/ GroupByDisciplineGuard(h) \/ GroupByDisciplineTeacherGuard(h) \/ GroupByEventGuard(h)
         \/ getPermissions(h) \/ PermissionGuard(h) \/ Serve(h)
  PROVE  Kept
<1>1. req[h].step \in {"guards", "check", "handler"}
      /\ UNCHANGED <<roles, named, grants, made, torn>>
  BY DEF NoGuards, JwtGuard, TelegramGuard, LocalGuard, Guarded, GroupByDisciplineGuard,
         GroupByDisciplineTeacherGuard, GroupByEventGuard, GroupOf, getPermissions,
         PermissionGuard, Serve, Refuse
<1>2. ~Writing(h) /\ req[h].step # "idle"
  BY <1>1 DEF Writing
<1>3. /\ "step" \in DOMAIN req[h] /\ "body" \in DOMAIN req[h] /\ "ep" \in DOMAIN req[h]
      /\ DOMAIN req = Handlers
  BY NoRequestShape DEF AskedInv
<1> SUFFICES \E r : GoesOn(h, r)
  BY <1>1, <1>2, QuietStep DEF Kept
<1>4. CASE NoGuards(h)
  <2> DEFINE r == [req[h] EXCEPT !.step = "pipes"]
  <2>1. Goes(h, r)
    BY <1>3, <1>4 DEF NoGuards, Step, Goes
  <2>2. r.step = "pipes" /\ DOMAIN r = DOMAIN req[h] /\ r.body = req[h].body /\ r.ep = req[h].ep
    BY <1>3
  <2> QED BY <1>2, <2>1, <2>2 DEF GoesOn
<1>5. ASSUME NEW status, NEW who, Answer(h, status, who) PROVE \E r : GoesOn(h, r)
  BY <1>2, <1>5, AnswerGoes
<1>6. ASSUME Passed(h, req[h]) PROVE \E r : GoesOn(h, r)
  BY <1>2, <1>6, PassedGoes
<1>7. CASE JwtGuard(h) \/ TelegramGuard(h) \/ LocalGuard(h)
  BY <1>5, <1>6, <1>7 DEF JwtGuard, TelegramGuard, LocalGuard
<1>8. ASSUME NEW guard, NEW refusal, GroupOf(h, guard, refusal)
      PROVE  \E r : GoesOn(h, r)
  <2> DEFINE found == [groupId |-> req[h].seen[ThingOf[guard]]]
             q == [req[h] EXCEPT !.seen = get(found, @)]
  <2>1. CASE req[h].seen[ThingOf[guard]] = "0"
    BY <1>5, <1>8, <2>1 DEF GroupOf
  <2>2. CASE req[h].seen[ThingOf[guard]] # "0"
    <3>1. Passed(h, q)
      BY <1>8, <2>2 DEF GroupOf
    <3>2. DOMAIN q = DOMAIN req[h] /\ q.body = req[h].body /\ q.ep = req[h].ep
      BY <1>3
    <3> HIDE DEF q
    <3> QED BY <1>2, <3>1, <3>2, PassedGoes
  <2> QED BY <2>1, <2>2
<1>9. CASE GroupByDisciplineGuard(h) \/ GroupByDisciplineTeacherGuard(h) \/ GroupByEventGuard(h)
  BY <1>8, <1>9 DEF GroupByDisciplineGuard, GroupByDisciplineTeacherGuard, GroupByEventGuard
<1>10. CASE getPermissions(h)
  <2> DEFINE left == [i \in 1..Len(Endpoint(h).may) |-> Filled(Endpoint(h).may[i], req[h].seen)]
             r == [req[h] EXCEPT !.step = "check", !.left = left]
  <2>1. Step(h, r) \/ Answer(h, "403", "PermissionGuard")
    BY <1>10 DEF getPermissions
  <2>2. r.step = "check" /\ DOMAIN r = DOMAIN req[h] /\ r.body = req[h].body /\ r.ep = req[h].ep
    BY <1>3
  <2>3. Step(h, r) => Goes(h, r)
    BY <1>3 DEF Step, Goes
  <2> QED BY <1>2, <1>5, <2>1, <2>2, <2>3 DEF GoesOn
<1>11. CASE PermissionGuard(h)
  <2> DEFINE r == [req[h] EXCEPT !.left = Tail(@)]
  <2>1. \/ Answer(h, "403", "PermissionGuard") \/ Passed(h, req[h]) \/ Step(h, r)
    BY <1>11 DEF PermissionGuard
  <2>2. r.step = "check" /\ DOMAIN r = DOMAIN req[h] /\ r.body = req[h].body /\ r.ep = req[h].ep
    BY <1>3, <1>11 DEF PermissionGuard
  <2>3. Step(h, r) => Goes(h, r)
    BY <1>3 DEF Step, Goes
  <2> QED BY <1>2, <1>5, <1>6, <2>1, <2>2, <2>3 DEF GoesOn
<1>12. CASE Serve(h)
  BY <1>5, <1>12 DEF Serve, Refuse
<1> QED BY <1>4, <1>7, <1>9, <1>10, <1>11, <1>12

LEMMA DoneKept ==
  ASSUME AskedInv, RoomInv, NEW h \in Handlers, Done(h) PROVE Kept
<1>1. Goes(h, NoRequest) /\ ~Writing(h) /\ UNCHANGED <<roles, named, grants, made, torn>>
  BY DEF Done, Step, Goes, AskedInv, Writing
<1>2. AskedInv'
  BY <1>1, NoRequestShape, AskedGoes DEF AskedInv
<1> QED BY <1>1, <1>2, NoRequestShape, QuietRoom DEF Kept

\* Who is let in to insert grants into a role has named one that is there.
LEMMA PipesKept ==
  ASSUME AskedInv, RoomInv, NEW h \in Handlers, Pipes(h) PROVE Kept
<1>1. req[h].step = "pipes" /\ UNCHANGED <<roles, named, grants, made, torn>>
  BY DEF Pipes
<1>2. ~Writing(h) /\ req[h].step # "idle"
  BY <1>1 DEF Writing
<1>3. /\ "step" \in DOMAIN req[h] /\ "body" \in DOMAIN req[h] /\ "ep" \in DOMAIN req[h]
      /\ "ids" \in DOMAIN req[h] /\ DOMAIN req = Handlers
  BY NoRequestShape DEF AskedInv
<1>4. CASE \E status : Answer(h, status, "pipes")
  BY <1>1, <1>2, <1>4, AnswerGoes, QuietStep DEF Kept
<1> DEFINE r == [req[h] EXCEPT !.step = "handler"]
           refusals == UNION {Refusals(p, req[h].ids) :
                                p \in Endpoint(h).pipes \ {"AvatarValidationPipe"}}
<1>5. CASE Step(h, r) /\ refusals = {}
  <2>1. /\ Goes(h, r) /\ r.step = "handler" /\ DOMAIN r = DOMAIN req[h]
        /\ r.body = req[h].body /\ r.ep = req[h].ep /\ r.ids = req[h].ids
    BY <1>3, <1>5 DEF Step, Goes
  <2>2. ASSUME Routes[r.ep] \in Inserting PROVE r.ids["roleId"] \in named
    <3>1. "RoleByIdPipe" \in Endpoint(h).pipes
      <4>1. "RoleByIdPipe" \in Role_createGrants.pipes
        BY DEF Role_createGrants, Post, Route
      <4>2. "RoleByIdPipe" \in Role_createGrant.pipes
        BY DEF Role_createGrant, Post, Route
      <4>3. "RoleByIdPipe" \in Role_updateGrant.pipes
        BY DEF Role_updateGrant, Patch, Route
      <4> QED BY <2>1, <2>2, <4>1, <4>2, <4>3 DEF Endpoint, Inserting
    <3>2. Refusals("RoleByIdPipe", req[h].ids) = {}
      BY <1>5, <3>1
    <3>3. RoleByIdPipe(req[h].ids) = {}
      BY <3>2 DEF Refusals
    <3>4. req[h].ids["roleId"] \in roles
      BY <3>3 DEF RoleByIdPipe
    <3> QED BY <2>1, <3>4 DEF AskedInv
  <2> HIDE DEF r
  <2>3. AskedInv'
    BY <1>1, <1>2, <2>1, <2>2, AskedGoes DEF AskedInv, Endpoint
  <2>4. RoomInv' /\ Ranked
    BY <1>1, <1>2, <2>1, QuietRoom
  <2> QED BY <2>3, <2>4 DEF Kept
<1> QED BY <1>4, <1>5 DEF Pipes

-----------------------------------------------------------------------------
(* Roles and grants are given, taken, made and deleted *)

LEMMA HeldKept ==
  ASSUME AskedInv, RoomInv, NEW h \in Handlers, giveRole(h) \/ removeRole(h) PROVE Kept
<1>1. req[h].step = "handler" /\ UNCHANGED <<roles, named, grants, made, torn>>
  BY DEF giveRole, removeRole, Arrived, Refuse
<1>2. PICK r : GoesOn(h, r)
  BY <1>1, AnswerGoes DEF giveRole, removeRole, Refuse
<1> QED BY <1>1, <1>2, QuietStep DEF Writing, Kept

LEMMA CreateRoleKept ==
  ASSUME AskedInv, RoomInv, NEW h \in Handlers, createRole(h) PROVE Kept
<1>1. /\ req[h].step = "handler" /\ UNCHANGED <<grants, made, torn>>
      /\ roles \subseteq roles' /\ named \subseteq named' /\ roles' \subseteq named'
  BY DEF createRole, Arrived, AskedInv
<1>2. PICK r : GoesOn(h, r)
  BY <1>1, AnswerGoes DEF createRole
<1>3. AskedInv'
  BY <1>1, <1>2, AskedGoesOn
<1>4. RoomInv' /\ Ranked
  BY <1>1, <1>2, QuietRoom DEF GoesOn, Writing
<1> QED BY <1>3, <1>4 DEF Kept

\* Rows are taken away while nobody works on weights.
LEMMA DeleteKept ==
  ASSUME AskedInv, RoomInv, NEW h \in Handlers, NEW r, GoesOn(h, r), ~Writing(h),
         Crossing(h), grants' \subseteq grants, made' = made, named' = named,
         roles' \subseteq roles, \A g \in grants' : g.role \in roles'
  PROVE  Kept
<1>1. AskedInv'
  BY AskedGoesOn DEF AskedInv
<1>2. torn => torn'
  BY DEF Crossing
<1>3. Ranked
  BY <1>2, NoneMoves
<1>4. ASSUME ~torn' PROVE RoomInv'
  <2>1. ~torn /\ \A k \in Handlers : ~Writing(k)
    BY <1>4 DEF Crossing
  <2>2. req'[h] = r /\ \A k \in Handlers \ {h} : req'[k] = req[k]
    BY Others DEF GoesOn
  <2>3. \A k \in Handlers : ~Writing(k)' /\ Fits(req[k])'
    BY <2>1, <2>2 DEF Writing, Fits, GoesOn
  <2>4. Numbered'
    BY <2>1 DEF RoomInv, Numbered
  <2>5. Apart(grants')
    BY <2>1 DEF RoomInv, Apart
  <2>6. Apart(grants)'
    BY <2>5 DEF Apart, Rivals
  <2> QED BY <2>3, <2>4, <2>6 DEF RoomInv
<1> QED BY <1>1, <1>3, <1>4 DEF Kept, RoomInv

LEMMA DeletionKept ==
  ASSUME AskedInv, RoomInv, NEW h \in Handlers, deleteRole(h) \/ deleteGrant(h) PROVE Kept
<1>1. req[h].step = "handler" /\ ~Writing(h) /\ req[h].step # "idle"
  BY DEF deleteRole, deleteGrant, Arrived, Writing
<1>2. PICK r : GoesOn(h, r)
  BY <1>1, AnswerGoes DEF deleteRole, deleteGrant, Refuse
<1>3. CASE UNCHANGED <<roles, named, grants, made, torn>>
  BY <1>1, <1>2, <1>3, QuietStep DEF Kept
<1>4. CASE Crossing(h) /\ torn'
  <2>1. AskedInv'
    BY <1>2, AskedGoesOn DEF AskedInv, deleteRole, deleteGrant, Refuse
  <2> QED BY <1>4, <2>1 DEF Kept, RoomInv, Ranked
<1>5. CASE ~torn' /\ deleteRole(h) /\ ~UNCHANGED <<roles, named, grants, made, torn>>
  <2>1. /\ Crossing(h) /\ made' = made /\ named' = named
        /\ roles' = roles \ {req[h].ids["roleId"]}
        /\ grants' = {g \in grants : g.role # req[h].ids["roleId"]}
    BY <1>5 DEF deleteRole, Refuse
  <2>2. \A g \in grants' : g.role \in roles'
    BY <1>5, <2>1 DEF RoomInv, Numbered, Crossing
  <2> QED BY <1>1, <1>2, <2>1, <2>2, DeleteKept
<1>6. CASE ~torn' /\ deleteGrant(h) /\ ~UNCHANGED <<roles, named, grants, made, torn>>
  <2>1. /\ Crossing(h) /\ made' = made /\ named' = named /\ roles' = roles
        /\ grants' \subseteq grants
    BY <1>6 DEF deleteGrant, Refuse
  <2>2. \A g \in grants' : g.role \in roles'
    BY <1>6, <2>1 DEF RoomInv, Numbered, Crossing
  <2> QED BY <1>1, <1>2, <2>1, <2>2, DeleteKept
<1>7. torn' => Crossing(h) \/ UNCHANGED <<roles, named, grants, made, torn>>
  BY DEF deleteRole, deleteGrant, Refuse
<1> QED BY <1>3, <1>4, <1>5, <1>6, <1>7

LEMMA RowShape ==
  ASSUME NEW id, NEW role, NEW g
  PROVE  LET row == Row(id, role, g) IN
         /\ row.id = id /\ row.role = role /\ row.weight = g.weight
         /\ DOMAIN row = {"id", "role", "permission", "set", "weight"}
  BY DEF Row

\* The grants of a body under new numbers, as rows of a role.
Added(role, body) == {Row(made + i, role, body[i]) : i \in 1..Len(body)}

LEMMA AddedRows ==
  ASSUME Climbing, Numbered, NEW role, NEW body \in Bodies \cup {<< >>}
  PROVE  /\ \A g \in Added(role, body) :
              /\ g.id \in Nat /\ made < g.id /\ g.id <= made + Len(body)
              /\ g.weight \in Int /\ g.role = role
              /\ DOMAIN g = {"id", "role", "permission", "set", "weight"}
              /\ \E i \in 1..Len(body) : g.weight = body[i].weight
         /\ \A g, other \in Added(role, body) : g.id = other.id => g = other
         /\ \A g, other \in Added(role, body) : g # other => g.weight # other.weight
<1>1. made \in Nat /\ Len(body) \in Nat /\ \A i \in 1..Len(body) : body[i].weight \in Int
  BY BodyFacts DEF Numbered
<1>2. \A i, j \in 1..Len(body) : i < j => body[i].weight < body[j].weight
  BY BodyFacts
<1>3. ASSUME NEW g \in Added(role, body)
      PROVE  \E i \in 1..Len(body) :
               /\ g = Row(made + i, role, body[i]) /\ g.id = made + i /\ g.role = role
               /\ g.weight = body[i].weight
               /\ DOMAIN g = {"id", "role", "permission", "set", "weight"}
  <2>1. PICK i \in 1..Len(body) : g = Row(made + i, role, body[i])
    BY DEF Added
  <2> QED BY <2>1, RowShape
<1>4. \A g \in Added(role, body) :
        /\ g.id \in Nat /\ made < g.id /\ g.id <= made + Len(body)
        /\ g.weight \in Int /\ g.role = role
        /\ DOMAIN g = {"id", "role", "permission", "set", "weight"}
        /\ \E i \in 1..Len(body) : g.weight = body[i].weight
  BY <1>1, <1>3
<1>5. ASSUME NEW g \in Added(role, body), NEW other \in Added(role, body)
      PROVE  /\ g.id = other.id => g = other
             /\ g # other => g.weight # other.weight
  <2>1. PICK i \in 1..Len(body) :
          g = Row(made + i, role, body[i]) /\ g.id = made + i /\ g.weight = body[i].weight
    BY <1>3
  <2>2. PICK j \in 1..Len(body) :
          other = Row(made + j, role, body[j]) /\ other.id = made + j
          /\ other.weight = body[j].weight
    BY <1>3
  <2>3. CASE i = j
    BY <2>1, <2>2, <2>3
  <2>4. CASE i # j
    <3>1. made + i # made + j
      BY <1>1, <2>4
    <3>2. body[i].weight # body[j].weight
      BY <1>1, <1>2, <2>4
    <3> QED BY <2>1, <2>2, <3>1, <3>2
  <2> QED BY <2>3, <2>4
<1> QED BY <1>4, <1>5

LEMMA NumberedAdded ==
  ASSUME Climbing, Numbered, NEW role, NEW body \in Bodies \cup {<< >>},
         grants' = grants \cup Added(role, body), made' = made + Len(body),
         roles \subseteq roles', role \in roles'
  PROVE  Numbered' /\ \A g \in grants' : g \in grants \/ ~(g.id <= made)
<1>1. made \in Nat /\ Len(body) \in Nat
  BY BodyFacts DEF Numbered
<1> DEFINE A == Added(role, body)
<1>2. /\ \A g \in A :
           /\ g.id \in Nat /\ made < g.id /\ g.id <= made + Len(body)
           /\ g.weight \in Int /\ g.role = role
           /\ DOMAIN g = {"id", "role", "permission", "set", "weight"}
      /\ \A g, other \in A : g.id = other.id => g = other
  BY AddedRows
<1> HIDE DEF A
<1>3. grants' = grants \cup A
  BY DEF A
<1>4. \A g \in grants' :
        /\ g.id \in Nat /\ g.id <= made' /\ g.weight \in Int /\ g.role \in roles'
        /\ DOMAIN g = {"id", "role", "permission", "set", "weight"}
  BY <1>1, <1>2, <1>3 DEF Numbered
<1>5. \A g, other \in grants' : g.id = other.id => g = other
  BY <1>1, <1>2, <1>3 DEF Numbered
<1>6. \A g \in grants' : g \in grants \/ ~(g.id <= made)
  BY <1>1, <1>2, <1>3
<1>7. made' \in Nat
  BY <1>1
<1> QED BY <1>4, <1>5, <1>6, <1>7 DEF Numbered

\* A role with grants that is new leaves the others' room as it is.
LEMMA FitsBesideNew ==
  ASSUME NEW A, NEW role, NEW k \in Handlers, req'[k] = req[k], Fits(req[k]),
         grants' = grants \cup A, \A g \in A : g.role = role,
         \A g \in grants : g.role # role, A \cap grants = {},
         \A g, other \in A : g # other => g.weight # other.weight,
         Writing(k) => req[k].ids["roleId"] # role
  PROVE  Fits(req[k])'
<1>1. PICK q : q = req[k]
  OBVIOUS
<1>2. req[k]' = q
  BY <1>1
<1>3. Fits(q) /\ (q.step \in {"shift", "raise", "write"} => q.ids["roleId"] # role)
  BY <1>1 DEF Writing
<1>4. \A rows : Apart(rows) /\ rows \subseteq grants => Apart(rows \cup A)
  BY DEF Apart, Rivals
<1>5. Apart(grants) => Apart(grants)'
  BY <1>4 DEF Apart, Rivals
<1>6. \A n : q.step \in {"shift", "raise", "write"} /\ Cleared(q, n) => Cleared(q, n)'
  BY <1>3 DEF Cleared
<1>7. q.step = "raise" /\ Raises(q) => Raises(q)'
  <2> SUFFICES ASSUME q.step = "raise", Raises(q) PROVE Raises(q)'
    OBVIOUS
  <2>1. grants' \ q.higher = (grants \ q.higher) \cup A
    BY DEF Raises
  <2>2. Apart((grants \ q.higher) \cup A)
    BY <1>4 DEF Raises
  <2>3. Apart(grants \ q.higher)' /\ Apart(q.higher)'
    BY <2>1, <2>2 DEF Apart, Rivals, Raises
  <2>4. \A g \in grants' \ q.higher : g.role = q.ids["roleId"] => g \in grants \ q.higher
    BY <1>3, <2>1
  <2> QED BY <2>3, <2>4 DEF Raises, Behind
<1>8. AsBrought(q) => AsBrought(q)'
  BY DEF AsBrought, Behind
<1>9. Fits(q)'
  BY <1>3, <1>5, <1>6, <1>7, <1>8 DEF Fits, Behind
<1> QED BY <1>2, <1>9

LEMMA CreateWithGrantsKept ==
  ASSUME Climbing, AskedInv, RoomInv, NEW h \in Handlers, createRoleWithGrants(h) PROVE Kept
<1>1. req[h].step = "handler" /\ ~Writing(h) /\ req[h].step # "idle"
  BY DEF createRoleWithGrants, Arrived, Writing
<1>2. PICK r : GoesOn(h, r)
  BY <1>1, AnswerGoes DEF createRoleWithGrants, Refuse
<1>3. CASE UNCHANGED <<roles, named, grants, made, torn>>
  BY <1>1, <1>2, <1>3, QuietStep DEF Kept
<1>4. CASE ~UNCHANGED <<roles, named, grants, made, torn>>
  <2> DEFINE body == req[h].body
  <2>1. /\ torn' = torn
        /\ \E role \in RoleIds \ named :
             /\ roles' = roles \cup {role} /\ named' = named \cup {role}
             /\ grants' = grants \cup Added(role, body) /\ made' = made + Len(body)
    BY <1>4 DEF createRoleWithGrants, Refuse, Added
  <2>2. PICK role \in RoleIds \ named :
          /\ roles' = roles \cup {role} /\ named' = named \cup {role}
          /\ grants' = grants \cup Added(role, body) /\ made' = made + Len(body)
    BY <2>1
  <2>3. AskedInv'
    <3>1. named \subseteq named' /\ roles' \subseteq named'
      BY <2>2 DEF AskedInv
    <3> QED BY <1>2, <3>1, AskedGoesOn
  <2>4. CASE torn
    BY <2>1, <2>3, <2>4 DEF Kept, RoomInv, Ranked
  <2>5. CASE ~torn
    <3> DEFINE A == Added(role, body)
    <3>1. Numbered /\ body \in Bodies \cup {<< >>}
      BY <2>5 DEF RoomInv, AskedInv
    <3>2. Numbered' /\ \A g \in grants' : g \in grants \/ ~(g.id <= made)
      <4>1. roles \subseteq roles' /\ role \in roles'
        BY <2>2
      <4> HIDE DEF body
      <4> QED BY <2>2, <3>1, <4>1, NumberedAdded
    <3>3. /\ \A g \in A : g.role = role /\ ~(g.id <= made)
          /\ \A g, other \in A : g # other => g.weight # other.weight
      <4> HIDE DEF body
      <4>1. \A g \in A : g.role = role /\ g.id \in Nat /\ made < g.id
        BY <3>1, AddedRows
      <4>2. \A g, other \in A : g # other => g.weight # other.weight
        BY <3>1, AddedRows
      <4> QED BY <3>1, <4>1, <4>2 DEF Numbered
    <3>4. grants' = grants \cup A
      BY <2>2
    <3> HIDE DEF A
    <3>5. \A g \in grants : g.role # role
      BY <2>2, <3>1 DEF Numbered, AskedInv
    <3>6. A \cap grants = {}
      BY <3>3, <3>5
    <3>7. req'[h] = r /\ \A k \in Handlers \ {h} : req'[k] = req[k]
      BY <1>2, Others DEF GoesOn
    <3>8. \A k \in Handlers : Writing(k) => req[k].ids["roleId"] # role
      BY DEF AskedInv, Writing
    <3>9. ASSUME NEW k \in Handlers PROVE Fits(req[k])'
      <4>1. CASE k = h
        BY <1>2, <3>7, <4>1 DEF Fits, GoesOn
      <4>2. CASE k # h
        <5>1. Fits(req[k]) /\ req'[k] = req[k]
          BY <2>5, <3>7, <4>2 DEF RoomInv
        <5> QED BY <3>3, <3>4, <3>5, <3>6, <3>8, <5>1, FitsBesideNew
      <4> QED BY <4>1, <4>2
    <3>10. \A k \in Handlers : Writing(k)' <=> Writing(k)
      BY <1>1, <1>2, <3>7 DEF Writing, GoesOn
    <3>11. Apart(grants) => Apart(grants)'
      BY <3>3, <3>4, <3>5 DEF Apart, Rivals
    <3>12. RoomInv'
      BY <2>1, <2>5, <3>2, <3>9, <3>10, <3>11 DEF RoomInv
    <3>13. Ranked
      BY <2>1, <3>2, NoneMoves
    <3> QED BY <2>3, <3>12, <3>13 DEF Kept
  <2> QED BY <2>4, <2>5
<1> QED BY <1>3, <1>4

-----------------------------------------------------------------------------
(* Room is made *)

LEMMA LoneWriter ==
  ASSUME RoomInv, NEW h \in Handlers, NEW r, Goes(h, r), torn => torn',
         ~torn' => /\ \A k \in Handlers \ {h} : ~Writing(k)
                   /\ Numbered' /\ Fits(r)'
                   /\ r.step \notin {"shift", "raise", "write"} => Apart(grants)'
  PROVE  RoomInv'
<1> SUFFICES ASSUME ~torn' PROVE RoomInv'
  BY DEF RoomInv
<1>1. DOMAIN req' = Handlers /\ req'[h] = r /\ \A k \in Handlers \ {h} : req'[k] = req[k]
  BY Others
<1>2. \A k \in Handlers \ {h} : ~Writing(k)'
  BY <1>1 DEF Writing
<1>3. \A k \in Handlers : Fits(req[k])'
  <2> TAKE k \in Handlers
  <2>1. CASE k = h
    BY <1>1, <2>1
  <2>2. CASE k # h
    <3>1. req'[k].step \notin {"shift", "raise", "write"}
      BY <1>1, <2>2 DEF Writing
    <3> QED BY <3>1 DEF Fits
  <2> QED BY <2>1, <2>2
<1>4. (\A k \in Handlers : ~Writing(k)') => Apart(grants)'
  BY <1>1 DEF Writing
<1> QED BY <1>2, <1>3, <1>4 DEF RoomInv

LEMMA AloneAtWork ==
  ASSUME RoomInv, ~torn, NEW h \in Handlers, Writing(h)
  PROVE  (\A k \in Handlers \ {h} : ~Writing(k)) /\ Numbered /\ Fits(req[h])
  BY DEF RoomInv

\* An insertion goes on with what it came with.
LEMMA AskedWrites ==
  ASSUME AskedInv, NEW h \in Handlers, NEW r, Goes(h, r), Endpoint(h) \in Inserting,
         req[h].step \in {"handler", "shift", "raise", "write"},
         DOMAIN r = DOMAIN req[h], r.body = req[h].body, r.ep = req[h].ep, r.ids = req[h].ids,
         UNCHANGED <<roles, named>>
  PROVE  AskedInv'
<1>1. DOMAIN r = DOMAIN NoRequest /\ r.body \in Bodies \cup {<< >>}
  BY DEF AskedInv
<1>2. Routes[r.ep] \in Inserting /\ r.ids["roleId"] \in named'
  BY DEF AskedInv, Endpoint
<1>3. Routes[r.ep] = Role_updateGrant => Len(r.body) = 1
  BY DEF AskedInv, Endpoint
<1> QED BY <1>1, <1>2, <1>3, AskedGoes DEF AskedInv

LEMMA InsertKept ==
  ASSUME AskedInv, RoomInv, NEW h \in Handlers, Insert(h) PROVE Kept
<1>1. /\ req[h].step = "handler" /\ Endpoint(h) \in Inserting /\ Crossing(h)
      /\ UNCHANGED <<roles, named, grants, made>>
  BY DEF Insert, Arrived
<1>2. /\ DOMAIN req[h] = DOMAIN NoRequest /\ DOMAIN req = Handlers
      /\ req[h].body \in Bodies \cup {<< >>}
  BY DEF AskedInv
<1>3. PICK r : /\ Goes(h, r)
               /\ r = [req[h] EXCEPT !.step = "shift",
                         !.todo = [i \in 1..Len(req[h].body) |-> req[h].body[i].weight]]
  BY <1>2 DEF Insert, Step, Goes
<1>4. /\ DOMAIN r = DOMAIN req[h] /\ r.body = req[h].body /\ r.ep = req[h].ep
      /\ r.ids = req[h].ids /\ r.step = "shift"
      /\ r.todo = [i \in 1..Len(r.body) |-> r.body[i].weight]
  BY <1>2, <1>3, NoRequestShape
<1>5. AskedInv'
  BY <1>1, <1>3, <1>4, AskedWrites
<1>6. Len(r.body) \in Nat /\ \A i \in 1..Len(r.body) : r.body[i].weight \in Int
  BY <1>2, <1>4, BodyFacts
<1>7. r.todo \in Seq(Int) /\ Len(r.todo) = Len(r.body)
  BY <1>4, <1>6
<1>8. AsBrought(r) /\ Behind(r) = 0
  BY <1>4, <1>6, <1>7 DEF AsBrought, Behind
<1>9. ASSUME ~torn' PROVE /\ \A k \in Handlers \ {h} : ~Writing(k)
                          /\ Numbered' /\ Fits(r)'
  <2>1. ~torn /\ \A k \in Handlers : ~Writing(k)
    BY <1>1, <1>9 DEF Crossing, Writing
  <2>2. Numbered' /\ Apart(grants)'
    BY <1>1, <2>1 DEF RoomInv, Numbered, Apart, Rivals
  <2>3. AsBrought(r)' /\ Cleared(r, Behind(r))'
    <3>1. Cleared(r, 0)'
      BY DEF Cleared
    <3> QED BY <1>8, <3>1 DEF AsBrought, Behind
  <2> QED BY <1>4, <2>1, <2>2, <2>3 DEF Fits
<1>10. torn => torn'
  BY <1>1 DEF Crossing
<1>11. RoomInv' /\ Ranked
  BY <1>1, <1>3, <1>4, <1>9, <1>10, LoneWriter, NoneMoves
<1> QED BY <1>5, <1>11 DEF Kept

LEMMA ReadHigherKept ==
  ASSUME AskedInv, RoomInv, NEW h \in Handlers, updateHigherGrants(h) PROVE Kept
<1>1. req[h].step = "shift" /\ Writing(h) /\ UNCHANGED <<roles, named, grants, made, torn>>
  BY DEF updateHigherGrants, Writing
<1>2. /\ DOMAIN req[h] = DOMAIN NoRequest /\ DOMAIN req = Handlers
      /\ Endpoint(h) \in Inserting /\ req[h].body \in Bodies \cup {<< >>}
  BY <1>1 DEF AskedInv
<1>3. PICK q : q = req[h]
  OBVIOUS
<1>4. PICK weight : weight = Head(q.todo)
  OBVIOUS
<1> DEFINE higher == {g \in grants : g.role = q.ids["roleId"] /\ g.weight >= weight}
<1>5. CASE q.todo = << >>
  <2>1. PICK r : Goes(h, r) /\ r = [q EXCEPT !.step = "write"]
    BY <1>2, <1>3, <1>5 DEF updateHigherGrants, Step, Goes
  <2>2. /\ DOMAIN r = DOMAIN q /\ r.body = q.body /\ r.ep = q.ep
        /\ r.ids = q.ids /\ r.step = "write"
    BY <1>2, <1>3, <2>1, NoRequestShape
  <2>3. AskedInv'
    BY <1>1, <1>2, <1>3, <2>1, <2>2, AskedWrites
  <2>4. ASSUME ~torn' PROVE /\ \A k \in Handlers \ {h} : ~Writing(k)
                            /\ Numbered' /\ Fits(r)'
    <3>1. (\A k \in Handlers \ {h} : ~Writing(k)) /\ Numbered /\ Fits(q)
      BY <1>1, <1>3, <2>4, AloneAtWork
    <3>2. Apart(grants) /\ Cleared(q, Len(q.body))
      BY <1>1, <1>2, <1>3, <1>5, <3>1, BodyFacts DEF Fits, Behind
    <3>3. Apart(grants)' /\ Cleared(r, Len(r.body))' /\ Numbered'
      BY <1>1, <2>2, <3>1, <3>2 DEF Apart, Rivals, Cleared, Numbered
    <3> QED BY <2>2, <3>1, <3>3 DEF Fits
  <2> QED BY <1>1, <2>1, <2>2, <2>3, <2>4, LoneWriter, NoneMoves DEF Kept
<1>6. CASE q.todo # << >>
  <2>1. PICK r : /\ Goes(h, r)
                 /\ r = [q EXCEPT !.step = "raise", !.todo = Tail(@), !.prev = weight,
                                  !.higher = higher]
    BY <1>2, <1>3, <1>4, <1>6 DEF updateHigherGrants, Step, Goes
  <2>2. /\ DOMAIN r = DOMAIN q /\ r.body = q.body /\ r.ep = q.ep
        /\ r.ids = q.ids /\ r.step = "raise" /\ r.todo = Tail(q.todo)
        /\ r.prev = weight /\ r.higher = higher
    BY <1>2, <1>3, <2>1, NoRequestShape
  <2> HIDE DEF higher
  <2>3. AskedInv'
    BY <1>1, <1>2, <1>3, <2>1, <2>2, AskedWrites
  <2>4. ASSUME ~torn' PROVE /\ \A k \in Handlers \ {h} : ~Writing(k)
                            /\ Numbered' /\ Fits(r)'
    <3>1. (\A k \in Handlers \ {h} : ~Writing(k)) /\ Numbered /\ Fits(q)
      BY <1>1, <1>3, <2>4, AloneAtWork
    <3>2. AsBrought(q) /\ Apart(grants) /\ Cleared(q, Behind(q))
      BY <1>1, <1>3, <3>1 DEF Fits
    <3>3. Len(q.body) \in Nat /\ \A i \in 1..Len(q.body) : q.body[i].weight \in Int
      BY <1>2, <1>3, BodyFacts
    <3>4. /\ Len(q.todo) \in Nat \ {0} /\ Len(q.todo) <= Len(q.body)
          /\ r.todo \in Seq(Int) /\ Len(r.todo) = Len(q.todo) - 1 /\ weight = q.todo[1]
          /\ \A i \in 1..Len(r.todo) : r.todo[i] = q.todo[i + 1]
      BY <1>4, <1>6, <2>2, <3>2 DEF AsBrought
    <3>5. Behind(r) = Behind(q) + 1 /\ Behind(q) \in Nat /\ Behind(r) \in 1..Len(r.body)
      <4>1. Behind(q) = Len(q.body) - Len(q.todo)
        BY DEF Behind
      <4>2. Behind(r) = Len(q.body) - (Len(q.todo) - 1) /\ Len(r.body) = Len(q.body)
        BY <2>2, <3>4 DEF Behind
      <4>3. Len(q.body) \in Nat /\ Len(q.todo) \in Nat \ {0} /\ Len(q.todo) <= Len(q.body)
        BY <3>3, <3>4
      <4>4. \A n, t \in Nat : t # 0 /\ t <= n =>
              n - (t - 1) = (n - t) + 1 /\ n - t \in Nat /\ n - (t - 1) \in 1..n
        OBVIOUS
      <4> QED BY <4>1, <4>2, <4>3, <4>4
    <3>6. AsBrought(r)
      <4>1. \A i \in 1..Len(r.todo) : r.todo[i] = q.body[Behind(q) + (i + 1)].weight
        BY <3>2, <3>4 DEF AsBrought
      <4>2. \A i \in 1..Len(r.todo) : Behind(q) + (i + 1) = Behind(r) + i
        BY <3>4, <3>5
      <4>3. \A i \in 1..Len(r.todo) : r.todo[i] = r.body[Behind(r) + i].weight
        BY <2>2, <4>1, <4>2
      <4>4. Len(r.todo) <= Len(r.body)
        BY <2>2, <3>3, <3>4
      <4> QED BY <3>4, <4>3, <4>4 DEF AsBrought
    <3>7. weight = r.body[Behind(r)].weight /\ weight \in Int
      <4>1. 1 \in 1..Len(q.todo) /\ q.todo[1] = q.body[Behind(q) + 1].weight
        BY <3>2, <3>4 DEF AsBrought
      <4>2. weight = r.body[Behind(r)].weight
        BY <2>2, <3>4, <3>5, <4>1
      <4> QED BY <2>2, <3>3, <3>5, <4>2
    <3>8. Raises(r)
      <4>1. /\ r.higher \subseteq grants
            /\ \A g \in r.higher : g.role = r.ids["roleId"] /\ weight <= g.weight
            /\ \A g \in grants \ r.higher : g.role = r.ids["roleId"] => g.weight < weight
        BY <2>2, <3>1, <3>7 DEF higher, Numbered
      <4>2. \A g \in grants \ r.higher : g.role = r.ids["roleId"] =>
              g.weight <= weight /\ g.weight # weight
        BY <3>1, <3>7, <4>1 DEF Numbered
      <4>3. Apart(r.higher) /\ Apart(grants \ r.higher)
        BY <3>2, <4>1 DEF Apart
      <4> QED BY <2>2, <3>5, <3>7, <4>1, <4>2, <4>3 DEF Raises
    <3>9. Cleared(r, Behind(r) - 1)
      BY <2>2, <3>2, <3>5 DEF Cleared
    <3>10. Fits(r)' /\ Numbered'
      <4>1. Raises(r)' /\ AsBrought(r)'
        BY <1>1, <3>6, <3>8 DEF Raises, AsBrought, Behind, Apart, Rivals
      <4>2. Cleared(r, Behind(r) - 1)'
        BY <1>1, <3>9 DEF Cleared, Behind
      <4>3. Numbered'
        BY <1>1, <3>1 DEF Numbered
      <4> QED BY <2>2, <4>1, <4>2, <4>3 DEF Fits
    <3> QED BY <3>1, <3>10
  <2> QED BY <1>1, <2>1, <2>2, <2>3, <2>4, LoneWriter, NoneMoves DEF Kept
<1> QED BY <1>5, <1>6

LEMMA EndsTorn ==
  ASSUME AskedInv, NEW h \in Handlers, req[h].step # "idle", torn',
         NEW status, Answer(h, status, "handler"), UNCHANGED <<roles, named>>
  PROVE  Kept
<1>1. PICK r : GoesOn(h, r)
  BY AnswerGoes
<1>2. AskedInv'
  BY <1>1, AskedGoesOn DEF AskedInv
<1> QED BY <1>2 DEF Kept, RoomInv, Ranked

\* The rows that wait are at prev or above, so the one at prev is the lightest;
\* after it has gone up by one those that still wait are no lighter than it.
LEMMA RaiseKept ==
  ASSUME Climbing, AskedInv, RoomInv, NEW h \in Handlers, Raise(h) PROVE Kept
<1>1. req[h].step = "raise" /\ Writing(h) /\ UNCHANGED <<roles, named, made>>
  BY DEF Raise, Writing
<1>2. /\ DOMAIN req[h] = DOMAIN NoRequest /\ DOMAIN req = Handlers
      /\ Endpoint(h) \in Inserting /\ req[h].body \in Bodies \cup {<< >>}
  BY <1>1 DEF AskedInv
<1>3. CASE torn' /\ Answer(h, "500", "handler")
  BY <1>1, <1>3, EndsTorn
<1>4. PICK q : q = req[h]
  OBVIOUS
<1>5. PICK g : g \in Lowest(q.higher) /\ g.weight = q.prev
            /\ \/ /\ \E now \in grants : now.id = g.id
                  /\ grants' = {now \in grants : now.id # g.id}
                                 \cup {[g EXCEPT !.weight = @ + 1]}
                  /\ Step(h, [q EXCEPT !.prev = @ + 1, !.higher = @ \ {g}])
                  /\ torn' = torn
               \/ torn' /\ Answer(h, "500", "handler")
  BY <1>4 DEF Raise
<1>6. CASE ~(torn' /\ Answer(h, "500", "handler"))
  <2> DEFINE up == [g EXCEPT !.weight = @ + 1]
  <2>1. /\ grants' = {now \in grants : now.id # g.id} \cup {up}
        /\ Step(h, [q EXCEPT !.prev = @ + 1, !.higher = @ \ {g}]) /\ torn' = torn
    BY <1>5, <1>6
  <2>2. PICK r : Goes(h, r) /\ r = [q EXCEPT !.prev = @ + 1, !.higher = @ \ {g}]
    BY <1>2, <2>1 DEF Step, Goes
  <2>3. /\ DOMAIN r = DOMAIN q /\ r.body = q.body /\ r.ep = q.ep /\ r.ids = q.ids
        /\ r.todo = q.todo /\ r.step = "raise" /\ r.prev = q.prev + 1 /\ r.higher = q.higher \ {g}
    BY <1>1, <1>2, <1>4, <2>2, NoRequestShape
  <2>4. AskedInv'
    BY <1>1, <1>2, <1>4, <2>2, <2>3, AskedWrites
  <2>5. CASE torn
    BY <2>1, <2>4, <2>5 DEF Kept, RoomInv, Ranked
  <2>6. CASE ~torn
    <3>1. (\A k \in Handlers \ {h} : ~Writing(k)) /\ Numbered /\ Fits(q)
      BY <1>1, <1>4, <2>6, AloneAtWork
    <3>2. AsBrought(q) /\ Raises(q) /\ Cleared(q, Behind(q) - 1)
      BY <1>1, <1>4, <3>1 DEF Fits
    <3>3. /\ g \in q.higher /\ g \in grants /\ g.role = q.ids["roleId"]
          /\ q.prev \in Int /\ g.weight = q.prev
      BY <1>5, <3>2 DEF Lowest, Raises
    <3>4. /\ up.id = g.id /\ up.role = g.role /\ up.weight = q.prev + 1
          /\ DOMAIN up = DOMAIN g
      BY <3>1, <3>3 DEF Numbered
    <3> HIDE DEF up
    <3>5. grants' = (grants \ {g}) \cup {up}
      BY <2>1, <3>1, <3>3 DEF Numbered
    <3>6. /\ Len(q.body) \in Nat /\ \A i \in 1..Len(q.body) : q.body[i].weight \in Int
          /\ \A i, j \in 1..Len(q.body) : i < j => q.body[i].weight < q.body[j].weight
      BY <1>2, <1>4, BodyFacts
    <3>7. Numbered'
      <4>1. \A row \in grants' :
              /\ row.id \in Nat /\ row.id <= made' /\ row.weight \in Int /\ row.role \in roles'
              /\ DOMAIN row = {"id", "role", "permission", "set", "weight"}
        BY <1>1, <3>1, <3>3, <3>4, <3>5 DEF Numbered
      <4>2. \A row, other \in grants' : row.id = other.id => row = other
        BY <3>1, <3>3, <3>4, <3>5 DEF Numbered
      <4> QED BY <1>1, <3>1, <4>1, <4>2 DEF Numbered
    <3>8. \A row \in r.higher : row \in grants /\ row # g /\ row.role = q.ids["roleId"]
                               /\ q.prev + 1 <= row.weight
      <4> TAKE row \in r.higher
      <4>1. row \in q.higher /\ row # g /\ row \in grants
        BY <2>3, <3>2 DEF Raises
      <4>2. row.role = q.ids["roleId"] /\ q.prev <= row.weight /\ row.weight \in Int
        BY <3>1, <3>2, <4>1 DEF Raises, Numbered
      <4>3. row.weight # q.prev
        BY <3>2, <3>3, <4>1, <4>2 DEF Raises, Apart, Rivals
      <4> QED BY <3>3, <4>1, <4>2, <4>3
    <3>9. up \notin r.higher
      BY <3>1, <3>3, <3>4, <3>8 DEF Numbered
    <3>10. grants' \ r.higher = (grants \ q.higher) \cup {up}
      BY <2>3, <3>2, <3>3, <3>5, <3>9 DEF Raises
    <3>11. \A row \in grants \ q.higher : row.role = q.ids["roleId"] =>
             row.weight < q.prev + 1 /\ row.weight # q.body[Behind(q)].weight
      BY <3>1, <3>2, <3>3 DEF Raises, Numbered
    <3>12. Apart(r.higher) /\ Apart((grants \ q.higher) \cup {up})
      <4>1. Apart(r.higher)
        BY <2>3, <3>2 DEF Raises, Apart
      <4>2. \A row \in grants \ q.higher : row.role = up.role => row.weight # up.weight
        BY <3>1, <3>3, <3>4, <3>11 DEF Numbered
      <4>3. Apart((grants \ q.higher) \cup {up})
        BY <3>2, <4>2 DEF Raises, Apart, Rivals
      <4> QED BY <4>1, <4>3
    <3>13. Behind(q) \in 1..Len(q.body) /\ q.body[Behind(q)].weight <= q.prev
           /\ q.body[Behind(q)].weight \in Int
      BY <3>2, <3>6 DEF Raises
    <3>14. Raises(r)'
      <4>1. Behind(r)' = Behind(q) /\ Behind(r)' \in 1..Len(r.body)
        BY <2>3, <3>13 DEF Behind
      <4>2. r.higher \subseteq grants'
        BY <3>5, <3>8
      <4>3. \A row \in grants' \ r.higher : row.role = r.ids["roleId"] =>
              row.weight <= r.prev /\ row.weight # r.body[Behind(q)].weight
        BY <2>3, <3>1, <3>3, <3>4, <3>10, <3>11, <3>13 DEF Numbered
      <4>4. Apart(r.higher)' /\ Apart(grants \ r.higher)'
        BY <3>10, <3>12 DEF Apart, Rivals
      <4>5. r.prev \in Int /\ r.body[Behind(q)].weight <= r.prev
        BY <2>3, <3>3, <3>13
      <4> QED BY <2>3, <3>8, <4>1, <4>2, <4>3, <4>4, <4>5 DEF Raises
    <3>15. Cleared(r, Behind(r) - 1)'
      <4>1. \A i \in 1..(Behind(q) - 1) : q.body[i].weight < q.prev + 1
                                          /\ q.body[i].weight \in Int
        BY <3>3, <3>6, <3>13, SMTT(40)
      <4>2. \A row \in grants', i \in 1..(Behind(q) - 1) :
              row.role = q.ids["roleId"] => row.weight # q.body[i].weight
        BY <3>2, <3>3, <3>4, <3>5, <4>1 DEF Cleared
      <4>3. Behind(r)' = Behind(q)
        BY <2>3 DEF Behind
      <4> QED BY <2>3, <4>2, <4>3 DEF Cleared
    <3>16. AsBrought(r)'
      BY <2>3, <3>2 DEF AsBrought, Behind
    <3>17. Fits(r)'
      BY <2>3, <3>14, <3>15, <3>16 DEF Fits
    <3>18. RoomInv'
      BY <2>1, <2>2, <2>3, <3>1, <3>7, <3>17, LoneWriter
    <3>19. Ranked
      <4> SUFFICES ASSUME NEW one \in grants, NEW other \in grants,
                          NEW now \in grants', NEW otherNow \in grants',
                          now.id = one.id, otherNow.id = other.id,
                          one.role = other.role, one.weight > other.weight
                   PROVE  now.weight >= otherNow.weight
        BY DEF Ranked
      <4>1. now = IF one = g THEN up ELSE one
        BY <3>1, <3>3, <3>4, <3>5 DEF Numbered
      <4>2. otherNow = IF other = g THEN up ELSE other
        BY <3>1, <3>3, <3>4, <3>5 DEF Numbered
      <4>3. one.weight \in Int /\ other.weight \in Int
        BY <3>1 DEF Numbered
      <4> QED BY <3>3, <3>4, <4>1, <4>2, <4>3
    <3> QED BY <2>4, <3>18, <3>19 DEF Kept
  <2> QED BY <2>5, <2>6
<1> QED BY <1>3, <1>6

\* None waits at prev: whoever weighs as much is the lightest of those that wait.
LEMMA RaisedKept ==
  ASSUME AskedInv, RoomInv, NEW h \in Handlers, Raised(h) PROVE Kept
<1>1. req[h].step = "raise" /\ Writing(h) /\ UNCHANGED <<roles, named, grants, made, torn>>
  BY DEF Raised, Writing
<1>2. /\ DOMAIN req[h] = DOMAIN NoRequest /\ DOMAIN req = Handlers
      /\ Endpoint(h) \in Inserting /\ req[h].body \in Bodies \cup {<< >>}
  BY <1>1 DEF AskedInv
<1>3. PICK q : q = req[h]
  OBVIOUS
<1>4. PICK r : Goes(h, r) /\ r = [q EXCEPT !.step = "shift", !.prev = 0, !.higher = {}]
  BY <1>2, <1>3 DEF Raised, Step, Goes
<1>5. /\ DOMAIN r = DOMAIN q /\ r.body = q.body /\ r.ep = q.ep /\ r.ids = q.ids
      /\ r.todo = q.todo /\ r.step = "shift"
  BY <1>2, <1>3, <1>4, NoRequestShape
<1>6. AskedInv'
  BY <1>1, <1>2, <1>3, <1>4, <1>5, AskedWrites
<1>7. ASSUME ~torn' PROVE /\ \A k \in Handlers \ {h} : ~Writing(k)
                          /\ Numbered' /\ Fits(r)'
  <2>1. (\A k \in Handlers \ {h} : ~Writing(k)) /\ Numbered /\ Fits(q)
    BY <1>1, <1>3, <1>7, AloneAtWork
  <2>2. AsBrought(q) /\ Raises(q) /\ Cleared(q, Behind(q) - 1)
    BY <1>1, <1>3, <2>1 DEF Fits
  <2>3. Len(q.body) \in Nat /\ \A i \in 1..Len(q.body) : q.body[i].weight \in Int
    BY <1>2, <1>3, BodyFacts
  <2>4. Behind(q) \in 1..Len(q.body) /\ q.body[Behind(q)].weight <= q.prev /\ q.prev \in Int
    BY <2>2 DEF Raises
  <2>5. \A g \in q.higher : g.role = q.ids["roleId"] /\ q.prev < g.weight /\ g \in grants
    <3> TAKE g \in q.higher
    <3>1. \A other \in q.higher : q.prev <= other.weight
      BY <2>2 DEF Raises
    <3>2. g.weight # q.prev
      BY <1>3, <3>1 DEF Raised, Lowest
    <3>3. g \in grants /\ g.weight \in Int
      BY <2>1, <2>2 DEF Raises, Numbered
    <3> QED BY <2>2, <2>4, <3>1, <3>2, <3>3 DEF Raises
  <2>6. \A g \in grants : g.role = q.ids["roleId"] => g.weight # q.body[Behind(q)].weight
    <3> TAKE g \in grants
    <3>1. CASE g \in q.higher
      BY <2>1, <2>3, <2>4, <2>5, <3>1 DEF Numbered
    <3>2. CASE g \notin q.higher
      BY <2>2, <3>2 DEF Raises
    <3> QED BY <3>1, <3>2
  <2>7. Apart(grants)
    <3> SUFFICES ASSUME NEW g \in grants, NEW other \in grants, Rivals(g, other) PROVE FALSE
      BY DEF Apart
    <3>1. g.role = other.role /\ g.weight = other.weight /\ g # other
          /\ g.weight \in Int /\ other.weight \in Int
      BY <2>1 DEF Rivals, Numbered
    <3>2. CASE g \in q.higher /\ other \in q.higher
      BY <2>2, <3>2 DEF Raises, Apart
    <3>3. CASE g \notin q.higher /\ other \notin q.higher
      BY <2>2, <3>3 DEF Raises, Apart
    <3>4. CASE g \in q.higher /\ other \notin q.higher
      BY <2>2, <2>4, <2>5, <3>1, <3>4 DEF Raises
    <3>5. CASE g \notin q.higher /\ other \in q.higher
      BY <2>2, <2>4, <2>5, <3>1, <3>5 DEF Raises
    <3> QED BY <3>2, <3>3, <3>4, <3>5
  <2>8. Cleared(q, Behind(q))
    <3>1. \A i \in 1..Behind(q) : i = Behind(q) \/ i \in 1..(Behind(q) - 1)
      BY <2>3, <2>4
    <3> QED BY <2>2, <2>6, <3>1 DEF Cleared
  <2>9. Fits(r)' /\ Numbered'
    <3>1. AsBrought(r)' /\ Behind(r)' = Behind(q)
      BY <1>5, <2>2 DEF AsBrought, Behind
    <3>2. Cleared(r, Behind(r))'
      BY <1>1, <1>5, <2>8, <3>1 DEF Cleared
    <3>3. Apart(grants)' /\ Numbered'
      BY <1>1, <2>1, <2>7 DEF Apart, Rivals, Numbered
    <3> QED BY <1>5, <3>1, <3>2, <3>3 DEF Fits
  <2> QED BY <2>1, <2>9
<1> QED BY <1>1, <1>4, <1>5, <1>6, <1>7, LoneWriter, NoneMoves DEF Kept

LEMMA CreateKept ==
  ASSUME Climbing, AskedInv, RoomInv, NEW h \in Handlers, Create(h) PROVE Kept
<1>1. /\ req[h].step = "write" /\ Writing(h) /\ req[h].step # "idle"
      /\ UNCHANGED <<roles, named>>
  BY DEF Create, Writing
<1>2. PICK q : q = req[h]
  OBVIOUS
<1>3. q.body \in Bodies \cup {<< >>}
  BY <1>2 DEF AskedInv
<1>4. CASE torn'
  BY <1>1, <1>4, EndsTorn DEF Create
<1>5. CASE ~torn'
  <2> DEFINE role == q.ids["roleId"]
             A == Added(role, q.body)
  <2>1. /\ role \in roles /\ grants' = grants \cup A /\ made' = made + Len(q.body)
        /\ Answer(h, "served", "handler") /\ ~torn
    BY <1>2, <1>5 DEF Create, Added
  <2>2. PICK r : GoesOn(h, r)
    BY <1>1, <2>1, AnswerGoes
  <2>3. AskedInv'
    BY <1>1, <2>2, AskedGoesOn DEF AskedInv
  <2>4. (\A k \in Handlers \ {h} : ~Writing(k)) /\ Numbered /\ Fits(q)
    BY <1>1, <1>2, <2>1, AloneAtWork
  <2>5. Apart(grants) /\ Cleared(q, Len(q.body))
    BY <1>1, <1>2, <2>4 DEF Fits
  <2>6. Numbered' /\ \A g \in grants' : g \in grants \/ ~(g.id <= made)
    BY <1>1, <1>3, <2>1, <2>4, NumberedAdded
  <2>7. /\ \A g \in A : g.role = role /\ \E i \in 1..Len(q.body) : g.weight = q.body[i].weight
        /\ \A g, other \in A : g # other => g.weight # other.weight
    BY <1>3, <2>4, AddedRows
  <2> HIDE DEF A
  <2>8. Apart(grants)'
    <3>1. \A g \in grants, other \in A : g.role = role => g.weight # other.weight
      BY <2>5, <2>7 DEF Cleared
    <3> QED BY <2>1, <2>5, <2>7, <3>1 DEF Apart, Rivals
  <2>9. Goes(h, r) /\ r.step \notin {"shift", "raise", "write"}
    BY <2>2 DEF GoesOn
  <2>10. Fits(r)'
    BY <2>9 DEF Fits
  <2>11. RoomInv'
    BY <2>1, <2>4, <2>6, <2>8, <2>9, <2>10, LoneWriter
  <2>12. Ranked
    BY <2>1, <2>6, NoneMoves
  <2> QED BY <2>3, <2>11, <2>12 DEF Kept
<1> QED BY <1>4, <1>5

\* What is written at the weight that was cleared is the row's only change of
\* place that is not a step of one.
LEMMA UpdateKept ==
  ASSUME AskedInv, RoomInv, NEW h \in Handlers, Update(h) PROVE Kept
<1>1. /\ req[h].step = "write" /\ Writing(h) /\ req[h].step # "idle"
      /\ UNCHANGED <<roles, named, made>>
  BY DEF Update, Writing
<1>2. PICK q : q = req[h]
  OBVIOUS
<1>3. q.body \in Bodies \cup {<< >>} /\ Len(q.body) = 1
  BY <1>1, <1>2 DEF AskedInv, Update
<1>4. CASE torn'
  BY <1>1, <1>4, EndsTorn DEF Update, AskedInv, Kept, RoomInv, Ranked
<1>5. CASE ~torn'
  <2> DEFINE its == Named(q.ids)
             weight == q.body[1].weight
             New == {Row(g.id, g.role, q.body[1]) : g \in its}
  <2>1. /\ grants' = (grants \ its) \cup New
        /\ Answer(h, "served", "handler") /\ ~torn
        /\ \A g \in its : g.role = q.ids["roleId"]
    BY <1>2, <1>5 DEF Update
  <2>2. PICK r : GoesOn(h, r)
    BY <1>1, <2>1, AnswerGoes
  <2>3. AskedInv'
    BY <1>1, <2>2, AskedGoesOn DEF AskedInv
  <2>4. (\A k \in Handlers \ {h} : ~Writing(k)) /\ Numbered /\ Fits(q)
    BY <1>1, <1>2, <2>1, AloneAtWork
  <2>5. Apart(grants) /\ Cleared(q, Len(q.body))
    BY <1>1, <1>2, <2>4 DEF Fits
  <2>6. weight \in Int
    BY <1>3, BodyFacts
  <2>7. its \subseteq grants /\ \A g, other \in its : g = other
    BY <2>4 DEF Named, Numbered
  <2>8. ASSUME NEW new \in New
        PROVE  \E g \in its : /\ new.id = g.id /\ new.role = g.role /\ new.weight = weight
                              /\ DOMAIN new = {"id", "role", "permission", "set", "weight"}
    <3>1. PICK g \in its : new = Row(g.id, g.role, q.body[1])
      OBVIOUS
    <3> QED BY <3>1, RowShape
  <2>9. \A new, other \in New : new = other
    BY <2>7
  <2> HIDE DEF New, its, weight
  <2>10. Numbered'
    <3>1. \A g \in grants' :
            /\ g.id \in Nat /\ g.id <= made' /\ g.weight \in Int /\ g.role \in roles'
            /\ DOMAIN g = {"id", "role", "permission", "set", "weight"}
      BY <1>1, <2>1, <2>4, <2>6, <2>7, <2>8 DEF Numbered
    <3>2. \A g, other \in grants' : g.id = other.id => g = other
      BY <2>1, <2>4, <2>7, <2>8, <2>9 DEF Numbered
    <3> QED BY <1>1, <2>4, <3>1, <3>2 DEF Numbered
  <2>11. Apart(grants)'
    <3>1. \A g \in grants : g.role = q.ids["roleId"] => g.weight # weight
      BY <1>3, <2>5 DEF Cleared, weight
    <3>2. \A new \in New : new.role = q.ids["roleId"] /\ new.weight = weight
      BY <2>1, <2>8
    <3>3. Apart(grants')
      BY <2>1, <2>5, <2>9, <3>1, <3>2 DEF Apart, Rivals
    <3> QED BY <3>3 DEF Apart, Rivals
  <2>12. Goes(h, r) /\ r.step \notin {"shift", "raise", "write"}
    BY <2>2 DEF GoesOn
  <2>13. Fits(r)'
    BY <2>12 DEF Fits
  <2>14. RoomInv'
    BY <2>1, <2>4, <2>10, <2>11, <2>12, <2>13, LoneWriter
  <2>15. Ranked
    <3> SUFFICES ASSUME NEW g \in grants, NEW other \in grants,
                        NEW gNow \in grants', NEW otherNow \in grants',
                        gNow.id = g.id, otherNow.id = other.id, g.weight > other.weight,
                        ~Updated(h, g), ~Updated(h, other)
                 PROVE  gNow.weight >= otherNow.weight
      BY DEF Ranked
    <3>1. g \notin its /\ other \notin its
      BY <1>1, <1>2 DEF Updated, Update, its
    <3>2. gNow = g /\ otherNow = other
      BY <2>1, <2>4, <2>7, <2>8, <3>1 DEF Numbered
    <3> QED BY <2>4, <3>2 DEF Numbered
  <2> QED BY <2>3, <2>14, <2>15 DEF Kept
<1> QED BY <1>4, <1>5

-----------------------------------------------------------------------------
(* The weights of grants *)

LEMMA InitAsked == Init => AskedInv
  BY NoRequestShape DEF Init, AskedInv, Writing, Endpoint

LEMMA InitRoom == Init => RoomInv
<1> SUFFICES ASSUME Init PROVE RoomInv
  OBVIOUS
<1> DEFINE one == Row(1, "1", Grant(<<"*">>, TRUE, 1))
           two == Row(2, "1", Grant(<<"groups", "*">>, FALSE, 2))
<1>1. /\ one.id = 1 /\ one.weight = 1 /\ two.id = 2 /\ two.weight = 2
      /\ one.role = "1" /\ two.role = "1"
      /\ DOMAIN one = {"id", "role", "permission", "set", "weight"}
      /\ DOMAIN two = {"id", "role", "permission", "set", "weight"}
  BY DEF Row, Grant
<1>2. grants = {one, two} /\ made = 2 /\ roles = {"1"}
  BY DEF Init
<1> HIDE DEF one, two
<1>3. Numbered
  BY <1>1, <1>2 DEF Numbered
<1>4. Apart(grants)
  BY <1>1, <1>2 DEF Apart, Rivals
<1>5. \A h \in Handlers : req[h].step = "idle"
  BY NoRequestShape DEF Init
<1> QED BY <1>3, <1>4, <1>5 DEF RoomInv, Fits, Writing

LEMMA StepKept ==
  ASSUME Climbing, AskedInv, RoomInv, Next PROVE Kept
<1>1. CASE \E h \in Handlers : req[h].step = "idle" /\ \E e \in Sendable :
             \E by \in Senders(e), ids \in IdsFor(e), query \in QueriesFor(e),
                body \in BodiesFor(e) : Send(h, e, by, ids, query, body)
  BY <1>1, SendKept DEF Sendable
<1>2. ASSUME NEW h \in Handlers,
             \/ NoGuards(h) \/ JwtGuard(h) \/ TelegramGuard(h) \/ LocalGuard(h)
             \/ GroupByDisciplineGuard(h) \/ GroupByDisciplineTeacherGuard(h)
             \/ GroupByEventGuard(h) \/ getPermissions(h) \/ PermissionGuard(h)
             \/ Pipes(h) \/ Serve(h) \/ Done(h)
      PROVE  Kept
  BY <1>2, GuardKept, PipesKept, DoneKept
<1>3. ASSUME NEW h \in Handlers,
             \/ giveRole(h) \/ removeRole(h) \/ createRole(h) \/ createRoleWithGrants(h)
             \/ deleteRole(h) \/ deleteGrant(h)
      PROVE  Kept
  BY <1>3, HeldKept, CreateRoleKept, CreateWithGrantsKept, DeletionKept
<1>4. ASSUME NEW h \in Handlers,
             \/ Insert(h) \/ updateHigherGrants(h) \/ Raise(h) \/ Raised(h)
             \/ Create(h) \/ Update(h)
      PROVE  Kept
  BY <1>4, InsertKept, ReadHigherKept, RaiseKept, RaisedKept, CreateKept, UpdateKept
<1> QED BY <1>1, <1>2, <1>3, <1>4 DEF Next

LEMMA StutterKept == AskedInv /\ RoomInv /\ UNCHANGED vars => AskedInv' /\ RoomInv'
<1> SUFFICES ASSUME AskedInv, RoomInv, UNCHANGED vars PROVE AskedInv' /\ RoomInv'
  OBVIOUS
<1>1. UNCHANGED <<req, roles, named, grants, made, torn>>
  BY DEF vars
<1>2. AskedInv'
  BY <1>1 DEF AskedInv, Endpoint, Writing
<1>3. \A k \in Handlers : Fits(req[k]) => Fits(req[k])'
  BY <1>1, FitsStays
<1>4. RoomInv'
  BY <1>1, <1>3 DEF RoomInv, Numbered, Writing, Apart, Rivals
<1> QED BY <1>2, <1>4

LEMMA RoomMeansTiesPass == AskedInv /\ RoomInv => TiesPass
<1> SUFFICES ASSUME AskedInv, RoomInv, ~torn, NEW g \in grants, NEW other \in grants,
                    Rivals(g, other)
             PROVE  \E h \in Handlers : Raising(h, g) /\ {g, other} \cap req[h].higher # {}
  BY DEF TiesPass
<1>1. PICK h \in Handlers : Writing(h)
  BY DEF RoomInv, Apart
<1>2. Fits(req[h]) /\ Numbered
  BY DEF RoomInv
<1>3. req[h].step = "raise" /\ Raises(req[h])
  BY <1>1, <1>2 DEF Fits, Writing, Apart
<1>4. g.weight \in Int /\ g.weight = other.weight /\ g.role = other.role /\ g # other
  BY <1>2 DEF Numbered, Rivals
<1>5. {g, other} \cap req[h].higher # {} /\ ~({g, other} \subseteq req[h].higher)
  BY <1>3 DEF Raises, Apart
<1>6. req[h].prev = g.weight /\ req[h].ids["roleId"] = g.role
  BY <1>3, <1>4, <1>5 DEF Raises
<1> QED BY <1>3, <1>5, <1>6 DEF Raising

\* Whoever inserts grants, any number of them at any weights: until two insertions
\* cross or one is cut short, two grants of a role weigh the same only while the one
\* in the other's way is about to be raised (RoleService.ts:112-154).
THEOREM TiesAlwaysPass == ASSUME Climbing PROVE Spec => []TiesPass
<1>1. Init => AskedInv /\ RoomInv
  BY InitAsked, InitRoom
<1>2. AskedInv /\ RoomInv /\ [Next]_vars => AskedInv' /\ RoomInv'
  BY Climbing, StepKept, StutterKept DEF Kept
<1> QED BY <1>1, <1>2, RoomMeansTiesPass, PTL DEF Spec

\* And of two grants the heavier stays so, whatever room is made below, between and
\* above them, but by its own update (RoleService.ts:112-154).
THEOREM RanksAreKept == ASSUME Climbing PROVE Spec => RankKept
<1>1. Init => AskedInv /\ RoomInv
  BY InitAsked, InitRoom
<1>2. AskedInv /\ RoomInv /\ [Next]_vars => AskedInv' /\ RoomInv'
  BY Climbing, StepKept, StutterKept DEF Kept
<1>3. AskedInv /\ RoomInv /\ [Next]_vars =>
        [torn' \/ \A g, other \in grants : \A gNow, otherNow \in grants' :
           /\ gNow.id = g.id /\ otherNow.id = other.id
           /\ g.role = other.role /\ g.weight > other.weight
           => \/ gNow.weight >= otherNow.weight
              \/ \E h \in Handlers : Updated(h, g) \/ Updated(h, other)]_vars
  BY Climbing, StepKept DEF Kept, Ranked
<1> QED BY <1>1, <1>2, <1>3, PTL DEF Spec, RankKept
=============================================================================
