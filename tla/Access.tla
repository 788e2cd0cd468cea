------------------------------- MODULE Access -------------------------------
(***************************************************************************)
(* A request on its way to its handler, and the roles and grants that say  *)
(* whether it gets there: dispatch over the routing table, guards in their *)
(* order, one permission after another at an await each, pipes, and then   *)
(* the handlers of RoleController, GrantController and the two endpoints   *)
(* that give and take a role, which change what later checks read.         *)
(*                                                                         *)
(* User "1" has the role of his own and one of group "1", or none while he *)
(* is PENDING; user "2" has the custom roles in held.  Things with id "1"  *)
(* belong to group "1", things with id "2" to group "2"; no thing has the  *)
(* id "0".                                                                 *)
(***************************************************************************)
EXTENDS Endpoints, Functions

CONSTANTS
  Handlers,      \* requests in progress at a time
  Repeated,      \* parameters a query may give beside the path or the body
  MaxEdits,      \* bound on requests for roles and grants
  Bodies,        \* the grants such a request brings: sequences of Grant
  Ranks,         \* roles user "1" may have in group "1", NONE among them
  EditRanks      \* those he has while roles and grants are changed

\* Grants come as sequences, and what they weigh is a whole number; a group has
\* the roles of ROLE_LIST.
ASSUME AccessAssumption ==
  /\ \A body \in Bodies : /\ body \in Seq(Range(body))
                          /\ \A i \in 1..Len(body) : body[i].weight \in Int
  /\ Ranks \subseteq {"NONE"} \cup DOMAIN ROLE_LIST("1")

Ids == {"0", "1", "2"}
Users == {"1", "2"}
Callers == Users \cup {"nobody", "bot"}
RoleIds == {"1", "2"}
EndpointIds == 1..Len(Routes)

VARIABLES
  rank,      \* the role of user "1" in group "1"
  roles,     \* custom roles there are
  named,     \* ids given to roles so far: none is given twice
  held,      \* those of user "2"
  grants,    \* rows of the custom roles' grants
  made,      \* rows ever made: the next one is numbered made + 1
  req,       \* the request each handler works on
  edits,     \* requests for roles and grants so far
  torn       \* whether two of them crossed, one ended between its writes, or one
             \* changed a grant under a role that is not the grant's

vars == <<rank, roles, named, held, grants, made, req, edits, torn>>

-----------------------------------------------------------------------------
(* Requests *)

Edited == {Role_createWithGrants, Role_create, Role_delete, Role_createGrants,
           Role_createGrant, Role_updateGrant, Grant_delete, User_giveRole, User_removeRole}
Inserting == {Role_createGrants, Role_createGrant, Role_updateGrant}

ParamsOf(e) == (Range(e.path) \cup e.sent) \cap Params
\* The guards that find out the group, and the parameter each reads.
ThingOf == [GroupByDisciplineGuard |-> "disciplineId",
            GroupByDisciplineTeacherGuard |-> "disciplineTeacherId",
            GroupByEventGuard |-> "eventId"]
\* What the guards of an endpoint look up in a request: none of it is a parameter that the
\* endpoint itself takes from the query.
LookedUp(e) ==
  (UNION {Range(e.may[i]) : i \in DOMAIN e.may}
     \cup {ThingOf[guard] : guard \in Range(e.guards) \cap DOMAIN ThingOf}) \cap Params
\* RequestUtils.get: the query comes before the path and the body.
get(query, ids) ==
  [p \in DOMAIN query \cup DOMAIN ids |-> IF p \in DOMAIN query THEN query[p] ELSE ids[p]]
\* A path or a permission with the parameters of a request in their places.
Filled(s, ids) == [i \in DOMAIN s |-> IF s[i] \in DOMAIN ids THEN ids[s[i]] ELSE s[i]]

Matches(route, path) ==
  /\ DOMAIN route = DOMAIN path
  /\ \A i \in DOMAIN path : route[i] \in Params \/ route[i] = path[i]
Takes(i, verb, path) == Routes[i].verb = verb /\ Matches(Routes[i].path, path)
Dispatch(verb, path) ==
  CHOOSE i \in EndpointIds :
    Takes(i, verb, path) /\ \A j \in 1..(i - 1) : ~Takes(j, verb, path)

NoRequest ==
  [step |-> "idle", meant |-> 1, ep |-> 1, by |-> "nobody", ids |-> << >>, seen |-> << >>,
   at |-> 1, left |-> << >>, body |-> << >>, todo |-> << >>, prev |-> 0, higher |-> {},
   status |-> "none", who |-> "none"]
Endpoint(h) == Routes[req[h].ep]

\* Grants are numbered; "0" is the id of none.
Number == [id \in Ids |-> CASE id = "0" -> 0 [] id = "1" -> 1 [] id = "2" -> 2]
Named(ids) == {g \in grants : g.id = Number[ids["grantId"]]}

Row(id, role, g) ==
  [id |-> id, role |-> role, permission |-> g.permission, set |-> g.set, weight |-> g.weight]

\* The roles of a user, as their grants.
RolesOf(user) ==
  {UserGrants(user)} \cup
  IF user = "2" THEN {{g \in grants : g.role = r} : r \in held}
  ELSE IF rank = "NONE" THEN {} ELSE {ROLE_LIST("1")[rank]}

Init ==
  /\ rank \in Ranks
  /\ roles = {"1"} /\ named = {"1"} /\ held = {"1"}
  /\ grants = {Row(1, "1", Grant(<<"*">>, TRUE, 1)),
               Row(2, "1", Grant(<<"groups", "*">>, FALSE, 2))}
  /\ made = 2 /\ edits = 0 /\ torn = FALSE
  /\ req = [h \in Handlers |-> NoRequest]

Step(h, r) == req' = [req EXCEPT ![h] = r]
Answer(h, status, who) ==
  Step(h, [req[h] EXCEPT !.step = "done", !.status = status, !.who = who])
Refuse(h, status, who) ==
  Answer(h, status, who) /\ UNCHANGED <<rank, roles, named, held, grants, made, edits, torn>>

\* Requests for roles and grants may cross; others are sent one at a time and
\* before any of those.
Sendable ==
  {e \in EndpointIds :
     IF Routes[e] \in Edited
     THEN /\ edits < MaxEdits /\ rank \in EditRanks
          /\ \A k \in Handlers : req[k].step = "idle" \/ Endpoint(k) \in Edited
     ELSE edits = 0 /\ \A k \in Handlers : req[k].step = "idle"}
\* Those that may cross are sent by user "2" and the bot, about things that were
\* there.
Senders(e) == IF Routes[e] \in Edited THEN {"2", "bot"} ELSE Callers
IdsFor(e) == [ParamsOf(Routes[e]) -> IF Routes[e] \in Edited THEN {"1", "2"} ELSE Ids]
\* A query may name again what the guards look up.
QueriesFor(e) == UNION {[repeats -> Ids] : repeats \in SUBSET (Repeated \cap LookedUp(Routes[e]))}
\* What a request brings is what its endpoint takes.
BodiesFor(e) ==
  CASE Routes[e] \in {Role_createGrant, Role_updateGrant} -> {b \in Bodies : Len(b) = 1}
    [] Routes[e] \in {Role_createGrants, Role_createWithGrants} -> Bodies
    [] OTHER -> {<< >>}

\* Guards see what RequestUtils.get finds, pipes and handlers what stands in the path and
\* the body.  (Custom roles are given to user "2".)
Send(h, e, by, ids, query, body) ==
  LET editing == Routes[e] \in Edited
  IN /\ Routes[e] \in {User_giveRole, User_removeRole} => ids["userId"] # "1"
     /\ edits' = IF editing THEN edits + 1 ELSE edits
     /\ Step(h, [NoRequest EXCEPT
          !.step = "guards", !.meant = e, !.by = by, !.ids = ids, !.body = body,
          !.seen = get(query, ids),
          !.ep = Dispatch(Routes[e].verb, Filled(Routes[e].path, ids))])
     /\ UNCHANGED <<rank, roles, named, held, grants, made, torn>>

-----------------------------------------------------------------------------
(* Guards *)

\* Where a request is after one more of its guards let it through.
Passed(h, r) ==
  Step(h, [r EXCEPT !.at = r.at + 1,
           !.step = IF r.at < Len(Endpoint(h).guards) THEN "guards" ELSE "pipes"])

NoGuards(h) ==
  /\ req[h].step = "guards" /\ Endpoint(h).guards = << >>
  /\ Step(h, [req[h] EXCEPT !.step = "pipes"])
  /\ UNCHANGED <<rank, roles, named, held, grants, made, edits, torn>>

Guarded(h, guard) ==
  /\ req[h].step = "guards" /\ Endpoint(h).guards # << >>
  /\ Endpoint(h).guards[req[h].at] = guard

JwtGuard(h) ==
  /\ Guarded(h, "JwtGuard")
  /\ IF req[h].by \in Users THEN Passed(h, req[h]) ELSE Answer(h, "401", "JwtGuard")
  /\ UNCHANGED <<rank, roles, named, held, grants, made, edits, torn>>

TelegramGuard(h) ==
  /\ Guarded(h, "TelegramGuard")
  /\ IF req[h].by = "bot" THEN Passed(h, req[h]) ELSE Answer(h, "401", "TelegramGuard")
  /\ UNCHANGED <<rank, roles, named, held, grants, made, edits, torn>>

\* validateUser: nobody's name is unknown, or the password is not his.
LocalGuard(h) ==
  /\ Guarded(h, "LocalGuard")
  /\ IF req[h].by \in Users THEN Passed(h, req[h])
     ELSE \E status \in {"400", "401"} : Answer(h, status, "LocalGuard")
  /\ UNCHANGED <<rank, roles, named, held, grants, made, edits, torn>>

\* The group of what the request is seen to name becomes the group of its query; what is
\* not there is refused in three ways.
GroupOf(h, guard, refusal) ==
  /\ Guarded(h, guard)
  /\ LET id == req[h].seen[ThingOf[guard]]
     IN IF id = "0" THEN Answer(h, refusal, guard)
        ELSE Passed(h, [req[h] EXCEPT !.seen = get([groupId |-> id], @)])
  /\ UNCHANGED <<rank, roles, named, held, grants, made, edits, torn>>
GroupByDisciplineGuard(h) == GroupOf(h, "GroupByDisciplineGuard", "500")
\* Variant: without the check that the row is there.
GroupByRowGuard(h) == GroupOf(h, "GroupByDisciplineTeacherGuard", "500")
GroupByDisciplineTeacherGuard(h) == GroupOf(h, "GroupByDisciplineTeacherGuard", "400")
GroupByEventGuard(h) == GroupOf(h, "GroupByEventGuard", "400")

\* The guard fills in all permissions at once and then asks for one after
\* another, each read from the tables as they are at its turn.
getPermissions(h) ==
  /\ Guarded(h, "PermissionGuard")
  /\ LET may == Endpoint(h).may
         asked == (UNION {Range(may[i]) : i \in 1..Len(may)}) \cap Params
     IN IF asked \subseteq DOMAIN req[h].seen
        THEN Step(h, [req[h] EXCEPT !.step = "check",
               !.left = [i \in 1..Len(may) |-> Filled(may[i], req[h].seen)]])
        ELSE Answer(h, "403", "PermissionGuard")
  /\ UNCHANGED <<rank, roles, named, held, grants, made, edits, torn>>

PermissionGuard(h) ==
  /\ req[h].step = "check"
  /\ IF req[h].left = << >> THEN Answer(h, "403", "PermissionGuard")
     ELSE \E has \in Answers(RolesOf(req[h].by), Head(req[h].left)) :
            IF has THEN Passed(h, req[h])
            ELSE Step(h, [req[h] EXCEPT !.left = Tail(@)])
  /\ UNCHANGED <<rank, roles, named, held, grants, made, edits, torn>>

-----------------------------------------------------------------------------
(* Pipes: the statuses a pipe can refuse these parameters with. *)

\* A parameter the request was not written with is a literal of its path.
Unknown(ids, param) ==
  IF param \in DOMAIN ids /\ ids[param] # "0" THEN {} ELSE {"400"}

UserByIdPipe(ids) == Unknown(ids, "userId")
GroupByIdPipe(ids) == Unknown(ids, "groupId")
TeacherByIdPipe(ids) == Unknown(ids, "teacherId")
DisciplineByIdPipe(ids) == Unknown(ids, "disciplineId")
DisciplineTeacherByIdPipe(ids) == Unknown(ids, "disciplineTeacherId")
QuestionByIdPipe(ids) == Unknown(ids, "questionId")
SubjectByIdPipe(ids) == Unknown(ids, "subjectId")
ResourceByIdPipe(ids) == Unknown(ids, "resourceId")
CathedraByIdPipe(ids) == Unknown(ids, "cathedraId")
EntrantByIdPipe(ids) == Unknown(ids, "entrantId")
EventByIdPipe(ids) == Unknown(ids, "eventId")
TelegramGroupByIdPipe(ids) == Unknown(ids, "telegramId")
UserByTelegramIdPipe(ids) == Unknown(ids, "telegramId")
RoleByIdPipe(ids) == IF ids["roleId"] \in roles THEN {} ELSE {"400"}
GrantByIdPipe(ids) == IF Named(ids) = {} THEN {"400"} ELSE {}
\* Two things at once: the teacher or the user, and a contact of his.
ContactByNamePipe(ids) == Unknown(ids, "teacherId") \cup Unknown(ids, "name")
ContactByUserIdPipe(ids) == Unknown(ids, "userId") \cup Unknown(ids, "contactId")
QuestionByRoleAndIdPipe(ids) == Unknown(ids, "questionId") \cup Unknown(ids, "role")
\* What a query or a body mentions.
AllStudentsPipe(ids) == Unknown(ids, "groupId")
AllTeachersPipe(ids) == Unknown(ids, "groupId") \cup Unknown(ids, "cathedraId")
CommentsQueryPipe(ids) == Unknown(ids, "subjectId")
EventPipe(ids) == Unknown(ids, "disciplineId") \cup Unknown(ids, "teacherId")
\* Discipline "2" is not selective.
SelectiveDisciplinesPipe(ids) == IF ids["disciplineId"] = "1" THEN {} ELSE {"400"}
\* It follows UserByIdPipe on the same parameter; user "2" is approved.
StudentPipe(ids) == IF ids["userId"] = "1" /\ rank = "NONE" THEN {"403"} ELSE {}
\* A file of the wrong kind, and one too large.
AvatarValidationPipe == {"400", "413"}

Refusals(pipe, ids) ==
  CASE pipe = "UserByIdPipe" -> UserByIdPipe(ids)
    [] pipe = "GroupByIdPipe" -> GroupByIdPipe(ids)
    [] pipe = "TeacherByIdPipe" -> TeacherByIdPipe(ids)
    [] pipe = "DisciplineByIdPipe" -> DisciplineByIdPipe(ids)
    [] pipe = "DisciplineTeacherByIdPipe" -> DisciplineTeacherByIdPipe(ids)
    [] pipe = "QuestionByIdPipe" -> QuestionByIdPipe(ids)
    [] pipe = "SubjectByIdPipe" -> SubjectByIdPipe(ids)
    [] pipe = "ResourceByIdPipe" -> ResourceByIdPipe(ids)
    [] pipe = "CathedraByIdPipe" -> CathedraByIdPipe(ids)
    [] pipe = "EntrantByIdPipe" -> EntrantByIdPipe(ids)
    [] pipe = "EventByIdPipe" -> EventByIdPipe(ids)
    [] pipe = "TelegramGroupByIdPipe" -> TelegramGroupByIdPipe(ids)
    [] pipe = "UserByTelegramIdPipe" -> UserByTelegramIdPipe(ids)
    [] pipe = "RoleByIdPipe" -> RoleByIdPipe(ids)
    [] pipe = "GrantByIdPipe" -> GrantByIdPipe(ids)
    [] pipe = "ContactByNamePipe" -> ContactByNamePipe(ids)
    [] pipe = "ContactByUserIdPipe" -> ContactByUserIdPipe(ids)
    [] pipe = "QuestionByRoleAndIdPipe" -> QuestionByRoleAndIdPipe(ids)
    [] pipe = "AllStudentsPipe" -> AllStudentsPipe(ids)
    [] pipe = "AllTeachersPipe" -> AllTeachersPipe(ids)
    [] pipe = "CommentsQueryPipe" -> CommentsQueryPipe(ids)
    [] pipe = "EventPipe" -> EventPipe(ids)
    [] pipe = "SelectiveDisciplinesPipe" -> SelectiveDisciplinesPipe(ids)
    [] pipe = "StudentPipe" -> StudentPipe(ids)
    [] pipe = "AvatarValidationPipe" -> AvatarValidationPipe

\* Parameters are looked at concurrently: the first refusal is the answer.
\* Nothing depends on the contents of a file, which may be right or not.
Pipes(h) ==
  /\ req[h].step = "pipes"
  /\ LET pipes == Endpoint(h).pipes
         refusals == UNION {Refusals(p, req[h].ids) : p \in pipes \ {"AvatarValidationPipe"}}
     IN \/ /\ refusals = {}
           /\ Step(h, [req[h] EXCEPT !.step = "handler"])
        \/ \E status \in refusals \cup IF "AvatarValidationPipe" \in pipes
                                        THEN AvatarValidationPipe ELSE {} :
             Answer(h, status, "pipes")
  /\ UNCHANGED <<rank, roles, named, held, grants, made, edits, torn>>

-----------------------------------------------------------------------------
(* Handlers *)

Arrived(h, endpoints) == req[h].step = "handler" /\ Endpoint(h) \in endpoints
Writing(h) == req[h].step \in {"shift", "raise", "write"}
\* A request that starts to insert, or to delete, while another inserts.
Crossing(h) == torn' = (torn \/ \E k \in Handlers \ {h} : Writing(k))

Serve(h) ==
  /\ req[h].step = "handler" /\ Endpoint(h) \notin Edited
  /\ Refuse(h, "served", "handler")

\* connectOrCreate: the role may be his already; one that is gone is refused
\* by its foreign key.
giveRole(h) ==
  /\ Arrived(h, {User_giveRole})
  /\ \E r \in RoleIds :
       IF r \in roles
       THEN /\ held' = held \cup {r}
            /\ Answer(h, "served", "handler")
            /\ UNCHANGED <<rank, roles, named, grants, made, edits, torn>>
       ELSE Refuse(h, "500", "handler")

removeRole(h) ==
  /\ Arrived(h, {User_removeRole})
  /\ IF req[h].ids["roleId"] \in held
     THEN /\ held' = held \ {req[h].ids["roleId"]}
          /\ Answer(h, "served", "handler")
          /\ UNCHANGED <<rank, roles, named, grants, made, edits, torn>>
     ELSE Refuse(h, "500", "handler")

\* (Beyond RoleIds there are no roles: the model's bound.)
createRole(h) ==
  /\ Arrived(h, {Role_create})
  /\ IF named = RoleIds THEN UNCHANGED <<roles, named>>
     ELSE \E r \in RoleIds \ named : roles' = roles \cup {r} /\ named' = named \cup {r}
  /\ Answer(h, "served", "handler")
  /\ UNCHANGED <<rank, held, grants, made, edits, torn>>

\* All the grants of the new role have to be given to its maker by a role that
\* weighs more, which any of his may; they are looked through in no order.
MayGrant(user, permission) ==
  \E g \in UNION RolesOf(user) : isGrantMatchesPermission(permission, g.permission) /\ g.set
createRoleWithGrants(h) ==
  /\ Arrived(h, {Role_createWithGrants})
  /\ \/ Refuse(h, "403", "handler")
     \/ /\ \A i \in 1..Len(req[h].body) : MayGrant(req[h].by, req[h].body[i].permission)
        /\ \E r \in RoleIds \ named :
             /\ roles' = roles \cup {r} /\ named' = named \cup {r}
             /\ grants' = grants \cup {Row(made + i, r, req[h].body[i]) : i \in 1..Len(req[h].body)}
        /\ made' = made + Len(req[h].body)
        /\ Answer(h, "served", "handler")
        /\ UNCHANGED <<rank, held, edits, torn>>

\* Its grants go with a role, and with it what users have of it.
deleteRole(h) ==
  /\ Arrived(h, {Role_delete})
  /\ LET r == req[h].ids["roleId"]
     IN IF r \in roles
        THEN /\ roles' = roles \ {r} /\ held' = held \ {r}
             /\ grants' = {g \in grants : g.role # r}
             /\ Answer(h, "served", "handler") /\ Crossing(h)
             /\ UNCHANGED <<rank, named, made, edits>>
        ELSE Refuse(h, "500", "handler")

deleteGrant(h) ==
  /\ Arrived(h, {Grant_delete})
  /\ IF Named(req[h].ids) # {}
     THEN /\ grants' = grants \ Named(req[h].ids)
          /\ Answer(h, "served", "handler") /\ Crossing(h)
          /\ UNCHANGED <<rank, roles, named, held, made, edits>>
     ELSE Refuse(h, "500", "handler")

-----------------------------------------------------------------------------
(* Inserting grants: room is made at each weight asked for, then they are   *)
(* written.                                                                 *)

Insert(h) ==
  /\ Arrived(h, Inserting)
  /\ Step(h, [req[h] EXCEPT !.step = "shift",
                            !.todo = [i \in 1..Len(req[h].body) |-> req[h].body[i].weight]])
  /\ Crossing(h)
  /\ UNCHANGED <<rank, roles, named, held, grants, made, edits>>

\* Variant: the grant at the very weight stays where it is.
updateGrantsAbove(h) ==
  /\ req[h].step = "shift"
  /\ IF req[h].todo = << >> THEN Step(h, [req[h] EXCEPT !.step = "write"])
     ELSE LET weight == Head(req[h].todo)
          IN Step(h, [req[h] EXCEPT !.step = "raise", !.todo = Tail(@), !.prev = weight,
               !.higher = {g \in grants : g.role = req[h].ids["roleId"] /\ g.weight > weight}])
  /\ UNCHANGED <<rank, roles, named, held, grants, made, edits, torn>>

\* updateHigherGrants reads the grants from that weight up ...
updateHigherGrants(h) ==
  /\ req[h].step = "shift"
  /\ IF req[h].todo = << >> THEN Step(h, [req[h] EXCEPT !.step = "write"])
     ELSE LET weight == Head(req[h].todo)
          IN Step(h, [req[h] EXCEPT !.step = "raise", !.todo = Tail(@), !.prev = weight,
               !.higher = {g \in grants : g.role = req[h].ids["roleId"] /\ g.weight >= weight}])
  /\ UNCHANGED <<rank, roles, named, held, grants, made, edits, torn>>

Lowest(rows) == {g \in rows : \A other \in rows : g.weight <= other.weight}

\* Variant: room for all the request brings is made at once.
RaiseByAll(h) ==
  /\ req[h].step = "raise"
  /\ \E g \in Lowest(req[h].higher) :
       /\ g.weight = req[h].prev
       /\ \/ /\ \E now \in grants : now.id = g.id
             /\ grants' = {now \in grants : now.id # g.id} \cup
                            {[g EXCEPT !.weight = @ + Len(req[h].body)]}
             /\ Step(h, [req[h] EXCEPT !.prev = @ + Len(req[h].body), !.higher = @ \ {g}])
             /\ UNCHANGED torn
          \/ /\ Answer(h, "500", "handler") /\ torn' = TRUE /\ UNCHANGED grants
  /\ UNCHANGED <<rank, roles, named, held, made, edits>>

\* ... and raises one after another, until one leaves a gap.  A row is written
\* as it was read, with what it refers to, which Prisma may not take; one that
\* is gone is refused.
Raise(h) ==
  /\ req[h].step = "raise"
  /\ \E g \in Lowest(req[h].higher) :
       /\ g.weight = req[h].prev
       /\ \/ /\ \E now \in grants : now.id = g.id
             /\ grants' = {now \in grants : now.id # g.id} \cup {[g EXCEPT !.weight = @ + 1]}
             /\ Step(h, [req[h] EXCEPT !.prev = @ + 1, !.higher = @ \ {g}])
             /\ UNCHANGED torn
          \/ /\ Answer(h, "500", "handler") /\ torn' = TRUE /\ UNCHANGED grants
  /\ UNCHANGED <<rank, roles, named, held, made, edits>>

Raised(h) ==
  /\ req[h].step = "raise"
  /\ \A g \in Lowest(req[h].higher) : g.weight # req[h].prev
  /\ Step(h, [req[h] EXCEPT !.step = "shift", !.prev = 0, !.higher = {}])
  /\ UNCHANGED <<rank, roles, named, held, grants, made, edits, torn>>

Create(h) ==
  /\ req[h].step = "write" /\ Endpoint(h) # Role_updateGrant
  /\ IF req[h].ids["roleId"] \in roles
     THEN /\ grants' = grants \cup {Row(made + i, req[h].ids["roleId"], req[h].body[i]) :
                                      i \in 1..Len(req[h].body)}
          /\ made' = made + Len(req[h].body)
          /\ Answer(h, "served", "handler") /\ UNCHANGED torn
     ELSE Answer(h, "500", "handler") /\ torn' = TRUE /\ UNCHANGED <<grants, made>>
  /\ UNCHANGED <<rank, roles, named, held, edits>>

Update(h) ==
  /\ req[h].step = "write" /\ Endpoint(h) = Role_updateGrant
  /\ LET its == Named(req[h].ids)
     IN IF its # {}
        THEN /\ grants' = (grants \ its) \cup {Row(g.id, g.role, req[h].body[1]) : g \in its}
             /\ Answer(h, "served", "handler")
             /\ torn' = (torn \/ \E g \in its : g.role # req[h].ids["roleId"])
        ELSE Answer(h, "500", "handler") /\ torn' = TRUE /\ UNCHANGED grants
  /\ UNCHANGED <<rank, roles, named, held, made, edits>>

\* The answer is sent and the handler is free.
Done(h) ==
  /\ req[h].step = "done"
  /\ Step(h, NoRequest)
  /\ UNCHANGED <<rank, roles, named, held, grants, made, edits, torn>>

Next ==
  \/ \E h \in Handlers : req[h].step = "idle" /\
       \E e \in Sendable :
         \E by \in Senders(e), ids \in IdsFor(e), query \in QueriesFor(e), body \in BodiesFor(e) :
           Send(h, e, by, ids, query, body)
  \/ \E h \in Handlers :
       \/ NoGuards(h) \/ JwtGuard(h) \/ TelegramGuard(h) \/ LocalGuard(h)
       \/ GroupByDisciplineGuard(h) \/ GroupByDisciplineTeacherGuard(h) \/ GroupByEventGuard(h)
       \/ getPermissions(h) \/ PermissionGuard(h) \/ Pipes(h) \/ Serve(h)
       \/ giveRole(h) \/ removeRole(h) \/ createRole(h) \/ createRoleWithGrants(h)
       \/ deleteRole(h) \/ deleteGrant(h)
       \/ Insert(h) \/ updateHigherGrants(h) \/ Raise(h) \/ Raised(h) \/ Create(h) \/ Update(h)
       \/ Done(h)

Spec == Init /\ [][Next]_vars

-----------------------------------------------------------------------------
(* Properties *)

\* What the permissions of an endpoint mean, by the words of PERMISSION.ts and
\* of the roles: a captain may do everything in his group, a moderator all but
\* switching its administrators, a student neither that nor anything with its
\* students but to list them; and everyone everything of his own.
MayInGroup(permission) ==
  CASE rank = "CAPTAIN" -> TRUE
    [] rank = "MODERATOR" -> permission # PERMISSION.GROUPS_GROUPID_ADMIN_SWITCH
    [] rank = "STUDENT" ->
         /\ permission # PERMISSION.GROUPS_GROUPID_ADMIN_SWITCH
         /\ permission[3] = "students" => permission = PERMISSION.GROUPS_GROUPID_STUDENTS_GET
    [] OTHER -> FALSE
GroupMeant(endpoint, ids) ==
  CASE "GroupByDisciplineGuard" \in Range(endpoint.guards) -> ids["disciplineId"]
    [] "GroupByDisciplineTeacherGuard" \in Range(endpoint.guards) -> ids["disciplineTeacherId"]
    [] "GroupByEventGuard" \in Range(endpoint.guards) -> ids["eventId"]
    [] OTHER -> ids["groupId"]
Entitled(endpoint, by, ids) ==
  \/ endpoint.guards = << >>
  \/ endpoint.guards = <<"TelegramGuard">> /\ by = "bot"
  \/ endpoint.guards \in {<<"JwtGuard">>, <<"LocalGuard">>} /\ by \in Users
  \/ /\ by = "1"
     /\ \E i \in 1..Len(endpoint.may) :
          LET permission == endpoint.may[i]
          IN \/ permission[1] = "users" /\ permission[2] = "userId" /\ ids["userId"] = by
             \/ /\ permission[1] = "groups" /\ permission[2] = "groupId"
                /\ GroupMeant(endpoint, ids) = "1" /\ MayInGroup(permission)

\* A request reaches the endpoint it was written for, and its guards let it
\* pass exactly when its sender may do what the endpoint does: whatever else is
\* declared on the same path, whatever pattern of grant and weight decides.
\* (User "2", who has custom roles, may what their grants say.)  Guards decide
\* about what RequestUtils.get finds, though, which is what the handler works on
\* only as long as the query names nothing else than the path and the body do
\* (RequestUtils.ts:5, PermissionGuard.ts:19-53).
Guards == {"JwtGuard", "TelegramGuard", "LocalGuard", "PermissionGuard"}
SeenAsSent(r) == \A p \in DOMAIN r.ids : r.seen[p] = r.ids[p]
AnsweredAsMeant ==
  \A h \in Handlers :
    LET r == req[h] IN
    r.step = "done" =>
      /\ r.ep = r.meant
      /\ r.by # "2" /\ SeenAsSent(r) =>
           /\ r.who \in Guards => ~Entitled(Routes[r.meant], r.by, r.ids)
           /\ r.who \in {"pipes", "handler"} => Entitled(Routes[r.meant], r.by, r.ids)

\* What guards and pipes refuse, they refuse as the endpoint's documentation
\* says, where it has one.  (The 401 of 23 endpoints is listed nowhere, nor are
\* an unknown name at the login, the refusal to parse the schedule and what
\* becomes of a discipline that is not there.)
Unlisted == {<<Auth_login, "400">>, <<Schedule_parse, "403">>,
             <<Discipline_getAllByDiscipline, "500">>}
RefusalsDocumented ==
  \A h \in Handlers :
    LET r == req[h] IN
    r.step = "done" /\ r.who # "handler" /\ r.status # "401" =>
      \/ r.status \in Endpoint(h).docs \/ Endpoint(h).docs = {}
      \/ <<Endpoint(h), r.status>> \in Unlisted

\* Two grants of a role weigh the same only while one is about to be raised out
\* of the other's way: which of them decides is then up to the database.  Once
\* two insertions crossed or one was cut short it may stay so (torn).
Rivals(g, other) == g # other /\ g.role = other.role /\ g.weight = other.weight
Raising(h, g) ==
  req[h].step = "raise" /\ req[h].prev = g.weight /\ req[h].ids["roleId"] = g.role
TiesPass ==
  torn \/ \A g, other \in grants : Rivals(g, other) =>
            \E h \in Handlers : Raising(h, g) /\ {g, other} \cap req[h].higher # {}

\* Making room for a grant turns no two others about: a grant that outweighed
\* another does not come to weigh less, but by its own update.
Updated(h, g) ==
  req[h].step = "write" /\ Endpoint(h) = Role_updateGrant /\ g \in Named(req[h].ids)
RankKept ==
  [][torn' \/ \A g, other \in grants : \A gNow, otherNow \in grants' :
       /\ gNow.id = g.id /\ otherNow.id = other.id
       /\ g.role = other.role /\ g.weight > other.weight
       => \/ gNow.weight >= otherNow.weight
          \/ \E h \in Handlers : Updated(h, g) \/ Updated(h, other)]_vars
=============================================================================
