----------------------------- MODULE Membership ------------------------------
(***************************************************************************)
(* Who is in a group, in what state and with what role: the operations of  *)
(* UserService and GroupService that verify, admit, promote, move and      *)
(* remove students.  A request is split at its awaits; every Prisma call   *)
(* with its nested writes is one step.  Each group has three roles of its  *)
(* own, created with it, and a student's row is joined to roles by rows of *)
(* user_roles.                                                             *)
(***************************************************************************)
EXTENDS Integers, FiniteSets

CONSTANTS
  Students,       \* ids of students
  Groups,
  Handlers,       \* requests that can be in progress at the same time
  Ops,            \* operations the environment uses
  SwitchNames,    \* role names moderatorSwitch is asked for
  PendingOnly,    \* whether captains verify only those the unverified list shows
  MessageMayFail, \* whether the bot may refuse a message
  NoStudent,      \* no student
  NoGroup         \* no group

AllOps == {"register", "pseudo", "claim", "verifyUser", "verifyGroup", "switch", "captain",
           "remove", "leave", "change", "request", "delete"}
Names == {"CAPTAIN", "MODERATOR", "STUDENT"}
States == {"PENDING", "APPROVED", "DECLINED"}

ASSUME MembershipAssumption ==
  /\ IsFiniteSet(Students)
  /\ Ops \subseteq AllOps
  /\ SwitchNames \subseteq Names
  /\ {PendingOnly, MessageMayFail} \subseteq BOOLEAN
  /\ NoStudent \notin Students
  /\ NoGroup \notin Groups

VARIABLES
  student,  \* the students' rows: groupId, state, and whether the user has no username
  roles,    \* user_roles, restricted to the roles of groups
  req,      \* the request each handler is serving
  strayed   \* history: those whose registration moved them to another group

vars == <<student, roles, req, strayed>>

RoleRow == [student : Students, group : Groups, name : Names]
NoRole == [student |-> NoStudent]
StudentRow ==
  [group : Groups, state : States, pseudo : BOOLEAN]
  \cup [group : {NoGroup}, state : {"new", "gone"}, pseudo : {FALSE}]

New == [group |-> NoGroup, state |-> "new", pseudo |-> FALSE]
Gone == [group |-> NoGroup, state |-> "gone", pseudo |-> FALSE]

Weight == [CAPTAIN |-> 100, MODERATOR |-> 75, STUDENT |-> 50]

Here(s) == student[s].state \in States

\* What an operation remembers between its steps: whose role, in which group, the
\* name and state asked for, the role row read, and whose turn is next.
Request ==
  [op : AllOps \cup {"none"},
   pc : {"idle", "captain?", "group?", "give", "tell", "state", "role?", "promote?", "set", "rank?",
         "take", "decline", "approved?", "move", "write", "oldCaptain?", "account", "regroup",
         "failed"},
   s : Students \cup {NoStudent}, g : Groups \cup {NoGroup}, name : Names, state : States,
   row : RoleRow \cup {NoRole}, next : Students \cup {NoStudent}]

Idle == [op |-> "none", pc |-> "idle", s |-> NoStudent, g |-> NoGroup,
         name |-> "STUDENT", state |-> "PENDING", row |-> NoRole, next |-> NoStudent]

\* The role rows of a student, of which findFirst takes any.
GroupRoles(s) == {r \in roles : r.student = s}

\* getCaptain: students of the group with a role named CAPTAIN.
Captains(g) ==
  {s \in Students : Here(s) /\ student[s].group = g
                    /\ \E r \in GroupRoles(s) : r.name = "CAPTAIN"}

Row(s, g, n) == [student |-> s, group |-> g, name |-> n]

\* Variant: the roles of a deleted student stay.
Orphaned(s) == roles

\* onDelete: Cascade of UserRole.student.
Cascade(s) == roles \ GroupRoles(s)

\* A population in good order: members have one role, in their group, others none,
\* and a group has one captain at most.
Orderly ==
  /\ \A s \in Students :
       IF student[s].state = "APPROVED"
       THEN \E n \in Names : GroupRoles(s) = {Row(s, student[s].group, n)}
       ELSE GroupRoles(s) = {}
  /\ \A g \in Groups : Cardinality(Captains(g)) <= 1

Init ==
  /\ student \in [Students -> StudentRow \ {Gone}]
  /\ \E rank \in [Students -> Names] :
       roles = {Row(s, student[s].group, rank[s]) :
                  s \in {t \in Students : student[t].state = "APPROVED"}}
  /\ Orderly
  /\ req = [h \in Handlers |-> Idle]
  /\ strayed = {}

Go(h, r) == req' = [req EXCEPT ![h] = r]
Done(h) == Go(h, Idle)
At(h, pc) == req[h].pc = pc
Starts(h, op) == req[h] = Idle /\ op \in Ops
Frame == UNCHANGED <<student, roles, strayed>>

-----------------------------------------------------------------------------
(* Joining                                                                 *)

\* trulyRegister creates the student: PENDING is the default of the column.
Register(h, s, g) ==
  /\ Starts(h, "register")
  /\ student[s] = New
  /\ student' = [student EXCEPT ![s] = [group |-> g, state |-> "PENDING", pseudo |-> FALSE]]
  /\ UNCHANGED <<roles, req, strayed>>

\* addUnregistered: a user without a username, its student, then its role.
AddUnregistered(h, s, g) ==
  /\ Starts(h, "pseudo")
  /\ student[s] = New
  /\ student' = [student EXCEPT ![s] = [group |-> g, state |-> "APPROVED", pseudo |-> TRUE]]
  /\ Go(h, [Idle EXCEPT !.op = "pseudo", !.pc = "give", !.s = s, !.g = g])
  /\ UNCHANGED <<roles, strayed>>

\* verifyEmail of one whom a captain has added, with the group of his registration.
Claim(h, s, g) ==
  /\ Starts(h, "claim")
  /\ Here(s) /\ student[s].pseudo
  /\ Go(h, [Idle EXCEPT !.op = "claim", !.pc = "account", !.s = s, !.g = g])
  /\ Frame

\* pseudoRegister: the user gets his username first.
TakeAccount(h) ==
  /\ At(h, "account")
  /\ IF Here(req[h].s)
     THEN /\ student' = [student EXCEPT ![req[h].s].pseudo = FALSE]
          /\ Go(h, [req[h] EXCEPT !.pc = "regroup"])
     ELSE Done(h) /\ UNCHANGED student
  /\ UNCHANGED <<roles, strayed>>

\* Then his row gets the group he registers with; his role stays where it was.
Regroup(h) ==
  /\ At(h, "regroup")
  /\ IF Here(req[h].s)
     THEN /\ student' = [student EXCEPT ![req[h].s].group = req[h].g]
          /\ strayed' = IF student[req[h].s].group = req[h].g
                        THEN strayed ELSE strayed \cup {req[h].s}
     ELSE UNCHANGED <<student, strayed>>
  /\ Done(h)
  /\ UNCHANGED roles

\* The Telegram bot answers for a student who asked to be verified.
VerifyByBot(h, s, captain, state) ==
  /\ Starts(h, "verifyUser")
  /\ Here(s) /\ student[s].state = "PENDING"
  /\ Go(h, [Idle EXCEPT !.op = "verifyUser", !.s = s, !.g = student[s].group,
              !.state = state, !.name = IF captain THEN "CAPTAIN" ELSE "STUDENT",
              !.pc = IF state # "APPROVED" THEN "tell"
                     ELSE IF captain THEN "captain?" ELSE "group?"])
  /\ Frame

\* Variant: whoever asks to be captain is let through.
NoCaptain(g) == FALSE

HasCaptain(g) == Captains(g) # {}

CheckCaptain(h) ==
  /\ At(h, "captain?")
  /\ IF HasCaptain(req[h].g)
     THEN Done(h)
     ELSE Go(h, [req[h] EXCEPT !.pc = IF req[h].op = "request" THEN "write" ELSE "group?"])
  /\ Frame

\* addGroupRole reads the student's group again.
ReadGroup(h) ==
  /\ At(h, "group?")
  /\ IF Here(req[h].s)
     THEN Go(h, [req[h] EXCEPT !.pc = "give", !.g = student[req[h].s].group])
     ELSE Done(h)
  /\ Frame

\* giveRole: connectOrCreate.
Give(h) ==
  /\ At(h, "give")
  /\ roles' = IF Here(req[h].s)
              THEN roles \cup {Row(req[h].s, req[h].g, req[h].name)} ELSE roles
  /\ IF req[h].op = "verifyUser" /\ Here(req[h].s)
     THEN Go(h, [req[h] EXCEPT !.pc = "tell"])
     ELSE Done(h)
  /\ UNCHANGED <<student, strayed>>

\* The message to the administrators comes before the state is written.  A refusal
\* ends the request half-way: the handler keeps it, so that this is told apart.
Tell(h) ==
  /\ At(h, "tell")
  /\ \/ Go(h, [req[h] EXCEPT !.pc = "state"])
     \/ MessageMayFail /\ Go(h, [req[h] EXCEPT !.pc = "failed"])
  /\ Frame

\* A captain answers in the group's page.
VerifyInGroup(h, s, state) ==
  /\ Starts(h, "verifyGroup")
  /\ Here(s)
  /\ PendingOnly => student[s].state = "PENDING"
  /\ Go(h, [Idle EXCEPT !.op = "verifyGroup", !.pc = "state", !.s = s,
                        !.g = student[s].group, !.state = state])
  /\ Frame

WriteState(h) ==
  /\ At(h, "state")
  /\ IF Here(req[h].s)
     THEN /\ student' = [student EXCEPT ![req[h].s].state = req[h].state]
          /\ IF req[h].op = "verifyGroup" /\ req[h].state = "APPROVED"
             THEN Go(h, [req[h] EXCEPT !.pc = "give"])
             ELSE Done(h)
     ELSE Done(h) /\ UNCHANGED student
  /\ UNCHANGED <<roles, strayed>>

\* requestNewGroup, for those who are in no group.
RequestNewGroup(h, s, g, captain) ==
  /\ Starts(h, "request")
  /\ Here(s) /\ student[s].state # "APPROVED"
  /\ Go(h, [Idle EXCEPT !.op = "request", !.s = s, !.g = g,
                        !.pc = IF captain THEN "captain?" ELSE "write"])
  /\ Frame

\* The message of authService.verify that follows changes nothing here.
WriteRequest(h) ==
  /\ At(h, "write")
  /\ student' = IF Here(req[h].s)
                THEN [student EXCEPT ![req[h].s].state = "PENDING",
                                     ![req[h].s].group = req[h].g]
                ELSE student
  /\ Done(h)
  /\ UNCHANGED <<roles, strayed>>

-----------------------------------------------------------------------------
(* Changing roles                                                          *)

ModeratorSwitch(h, s, name) ==
  /\ Starts(h, "switch")
  /\ Here(s)
  /\ Go(h, [Idle EXCEPT !.op = "switch", !.pc = "role?", !.s = s, !.name = name])
  /\ Frame

SwitchCaptain(h, s) ==
  /\ Starts(h, "captain")
  /\ Here(s)
  /\ Go(h, [Idle EXCEPT !.op = "captain", !.pc = "oldCaptain?", !.s = s,
                        !.g = student[s].group, !.name = "CAPTAIN"])
  /\ Frame

\* The old captain steps down first; next is the one to be promoted then.
OldCaptain(h) ==
  /\ At(h, "oldCaptain?")
  /\ \/ ~HasCaptain(req[h].g) /\ Go(h, [req[h] EXCEPT !.pc = "role?"])
     \/ req[h].s \in Captains(req[h].g) /\ Done(h)
     \/ \E c \in Captains(req[h].g) \ {req[h].s} :
          Go(h, [req[h] EXCEPT !.pc = "role?", !.s = c, !.name = "STUDENT",
                               !.next = req[h].s])
  /\ Frame

\* getGroupRole.  Without one the request throws.
AfterRole == [switch |-> "set", captain |-> "set", remove |-> "rank?",
              leave |-> "take", change |-> "move"]

ReadRole(h) ==
  /\ req[h].pc \in {"role?", "promote?"}
  /\ \/ GroupRoles(req[h].s) = {} /\ Done(h)
     \/ \E r \in GroupRoles(req[h].s) :
          Go(h, [req[h] EXCEPT !.pc = AfterRole[req[h].op], !.row = r])
  /\ Frame

\* Variant: the new role is added to the old one.
Added(old, new) == roles \cup {new}

Replaced(old, new) == (roles \ {old}) \cup {new}

\* The update names the row that was read, and throws when it is gone or when the
\* new row is there already.
CanReplace(old, new) == old \in roles /\ (new = old \/ new \notin roles)

\* Variant: the role is looked for in the group of the request.
AskedRow(h) == Row(req[h].s, req[h].g, req[h].name)

NewRow(h) == Row(req[h].s, req[h].row.group, req[h].name)

SetRole(h) ==
  /\ At(h, "set")
  /\ IF CanReplace(req[h].row, NewRow(h))
     THEN /\ roles' = Replaced(req[h].row, NewRow(h))
          /\ IF req[h].next = NoStudent THEN Done(h)
             ELSE Go(h, [Idle EXCEPT !.op = "captain", !.pc = "promote?", !.g = req[h].g,
                                     !.s = req[h].next, !.name = "CAPTAIN"])
     ELSE Done(h) /\ UNCHANGED roles
  /\ UNCHANGED <<student, strayed>>

-----------------------------------------------------------------------------
(* Leaving and moving                                                      *)

\* Whom the guard lets through is not decided here: by is any student, with a role
\* of any group or none.
RemoveStudent(h, s, by, g) ==
  /\ Starts(h, "remove")
  /\ Here(s) /\ Here(by)
  /\ Go(h, [Idle EXCEPT !.op = "remove", !.pc = "role?", !.s = s, !.g = g, !.next = by])
  /\ Frame

\* Variant: an equal may remove.
NotBelow(mine, theirs) == Weight[mine] >= Weight[theirs]

Outranks(mine, theirs) == Weight[mine] > Weight[theirs]

\* The ranks are those of the roles, whatever groups they belong to; the role to be
\* taken must be of the group asked for.
CompareRanks(h) ==
  /\ At(h, "rank?")
  /\ \/ GroupRoles(req[h].next) = {} /\ Done(h)
     \/ \E mine \in GroupRoles(req[h].next) :
          IF Outranks(mine.name, req[h].row.name) /\ req[h].row.group = req[h].g
          THEN Go(h, [req[h] EXCEPT !.pc = "take"])
          ELSE Done(h)
  /\ Frame

\* removeRole, and the update of leaveGroup that also declines.
TakeRole(h) ==
  /\ At(h, "take")
  /\ IF req[h].row \in roles
     THEN /\ roles' = roles \ {req[h].row}
          /\ IF req[h].op = "remove"
             THEN Go(h, [req[h] EXCEPT !.pc = "decline"]) /\ UNCHANGED student
             ELSE Done(h) /\ student' = [student EXCEPT ![req[h].s].state = "DECLINED"]
     ELSE Done(h) /\ UNCHANGED <<student, roles>>
  /\ UNCHANGED strayed

\* A user without a username is deleted, and the update after it throws.
Decline(h) ==
  /\ At(h, "decline")
  /\ LET s == req[h].s IN
     /\ student' =
          CASE ~Here(s) -> student
            [] Here(s) /\ student[s].pseudo -> [student EXCEPT ![s] = Gone]
            [] OTHER -> [student EXCEPT ![s].state = "DECLINED"]
     /\ roles' = IF student[s].pseudo THEN Cascade(s) ELSE roles
  /\ Done(h)
  /\ UNCHANGED strayed

LeaveGroup(h, s) ==
  /\ Starts(h, "leave")
  /\ Here(s)
  /\ Go(h, [Idle EXCEPT !.op = "leave", !.pc = "approved?", !.s = s])
  /\ Frame

CheckApproved(h) ==
  /\ At(h, "approved?")
  /\ IF student[req[h].s].state = "APPROVED"
     THEN Go(h, [req[h] EXCEPT !.pc = "role?"])
     ELSE Done(h)
  /\ Frame

\* changeGroup, behind StudentPipe.
ChangeGroup(h, s, g) ==
  /\ Starts(h, "change")
  /\ student[s].state = "APPROVED"
  /\ Go(h, [Idle EXCEPT !.op = "change", !.pc = "role?", !.s = s, !.g = g])
  /\ Frame

Move(h) ==
  /\ At(h, "move")
  /\ LET new == Row(req[h].s, req[h].g, "STUDENT") IN
     IF CanReplace(req[h].row, new)
     THEN /\ roles' = Replaced(req[h].row, new)
          /\ student' = [student EXCEPT ![req[h].s].group = req[h].g]
     ELSE UNCHANGED <<student, roles>>
  /\ Done(h)
  /\ UNCHANGED strayed

\* deleteStudent and deleteUser: the roles go with the row.
Delete(h, s) ==
  /\ Starts(h, "delete")
  /\ Here(s)
  /\ student' = [student EXCEPT ![s] = Gone]
  /\ roles' = Cascade(s)
  /\ UNCHANGED <<req, strayed>>

-----------------------------------------------------------------------------
Begin(h) ==
  \E s \in Students :
    \/ \E g \in Groups :
         \/ Register(h, s, g) \/ AddUnregistered(h, s, g)
         \/ Claim(h, s, g) \/ ChangeGroup(h, s, g)
    \/ \E c \in BOOLEAN, state \in States : VerifyByBot(h, s, c, state)
    \/ \E state \in States : VerifyInGroup(h, s, state)
    \/ \E g \in Groups, c \in BOOLEAN : RequestNewGroup(h, s, g, c)
    \/ \E name \in SwitchNames : ModeratorSwitch(h, s, name)
    \/ SwitchCaptain(h, s)
    \/ \E by \in Students, g \in Groups : RemoveStudent(h, s, by, g)
    \/ LeaveGroup(h, s)
    \/ Delete(h, s)

Continue(h) ==
  \/ TakeAccount(h) \/ Regroup(h)
  \/ CheckCaptain(h) \/ ReadGroup(h) \/ Give(h) \/ Tell(h) \/ WriteState(h)
  \/ WriteRequest(h) \/ OldCaptain(h) \/ ReadRole(h) \/ SetRole(h)
  \/ CompareRanks(h) \/ TakeRole(h) \/ Decline(h) \/ CheckApproved(h) \/ Move(h)

Next == \E h \in Handlers : Begin(h) \/ Continue(h)

Spec == Init /\ [][Next]_vars

-----------------------------------------------------------------------------
(* Properties                                                              *)

\* The types of the variables.
TypeOK ==
  /\ student \in [Students -> StudentRow]
  /\ roles \subseteq RoleRow
  /\ strayed \subseteq Students
  /\ req \in [Handlers -> Request]

Quiet == \A h \in Handlers : req[h] = Idle

\* With one request at a time and captains who verify those on the list, every
\* operation leaves the group in good order: members with one role in their group,
\* others with none, one captain at most.  Two things break it: a refused message,
\* after which the request never ends, and a registration that takes a student whom
\* a captain had added to another group, for pseudoRegister leaves his role behind.
OrderKept == Quiet /\ strayed = {} => Orderly

\* Requests that move roles about may cross: a student never has two roles, and
\* none without being a member; nor one in another group, unless pseudoRegister has
\* moved him.
OneRole ==
  /\ \A q, r \in roles : q.student = r.student => q = r
  /\ \A r \in roles :
       /\ student[r.student].state = "APPROVED"
       /\ r.student \notin strayed => student[r.student].group = r.group

\* Who is in a request exists.
Known ==
  \A h \in Handlers : req[h].pc # "idle" =>
    /\ student[req[h].s] # New
    /\ req[h].next # NoStudent => student[req[h].next] # New

\* Who asks for a group is no member.
Asking ==
  \A h \in Handlers : req[h].pc \in {"captain?", "write"} =>
    req[h].op = "request" /\ student[req[h].s].state # "APPROVED"

\* Who is to be given a role has just been created and has none.
Giving ==
  \A h \in Handlers : req[h].pc = "give" =>
    /\ req[h].op = "pseudo"
    /\ Here(req[h].s) =>
         /\ student[req[h].s].state = "APPROVED"
         /\ GroupRoles(req[h].s) = {}
         /\ req[h].s \notin strayed => student[req[h].s].group = req[h].g

\* No other request has a role of his in hand.
Alone ==
  \A g, h \in Handlers :
    /\ req[g].pc = "give" /\ req[g].s = req[h].s
    /\ req[h].pc \in {"give", "set", "rank?", "take", "move", "decline"}
    => g = h

\* A role is taken before the state is written.
Declining == \A h \in Handlers : req[h].pc = "decline" => GroupRoles(req[h].s) = {}

\* Whose role is compared with the remover's is no captain.
NotTheCaptain ==
  \A h \in Handlers :
    req[h].op = "remove" /\ req[h].pc = "take" => req[h].row.name # "CAPTAIN"

\* Nobody is being verified.
NoneVerified == \A h \in Handlers : req[h].pc \notin {"group?", "tell", "state"}

\* Why a student has one role at most.
RoleInv == OneRole /\ Known /\ Asking /\ Giving /\ Alone /\ Declining /\ NoneVerified

\* Whatever crosses or fails, nobody holds a role who is not there any more.
NoOrphans == \A r \in roles : Here(r.student)

\* A step of a request to remove a student.
Removes(h) == req[h].op = "remove" /\ req'[h] # req[h]

\* Whatever crosses between the comparison of the ranks and the two writes after it,
\* whoever asks: a removal never takes the role of one who is captain by then.
CaptainsStay ==
  [][\A h \in Handlers : Removes(h) => \A r \in roles \ roles' : r.name # "CAPTAIN"]_vars
=============================================================================
