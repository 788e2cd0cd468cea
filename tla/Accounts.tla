------------------------------ MODULE Accounts ------------------------------
(***************************************************************************)
(* The accounts of users: how AuthService makes them from the links that   *)
(* verify addresses, the passwords and the sessions they open, and the     *)
(* pictures of UserService and FileService, at each await.  How links come *)
(* and go in time is EmailTokens; here a link is made, used or expires.    *)
(* Sessions are stateless: a session is what a token says of itself.       *)
(***************************************************************************)
EXTENDS Integers, FiniteSets

CONSTANTS
  Emails, Usernames, Passwords,
  Pictures,        \* contents of the pictures users may upload
  NoPicture,       \* any of AVATARS, which are not files of the server
  Registrations,   \* what register is sent: [id, email, username, password]
  FirstUsers, FirstFiles,   \* what there is at the start
  Handlers,        \* requests in progress at a time
  MaxRequests,     \* bound on requests
  MaxTime,         \* bound on the clock
  NONE

Rows(last, time) ==
  [id : 1..last, email : Emails, username : Usernames \cup {NONE}, password : Passwords \cup {NONE},
   changed : 0..time, state : {"PENDING", "APPROVED"}, avatar : Pictures \cup {NoPicture}, sets : Nat]

ASSUME AccountsAssumption ==
  /\ NONE \notin Passwords
  /\ Registrations \subseteq [id : Nat, email : Emails, username : Usernames, password : Passwords]
  /\ FirstUsers \subseteq Rows(10, 1) /\ FirstFiles \subseteq Pictures
  /\ \A u, v \in FirstUsers : u.id = v.id \/ u.email = v.email => u = v
  /\ \A u \in FirstUsers : u.password # NONE <=> u.state = "APPROVED"
  /\ \A u \in FirstUsers : u.avatar \in FirstFiles \cup {NoPicture}

VARIABLES
  now,         \* the clock, in ticks shorter than the hashing of a password
  users,       \* rows of User: [id, email, username, password, changed, state, avatar], and in sets
               \* the number of times the password was set (history)
  students,    \* users with a row of Student
  owners,      \* users with a role USER, which grants them their profile
  links,       \* rows of VerifyEmailToken
  resets,      \* rows of ResetPasswordToken
  files,       \* pictures on the disk
  sessions,    \* tokens given out: [user, createdAt], and [sets, raced] (history)
  made,        \* ids given to rows so far
  req,         \* what each handler works on
  sent,        \* requests so far
  broken,      \* users whose request stopped midway, or who were given a password by a link
               \* older than their account (history)
  crossed      \* whether two requests overlapped or one stopped midway (history)

vars == <<now, users, students, owners, links, resets, files, sessions, made, req, sent, broken, crossed>>
people == <<users, students, owners>>
mail == <<links, resets>>

Idle == [step |-> "idle", user |-> 0, email |-> NONE, link |-> NONE, old |-> NONE, new |-> NONE,
         seen |-> 0, since |-> 0, overlap |-> FALSE]
Working(h) == req[h].step # "idle"
Row(id) == CHOOSE u \in users : u.id = id
Exists(id) == \E u \in users : u.id = id
Put(u) == users' = {v \in users : v.id # u.id} \cup {u}

Init ==
  /\ now = 1
  /\ users = FirstUsers
  /\ students = {u.id : u \in FirstUsers}
  /\ owners = {u.id : u \in {v \in FirstUsers : v.password # NONE}}
  /\ links = {} /\ resets = {} /\ files = FirstFiles /\ sessions = {}
  /\ made = 10 /\ sent = 0 /\ broken = {} /\ crossed = FALSE
  /\ req = [h \in Handlers |-> Idle]

Others(h) == \E g \in Handlers \ {h} : Working(g)
\* A request begins; it overlaps with those that are in progress, and they with it.
Begins(h, r) ==
  /\ ~Working(h) /\ sent < MaxRequests /\ sent' = sent + 1
  /\ req' = [g \in Handlers |->
       IF g = h THEN [r EXCEPT !.overlap = Others(h), !.since = now]
       ELSE [req[g] EXCEPT !.overlap = @ \/ Working(g)]]
  /\ crossed' = (crossed \/ Others(h))
Goes(h, r) == req' = [req EXCEPT ![h] = r] /\ UNCHANGED <<sent, crossed>>
Ends(h) == Goes(h, Idle)
\* A request ends before its last write.
Fails(h, user) ==
  /\ req' = [req EXCEPT ![h] = Idle] /\ crossed' = TRUE /\ broken' = broken \cup {user}
  /\ UNCHANGED <<now, people, mail, files, sessions, made, sent>>
Reads == UNCHANGED <<now, people, mail, files, sessions, made, broken>>

Step(h, step) == req[h].step = step
To(h, step) == [req[h] EXCEPT !.step = step]

-----------------------------------------------------------------------------
(* Registration *)

\* register asks whether the address or the name are taken by someone with a password ...
register(h, link) ==
  /\ \/ \A u \in users : u.email # link.email /\ u.username # link.username
     \/ \E u \in users : (u.email = link.email \/ u.username = link.username) /\ u.password = NONE
  /\ Begins(h, [Idle EXCEPT !.step = "link", !.link = link])
  /\ Reads
\* ... and sends a link, in place of an earlier one if it finds it.
requestEmailVerification(h) ==
  LET earlier == {l \in links : l.email = req[h].link.email}
      new == [req[h].link EXCEPT !.id = made + 1]
  IN /\ Step(h, "link")
     /\ \E gone \in {{}} \cup {{l} : l \in earlier} : links' = (links \ gone) \cup {new}
     /\ made' = made + 1 /\ Ends(h)
     /\ UNCHANGED <<now, people, resets, files, sessions, broken>>
\* Its hour is over, or that of a link that resets a password.
Expire ==
  /\ \/ \E l \in links : links' = links \ {l} /\ UNCHANGED resets
     \/ \E l \in resets : resets' = resets \ {l} /\ UNCHANGED links
  /\ UNCHANGED <<now, people, files, sessions, made, req, sent, broken, crossed>>

\* An account a captain made for an address, which has no password yet.
isPseudoRegistered(email) == \E u \in users : u.email = email /\ u.password = NONE

\* verifyEmail finds the link, asks whether the address has such an account, if not whether
\* anything of the link is taken, and then asks for the account again.
verifyEmail(h, link) ==
  Begins(h, [Idle EXCEPT !.step = "verify", !.link = link]) /\ Reads
AskPseudo(h) ==
  /\ Step(h, "verify")
  /\ Goes(h, To(h, IF isPseudoRegistered(req[h].link.email) THEN "again" ELSE "taken")) /\ Reads
AskTaken(h) ==
  LET taken == \E u \in users : u.email = req[h].link.email \/ u.username = req[h].link.username
  IN /\ Step(h, "taken")
     /\ IF taken THEN Ends(h) ELSE Goes(h, To(h, "again"))
     /\ Reads
AskPseudoAgain(h) ==
  /\ Step(h, "again")
  /\ Goes(h, To(h, IF isPseudoRegistered(req[h].link.email) THEN "update" ELSE "create")) /\ Reads

\* trulyRegister: a user, then a student, then a message to the captain or about him, which
\* is refused when the group has none.
CreateUser(h) ==
  LET link == req[h].link
      new == [id |-> made + 1, email |-> link.email, username |-> link.username,
              password |-> link.password, changed |-> now, state |-> "APPROVED",
              avatar |-> NoPicture, sets |-> 1]
  IN /\ Step(h, "create")
     /\ IF \E u \in users : u.email = link.email
        THEN Ends(h) /\ Reads
        ELSE /\ users' = users \cup {new} /\ made' = made + 1
             /\ Goes(h, [To(h, "student") EXCEPT !.user = new.id, !.seen = 1])
             /\ UNCHANGED <<now, students, owners, mail, files, sessions, broken>>
CreateStudent(h) ==
  /\ Step(h, "student")
  /\ IF ~Exists(req[h].user) THEN Fails(h, req[h].user)
     ELSE /\ students' = students \cup {req[h].user}
          /\ Goes(h, To(h, "tell"))
          /\ UNCHANGED <<now, users, owners, mail, files, sessions, made, broken>>
verify(h) ==
  /\ Step(h, "tell")
  /\ \/ Goes(h, To(h, "unlink")) /\ Reads
     \/ Fails(h, req[h].user)

\* Variant: the account waits still.
LeftPending(u, link) ==
  [u EXCEPT !.username = link.username, !.password = link.password, !.avatar = NoPicture,
            !.changed = now, !.sets = @ + 1]
\* The link's picture is a ready one; its Telegram id, written too, is left out.
WithLink(u, link) ==
  [u EXCEPT !.username = link.username, !.password = link.password, !.avatar = NoPicture,
            !.changed = now, !.state = "APPROVED", !.sets = @ + 1]
\* pseudoRegister: the user, then the student.
UpdateUser(h) ==
  LET link == req[h].link
  IN /\ Step(h, "update")
     /\ IF \A u \in users : u.email # link.email THEN Ends(h) /\ Reads
        ELSE \E u \in users :
               /\ u.email = link.email /\ Put(WithLink(u, link))
               /\ Goes(h, [To(h, "profile") EXCEPT !.user = u.id, !.seen = u.sets + 1])
               /\ UNCHANGED <<now, students, owners, mail, files, sessions, made, broken>>
UpdateStudent(h) ==
  /\ Step(h, "profile")
  /\ IF req[h].user \notin students THEN Fails(h, req[h].user)
     ELSE Goes(h, To(h, "unlink")) /\ Reads

DeleteLink(h) ==
  /\ Step(h, "unlink")
  /\ IF \A l \in links : l.id # req[h].link.id THEN Fails(h, req[h].user)
     ELSE /\ links' = {l \in links : l.id # req[h].link.id}
          /\ Goes(h, To(h, "own"))
          /\ UNCHANGED <<now, people, resets, files, sessions, made, broken>>

\* A token carries the time it is made at.
Session(h, user, sets, raced) == [user |-> user, createdAt |-> now, sets |-> sets, raced |-> raced]
getTokens(h, user, sets, raced) ==
  sessions' = sessions \cup {Session(h, user, sets, raced \/ req[h].overlap)}

CreateRole(h) ==
  /\ Step(h, "own")
  /\ IF req[h].user \notin students THEN Fails(h, req[h].user)
     ELSE /\ owners' = owners \cup {req[h].user}
          /\ getTokens(h, req[h].user, req[h].seen, FALSE) /\ Ends(h)
          /\ UNCHANGED <<now, users, students, mail, files, made, broken>>

\* A captain's list of addresses, of which one here: a user, a student, and the group's role.
addUnregistered(h, email) ==
  /\ \A u \in users : u.email # email
  /\ Begins(h, [Idle EXCEPT !.step = "pseudo", !.email = email]) /\ Reads
CreatePseudo(h) ==
  LET new == [id |-> made + 1, email |-> req[h].email, username |-> NONE, password |-> NONE,
              changed |-> now, state |-> "PENDING", avatar |-> NoPicture, sets |-> 0]
  IN /\ Step(h, "pseudo")
     /\ IF \E u \in users : u.email = new.email THEN Ends(h) /\ Reads
        ELSE /\ users' = users \cup {new} /\ made' = made + 1
             /\ Goes(h, [To(h, "member") EXCEPT !.user = new.id])
             /\ UNCHANGED <<now, students, owners, mail, files, sessions, broken>>
CreateMember(h) ==
  /\ Step(h, "member")
  /\ IF ~Exists(req[h].user) THEN Fails(h, req[h].user)
     ELSE /\ students' = students \cup {req[h].user} /\ Ends(h)
          /\ UNCHANGED <<now, users, owners, mail, files, sessions, made, broken>>

\* Variant: the student's row and role stay.
RowOnly(h) ==
  /\ Step(h, "delete")
  /\ users' = {u \in users : u.id # req[h].user} /\ Ends(h)
  /\ UNCHANGED <<now, students, owners, mail, files, sessions, made, broken>>
\* deleteUser: the role USER, then the user with all that hangs on the row.
deleteUser(h, user) ==
  /\ Begins(h, [Idle EXCEPT !.step = "delete", !.user = user])
  /\ owners' = owners \ {user}
  /\ UNCHANGED <<now, users, students, mail, files, sessions, made, broken>>
DeleteRow(h) ==
  /\ Step(h, "delete")
  /\ IF ~Exists(req[h].user) THEN Fails(h, req[h].user)
     ELSE /\ users' = {u \in users : u.id # req[h].user}
          /\ students' = students \ {req[h].user} /\ owners' = owners \ {req[h].user} /\ Ends(h)
          /\ UNCHANGED <<now, mail, files, sessions, made, broken>>

-----------------------------------------------------------------------------
(* Passwords and sessions *)

\* Variant: a token of the tick of the change is refused, an older one is not.
YoungRefused(session, user) == user.changed < session.createdAt
\* JwtStrategy: the user exists and the token is not older than the password.
Accepted(session, user) == user.changed <= session.createdAt
Valid(session) == \E u \in users : u.id = session.user /\ Accepted(session, u)

\* login: the guard compares the password, which takes a while, and the token is made.
login(h, name, password) ==
  \E u \in users :
    /\ name \in {u.email, u.username} /\ u.password = password /\ u.state # "PENDING"
    /\ Begins(h, [Idle EXCEPT !.step = "compare", !.user = u.id, !.seen = u.sets]) /\ Reads
OpenSession(h) ==
  /\ Step(h, "compare")
  /\ getTokens(h, req[h].user, req[h].seen, FALSE) /\ Ends(h)
  /\ UNCHANGED <<now, people, mail, files, made, broken>>
\* refresh: the guard reads the user, and a token is made.
refresh(h, session) ==
  /\ Valid(session)
  /\ Begins(h, [Idle EXCEPT !.step = "renew", !.old = session]) /\ Reads
RenewSession(h) ==
  /\ Step(h, "renew")
  /\ getTokens(h, req[h].old.user, req[h].old.sets, req[h].old.raced) /\ Ends(h)
  /\ UNCHANGED <<now, people, mail, files, made, broken>>

\* forgotPassword, for a user with a password: a link in place of the earlier one.
forgotPassword(email) ==
  /\ \E u \in users : u.email = email /\ u.password # NONE
  /\ sent < MaxRequests /\ sent' = sent + 1
  /\ resets' = {r \in resets : r.email # email} \cup {[id |-> made + 1, email |-> email]}
  /\ made' = made + 1
  /\ UNCHANGED <<now, people, links, files, sessions, req, broken, crossed>>
\* resetPassword and updatePassword, which first compares the old one: ...
resetPassword(h, link, new) ==
  /\ Begins(h, [Idle EXCEPT !.step = "hash", !.link = link, !.email = link.email, !.new = new]) /\ Reads
updatePassword(h, session, old, new) ==
  /\ Valid(session) /\ old # new
  /\ \E u \in users :
       /\ u.id = session.user /\ u.password = old
       /\ Begins(h, [Idle EXCEPT !.step = "hash", !.user = u.id, !.email = u.email, !.new = new])
  /\ Reads
\* ... setPassword hashes the new one, takes the time, and writes both.
HashPassword(h) ==
  /\ Step(h, "hash") /\ req[h].since < now
  /\ Goes(h, [To(h, "write") EXCEPT !.since = now]) /\ Reads
\* Variant: the time of the change is not written.
SetOnly(u, password, time) == [u EXCEPT !.password = password, !.sets = @ + 1]
WithPassword(u, password, time) ==
  [u EXCEPT !.password = password, !.changed = time, !.sets = @ + 1]
setPassword(h) ==
  LET found == {u \in users : u.email = req[h].email}
  IN /\ Step(h, "write")
     /\ users' = {IF u \in found THEN WithPassword(u, req[h].new, req[h].since) ELSE u : u \in users}
     /\ IF req[h].link # NONE THEN Goes(h, To(h, "spend")) /\ UNCHANGED sessions
        ELSE /\ \/ found = {} /\ getTokens(h, req[h].user, 0, FALSE)
                \/ \E u \in found : getTokens(h, req[h].user, u.sets + 1, FALSE)
             /\ Ends(h)
     /\ broken' = broken \cup {u.id : u \in {v \in found : v.password = NONE}}
     /\ UNCHANGED <<now, students, owners, mail, files, made>>
SpendLink(h) ==
  /\ Step(h, "spend")
  /\ resets' = resets \ {req[h].link} /\ Ends(h)
  /\ UNCHANGED <<now, people, links, files, sessions, made, broken>>

-----------------------------------------------------------------------------
(* Pictures *)

\* updateAvatar and deleteAvatar read the picture of the user, ...
updateAvatar(h, u, new) ==
  /\ Begins(h, [Idle EXCEPT !.step = IF u.avatar \in files THEN "count" ELSE "save",
                !.user = u.id, !.old = u.avatar, !.new = new])
  /\ Reads
\* Variant: counted without a look at the others.
OnlyMine(picture) == TRUE
\* ... which goes when one user has it, ...
OnlyUser(picture) == Cardinality({u \in users : u.avatar = picture}) = 1
CountUsers(h) ==
  /\ Step(h, "count")
  /\ Goes(h, To(h, IF OnlyUser(req[h].old) THEN "erase" ELSE "save")) /\ Reads
deleteFile(h) ==
  /\ Step(h, "erase")
  /\ IF req[h].old \notin files THEN Fails(h, req[h].user)
     ELSE /\ files' = files \ {req[h].old} /\ Goes(h, To(h, "save"))
          /\ UNCHANGED <<now, people, mail, sessions, made, broken>>
\* ... save the new one under a name made of its contents, and note it.
saveByHash(h) ==
  /\ Step(h, "save")
  /\ files' = IF req[h].new = NoPicture THEN files ELSE files \cup {req[h].new}
  /\ Goes(h, To(h, "note"))
  /\ UNCHANGED <<now, people, mail, sessions, made, broken>>
NoteAvatar(h) ==
  /\ Step(h, "note")
  /\ IF ~Exists(req[h].user) THEN Fails(h, req[h].user)
     ELSE /\ Put([Row(req[h].user) EXCEPT !.avatar = req[h].new]) /\ Ends(h)
          /\ UNCHANGED <<now, students, owners, mail, files, sessions, made, broken>>

-----------------------------------------------------------------------------
Tick ==
  /\ now < MaxTime /\ now' = now + 1
  /\ UNCHANGED <<people, mail, files, sessions, made, req, sent, broken, crossed>>

\* The server stops, and deletes when it starts the users who wait with a password.
Restart ==
  /\ \E h \in Handlers : Working(h)
  /\ broken' = broken \cup {req[h].user : h \in Handlers}
  /\ req' = [h \in Handlers |-> Idle] /\ crossed' = TRUE
  /\ users' = {u \in users : ~(u.state = "PENDING" /\ u.password # NONE)}
  /\ students' = {s \in students : \E u \in users' : u.id = s}
  /\ owners' = owners \cap students'
  /\ UNCHANGED <<now, mail, files, sessions, made, sent>>

Serve(h) ==
  \/ \E link \in Registrations : register(h, link)
  \/ \E link \in links : verifyEmail(h, link)
  \/ requestEmailVerification(h) \/ AskPseudo(h) \/ AskTaken(h) \/ AskPseudoAgain(h)
  \/ CreateUser(h) \/ CreateStudent(h) \/ verify(h) \/ UpdateUser(h) \/ UpdateStudent(h)
  \/ DeleteLink(h) \/ CreateRole(h)
  \/ \E email \in Emails : addUnregistered(h, email)
  \/ CreatePseudo(h) \/ CreateMember(h)
  \/ \E u \in users : deleteUser(h, u.id)
  \/ DeleteRow(h)
  \/ \E name \in Emails \cup Usernames, password \in Passwords : login(h, name, password)
  \/ OpenSession(h) \/ RenewSession(h)
  \/ \E session \in sessions :
       \/ refresh(h, session)
       \/ \E old, new \in Passwords : updatePassword(h, session, old, new)
  \/ \E link \in resets, new \in Passwords : resetPassword(h, link, new)
  \/ HashPassword(h) \/ setPassword(h) \/ SpendLink(h)
  \/ \E u \in users, new \in Pictures \cup {NoPicture} : updateAvatar(h, u, new)
  \/ CountUsers(h) \/ deleteFile(h) \/ saveByHash(h) \/ NoteAvatar(h)

Next ==
  \/ \E h \in Handlers : Serve(h)
  \/ \E email \in Emails : forgotPassword(email)
  \/ Expire \/ Tick \/ Restart

Spec == Init /\ [][Next]_vars

-----------------------------------------------------------------------------
(* Properties *)

\* Rows have their columns, no two users an id or an address, and students and their own
\* roles are of users there are (schema.prisma:19-35, 89-105, 318-327).
TypeOK ==
  /\ users \subseteq Rows(made, now)
  /\ \A u, v \in users : u.id = v.id \/ u.email = v.email => u = v
  /\ owners \subseteq students /\ students \subseteq {u.id : u \in users}
  /\ files \subseteq Pictures
  /\ \A s \in sessions : s.user \in 0..made /\ s.createdAt \in 0..now

Served(id) == \E h \in Handlers : req[h].user = id

\* However verifications, lists of addresses, deletions and stops cross, a user can log in
\* just when he has a password, and once no request works on him and none was cut short he
\* is a student and, with a password, owns his profile (AuthService.ts:319-375, 418-448,
\* GroupService.ts:130-140, UserService.ts:272-282, PrismaService.ts:8-16).
AccountsWhole ==
  \A u \in users :
    u.id \notin broken =>
      /\ u.password # NONE <=> u.state = "APPROVED"
      /\ ~Served(u.id) => u.id \in students /\ (u.password # NONE => u.id \in owners)

\* A session that was opened with an earlier password is refused, unless it was made by a
\* request that overlapped with another; and one that was opened with the present password
\* is accepted, that of the change itself too (JwtStrategy.ts:22-44, AuthService.ts:73-91,
\* 173-226, 266-274, 377-391).
SessionsAgree ==
  \A s \in sessions, u \in users : u.id = s.user =>
    /\ Accepted(s, u) /\ ~s.raced => s.sets = u.sets
    /\ s.sets = u.sets => Accepted(s, u)

\* Without requests that cross or stop midway the picture of a user is on the disk, whoever
\* else had it and gave it up (UserService.ts:419-451, FileService.ts:17-39).
PicturesKept ==
  ~crossed => \A u \in users :
    u.avatar # NoPicture /\ ~Served(u.id) => u.avatar \in files
=============================================================================
