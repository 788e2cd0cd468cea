# Verification of fictadvisor-api

TLA+ models of the fictadvisor backend (NestJS, Prisma, PostgreSQL), checked with
TLC on small instances and, where stated, proved with TLAPS for every instance.
Definitions keep the names of the code; `PROJECT.json` maps each of them to the
lines it stands for.

## 1. The system

One Node.js process serves HTTP requests. A request runs without interruption
between two `await`s; every `await` is a statement of PostgreSQL (atomic, the code
opens no transactions of its own), a call of the Telegram bots or an e-mail. Two
requests interleave at their awaits. Some state lives only in the memory of the
process: the counters of the admission queues and the timers that expire e-mail
tokens. A restart loses it; `onModuleInit` hooks run before the server listens.

| Component | State | Operations | What is hard | What makes it correct |
|---|---|---|---|---|
| Routing, guards, pipes (`controllers`, `security`, `pipes`) | the routing table | every endpoint of the 20 controllers | routes that share a place, guards before pipes, rows that are gone | a request reaches the endpoint it was written for, is let through just when its sender may, and is refused as documented |
| Permissions and roles (`PermissionService`, `RoleService`, `GrantService`) | roles, grants, user_roles | match; create, update and delete roles and grants; give and take roles | wildcards, weights moved one by one, changes between two checks | the weightiest matching grant decides; making room keeps the order |
| Accounts (`AuthService`, `JwtStrategy`, `UserService`, `FileService`, `PrismaService`) | users, students, links, sessions, files | register, verify, addresses a captain adds, delete, log in, refresh, passwords, pictures | several statements per account, hashing while others write, links that outlive users, stops | an account is whole unless it was cut short; a new password ends older sessions; a picture in use stays |
| E-mail tokens (`AuthService`) | both tables of links; timers in memory | ask, ask again, use, expire | several links, timers against requests, restart | a link lives an hour, is one per address, is used once |
| Membership (`GroupService`, `UserService`) | students, group roles | request, verify, leave, remove, switch captain or moderator, move | one endpoint is several statements | a group is in order, one role per member, nobody in two groups |
| Selective disciplines (`UserService`) | selective_disciplines, amounts | select, deselect, move, put from a file | check, then attach | own group, within the amount |
| Polls (`PollService`, `DisciplineTeacherService`, `QuestionService`, `TeacherService`) | questions, answers, removals | answer, moderate, remove from the poll, edit questions and teachers | a loop of statements, edits meanwhile, a text that comes back later | what `Survey` says; forms whole; the lists agree with what is accepted |
| Schedule and dates (`ScheduleService`, `DateService`) | events, infos, lessons, types, teachers of disciplines | create, update, delete events; put teachers by hand; the pages | arithmetic over weeks, rows shared by events | each occurrence has its info, pages agree, teachers stay while they teach |
| Admission queue (`AdmissionService`) | queues, positions; counter in memory | create, update, delete, enter, advance, move, leave, notify | numbers from memory, check-then-create, lost updates, restart | numbers unique, first come first called, whoever is called is told |
| Teacher rating and profiles | teachers | nightly recomputation, reads | arithmetic | - |
| Entrant documents and contracts | entrants, contracts | fill, send, approve | mail before write | - |
| Parsers, bots, mail | external | - | - | - |
| CRUD (subjects, cathedras, resources, contacts, Telegram groups) | their tables | one statement each | none beyond the database's constraints | - |

Components call each other: every endpoint is reached through the guards, which read
the roles that other endpoints write; registration gives roles through `GroupService`,
membership reuses the registration's `verify` when a group is requested; changing a
group clears the selective disciplines, verification puts those the files list; events
put teachers into the disciplines that the poll asks about.

## 2. Modules

| Module | Models | Composition |
|---|---|---|
| `Permissions`, `Endpoints` | permissions, built-in roles and matching; the routing table (generated from the decorators, endpoint by endpoint, and read against them) | - |
| `Access` | a request on its way through dispatch, guards and pipes, and the endpoints that change roles and grants | extends `Endpoints` |
| `Accounts` | accounts, passwords, sessions, pictures | beside `EmailTokens`, which has the links in time |
| `EmailTokens` | the tokens of `AuthService` that are sent by e-mail | - |
| `Membership` | who is in a group, in what state, with what role (`UserService`, `GroupService`) | - |
| `Selective` | selective disciplines (`UserService`), with moves and verification abridged | shares the endpoints of `Membership` |
| `Dates` | `DateService`: semesters, weeks, days as functions of the time | - |
| `Polls` | `sendAnswers`, the moderators' bot, removals, lists, edits | extends `Dates`, implements `Survey` |
| `Survey` | what the poll promises about its answers | abstract |
| `Schedule` | events and what they do to the types, teachers and roles of disciplines | extends `Dates` |
| `AdmissionQueue` | `AdmissionService`, `AdmissionController` | implements `Line`, one request at a time |
| `Line` | what the queue promises to entrants and staff | abstract |
| `MC...` | instances for TLC: sets, functions, symmetry | extends its module |
| `..._proofs` | TLAPS proofs | extends its module |

All of them are written the same way. `Handlers` is the set of requests that can be
in progress at the same time; `req[h]` is the request a handler serves: `pc` or `step` names
the await it waits at, the other fields are the local variables that are still
needed. An action is what the code does between two awaits: the answer of one
statement, the code up to the next one, and that statement's effect. One handler
gives the serial executions and two all interleavings of two requests; the proofs
are about any number. A Prisma call with nested writes is one transaction of the
database and so one step: it happens as a whole or fails as a whole (an update that
names a row which is gone fails). Exceptions end the request and leave what was
written before.

### Access

`rank` is the role of user "1" in group "1"; `held` are the custom roles of user "2";
`roles` and `grants` their rows. Things are "1" (of group "1"), "2" (of group "2") and
"0" (absent), so a guard finds the group of a thing by its id.

| Actions | Code |
|---|---|
| `Send` | a request comes in: any endpoint, sender and ids, and any query; `Dispatch` picks the first route that fits |
| `NoGuards`, `JwtGuard`, `TelegramGuard`, `LocalGuard`, `GroupBy...Guard` | the guards in their order |
| `getPermissions`, `PermissionGuard` | the permissions the endpoint asks for, filled with the request's parameters, one await each |
| `Pipes`, `Serve`, `Done` | the pipes, and an answer |
| `giveRole`, `removeRole`, `createRole...`, `deleteRole`, `deleteGrant` | one statement each |
| `Insert`, `updateHigherGrants`, `Raise`, `Raised`, `Create`, `Update` | a grant put into a role: the heavier ones are read and raised one by one |

A request has two maps of parameters: `ids`, what its path and body say, which pipes and
handlers use, and `seen`, what the guards find by `RequestUtils.get`, which looks into the
query first (and into what a group guard has put there). The query may repeat any of the
parameters in `Repeated` that the guards look up (`LookedUp`), with the same or another id.
A request whose query names another thing than its path is decided about that other
thing: this is what the code does, and `WayInv` says so of every request.

Requests are well formed: they bring the parameters their endpoint declares. The batch
of grants comes in ascending order of weight. A grant written back with the `role` it
was read with may be refused by the client of the database. `named` are the ids of
roles given so far: ids are random in the code and none is given twice, or a request
that waits would find another role under the id of one that was deleted. Parents of roles are not
modelled: the recursion that would load them is not awaited, and its result reaches no
answer.

### Accounts

`users`, `students`, `owners`, `links`, `resets`, `files` are tables and the disk,
`sessions` the tokens given out (stateless in the code), `broken` and `crossed`
history. A step of a request is the code between two awaits; hashing a password takes
at least one tick of the clock, the time an answer of the database takes may be none.
An undefined alternative of a Prisma `OR` is dropped (external). A registration sets the
picture to none, as `pseudoRegister` does (a picture from Telegram is left out). Of
`UserService`, `updateUser` (a user's columns by his own hand or an administrator's) and
`deleteStudent` are not actions of the module.

| Actions | Code |
|---|---|
| `register`, `requestEmailVerification` | the question whether the address is taken, and the link |
| `verifyEmail`, `AskPseudo`, `AskTaken`, `AskPseudoAgain`, `CreateUser`, `CreateStudent`, `verify`, `UpdateUser`, `UpdateStudent`, `DeleteLink`, `CreateRole` | `verifyEmail` with `trulyRegister` or `pseudoRegister` |
| `addUnregistered`, `CreatePseudo`, `CreateMember` | an address on a captain's list |
| `deleteUser`, `DeleteRow` | the role, then the row with what hangs on it |
| `login`, `OpenSession`, `refresh`, `RenewSession` | what the guard reads, and the token made after it |
| `forgotPassword`, `resetPassword`, `updatePassword`, `HashPassword`, `setPassword`, `SpendLink` | the two ways to a new password |
| `updateAvatar`, `CountUsers`, `deleteFile`, `saveByHash`, `NoteAvatar` | pictures, which are named by their contents |
| `Expire`, `Tick`, `Restart` | links go, the clock, a stop (and the start's deletion of users who wait with a password) |

### Polls and Survey

`questions` and `teachers` are tables with their roles, `told` what reached the
moderators' chat, `clock` walks through the moments of interest. `sendAnswers` is
`roles`, `questions`, `answered`, `removed`, `rest`, `write`: the awaits before its loop
and the loop. Edits (questions and their roles, teachers and theirs, each at once),
the bot's `sendResponse`, `removeFromPoll`, the clock and `Stop` go on meanwhile.

`Survey` is the promise: a form is let in only while the teacher was not taken off the
poll, admitted only while the poll is open, filled only after that; an answer is given
once and stands until its question or teacher goes. `PromiseKept` is
`INSTANCE Survey` with `open` the time check, `withdrawn` the removals, `book` the
answers, `entered` and `admitted` the forms of requests past the removals' check and
past all checks. So the checks of the code, made one await after another, amount to
one decision, and whatever comes between them and the writes is in the promise.

### Schedule

`events` are the rows with the numbers of their infos and their lessons, `types`,
`teachers`, `roles` what a discipline has. Time is thirds of a day from a Monday; a
semester starts on a Monday and there is no daylight saving time. Creating, updating and
deleting an event and the two endpoints that put teachers by hand are split at every
await; the pages of a week, a day and two weeks, and the page asked for without a week
(`getAllGroupEventsNow`), are operators. `RoleOf` is `TeacherRoleAdapter`: CONSULTATION and
WORKOUT have the same role OTHER, and what is decided by the role is so for both.
`TypeNamesOfSchema` are the names of the schema; OTHER, a role and no name of a type, makes
the statement that gets it fail. An update with a period and no end keeps the end in the
column, whatever it read before (`NewEnd`). Events and
rows get new numbers; `ScheduleAssumption` asks the first tables to be tables (columns,
each number once, roles of rows that are there).

### AdmissionQueue

`queue`, `users`, `rows` are the tables; `counter` is the map `questionLastPosition`
in memory; `called` is the history of the PROCESSING messages ("come in") that the
bot has accepted.

| Actions | Code |
|---|---|
| `CreateQueue`, `UpdateQueue`, `DeleteQueue`, `CreateUser` | one statement each |
| `BeginCreate`, `CheckPosition`, `GeneratePosition`, `InsertPosition` | `createQueueUser`: read the queue, look for a position, take the number from the counter, store |
| `BeginAdvance`, `Advance`, `Call` | `advanceQueue` |
| `BeginUpdate`, `Update`, `TellMoved`, `Call`, `Sweep`, `Tell` | `updateQueueUser` and the `notifyQueue` it ends with |
| `DeletePosition`, `SayBye` | `deleteQueuePosition` |
| `Restart` | the process dies; `onModuleInit` rebuilds the counter from the largest stored code before the server listens |

Two things of the code are easy to miss and modelled as they are: the duplicate check
filters by the whole queue row, `updatedAt` included (`version`), and the write of
`lastNotifiedPosition` is a promise nobody awaits, so it never happens.

`Line` is the promise: one ticket for an entrant in a queue, with the next number; the queue
calls who waits in front; who is told to come in is being called; an order of the staff
changes the place or the status it names and nothing else; after a restart numbers go on
from the largest ticket. `AdmissionQueue` has `INSTANCE Line` with the rows without their ids
as `tickets`, the counter without a number that is taken and not stored as `last`, and the
update that was read and not written as the order in `asked`. Other steps are stutters.
Only serial requests implement it: two that cross make two tickets or undo each other's change.

### EmailTokens

Both tables of tokens are asked for in the same way, so the module is one table;
`RepeatAllowed` says whether it is the one `repeatEmailVerification` works on (with it
`FALSE` the behaviours are a subset). `timers` are the `setTimeout` callbacks, `now`
the clock, `mailed`, `asked`, `used` and `events` history for the properties.

| Actions | Code |
|---|---|
| `Ask`, `AskAgain`, `Find`, `Drop`, `Create`, `Mail` | `requestEmailVerification`, `forgotPassword`; `AskAgain` is `repeatEmailVerification`, which stores the row it found again, `createdAt` included |
| `BeginUse`, `SetPassword`, `Delete` | `resetPassword` and `verifyEmail` up to the deletion of the token; `verifyEmail` may throw after its effect (`"thrown"`: no captain to tell, a refused message), and the link stays |
| `Fire`, `Tick`, `Restart` | a timer, the clock, a restart that loses timers and requests |

`Tick` does not pass a timer that is due: the delay of the event loop is left out.
What registration does with the user is not part of the module; a refusal before the
token is looked for is a request that does not begin.

### Membership

`student` is the columns of a student that matter, `roles` the rows of `user_roles`
that belong to the three roles of a group. Each endpoint begins with an action of its
name and goes on through the shared steps, as the code does: `ReadRole` and `SetRole`
are `changeGroupRole`, `ReadGroup` and `Give` are `addGroupRole`, `TakeRole` is
`removeRole`. `findFirst` without an order takes any row that fits. `OldCaptain` is
the lookup of `switchCaptain`, `Decline` the end of `removeStudent`, which deletes a
user without a username and then updates the deleted student, an error that comes
after the writes.

`Claim`, `TakeAccount`, `Regroup` are `verifyEmail` with `pseudoRegister`, for a student whom
a captain has added: the user gets a username (`pseudo` is cleared), then the student's row
the group of the registration. His role stays in the old group; `strayed` remembers him.
`RemoveStudent` may be asked by any student: what the guard has let through it does not
know (the permission may have been asked for another group), so whoever is there may ask,
with a role of any group or none, and `CompareRanks` decides by the ranks as
`removeStudent` does, without a look at the remover's group.

`PendingOnly` says that captains verify those the list of unverified students shows;
`SwitchNames` are the roles `moderatorSwitch` is asked for (its body may name any;
with CAPTAIN a group gets a second captain); `MessageMayFail` lets the bot refuse.

### Selective

`discipline` is the table of disciplines, `chosen` the join table, `member` a
student's group and state. `Ask`, `ReadGroup`, `ReadChosen`, `Attach`, `Detach` are
`selectDisciplines` and `deselectDisciplines`; `ChangeGroup`, `ReadChosen`,
`ReadNew`, `Clear`, `Create` (once per discipline), `Move` are `changeGroup`; `Approve`,
`ReadGroup`, `Put` (once per row of the files) are the verification with
`putSelective`; `Leave` and `RequestNewGroup` change the member and leave what he has
chosen. `Available` and `Remaining` are the page of `getRemainingSelective`.

`Membership` has the steps of roles and states; here an endpoint's effect on group
and state is one step, and the steps kept are those that touch disciplines. A missing
row of amounts is an amount of 0, which refuses as the error of the code does. An id
that is named twice in a request is refused by the code and not modelled.

`events` remembers, per student, what the properties make a condition of: requests
that crossed (`cross`), a new group asked for with disciplines chosen (`moved`),
disciplines put from a file (`file`).

## 3. Runs

| Run | Instance | Shows |
|---|---|---|
| `access` | 2 users, the bot and nobody, 4 ranks, every endpoint with every id, with and without a query that repeats one of 5 parameters; 2 edits of roles and grants that may cross | a request whose query names nothing else is answered as it is meant, refusals are documented, grants keep their order |
| `accounts` | 4 requests, 2 at a time, 3 addresses, 2 names, 2 passwords, 1 picture, 2 ticks, expiry, stops | accounts whole, sessions agree with passwords, pictures stay |
| `polls` | 1 approved student and another, 5 teachers, 3 questions and a new one, 2 requests at a time, 1 edit, 2 moments, the moderators' bot, a stop | forms whole, lists agree, `Survey` implemented |
| `schedule` | 2 events, 2 disciplines, 2 teachers, 4 names of types, two of which share a role, 7 weeks, 2 requests, 2 at a time, 2 moments | infos, pages, twins, teachers |
| `admission_concurrent` | 1 queue, 2 users, 2 requests at a time, 2 numbers, 3 rows, an update of the queue, 1 restart | numbers unique, none called for two people |
| `admission_serial` | 1 queue, 3 users, 1 request at a time, 3 numbers, entries that are forced, 2 restarts, refused messages | one position per entrant, first come first called, the places told are those the page shows, `Line` implemented |
| `admission_told` | 1 queue, 2 users, 2 requests at a time, fair continuations | whoever is called is told |
| `tokens` | 1 address, 2 tokens, 2 requests at a time, an hour of 2 ticks and a minute of 1, 3 ticks, refused mails, a repeat, restarts | a link lives an hour, not longer and not shorter; one per address, used once, none within the minute |
| `tokens_restart` | 1 request at a time, 3 tokens | violation: after a restart a link outlives its hour |
| `membership_serial` | 3 students, 2 groups, 1 request at a time, every operation | the group is in order after each operation, until a registration takes a student to another group |
| `membership_concurrent` | 2 students, 2 groups, 2 requests at a time that add, claim, promote, remove, move or delete | no student with two roles, none outside his group unless a registration moved him, none after deletion; no removal takes a captain's role |
| `selective` | 1 student, 2 groups, 2 subjects, 2 periods, 4 discipline ids, 2 requests at a time | what is chosen is of the group and within the amount; page and endpoint agree; no discipline twice |

Why the bounds are enough. What can go wrong between requests goes wrong between two of
them: each check is followed by one write, and the other request is what comes in between.
Two requests on one entrant, address, student, event or form give every order of their
steps; a second queue, address or student adds a copy that shares nothing with the first,
except where the property is about two of them (entrants of a queue, students of a group,
users of one picture, events of one discipline), and there the instance has two or three.
The runs that need long histories (a number handed out after deletions and a restart, three
students in line) are serial, and so can be longer. An hour of two minutes leaves a link
time to be replaced, repeated and used before its timer; the clock stops after an hour and a
half in `tokens`, after two hours in `tokens_restart`. In `selective` one group offers two
disciplines of a period and the other one of another period, with an amount of 1: both too
many at once and too many one after the other happen, a move finds a subject in the new
group in another period and misses the other, and one id is left for the discipline a move
creates. In `access` requests that change nothing come one at a time and before the edits,
since the answer to a request depends on the tables alone; the edits cross with one another.
In `accounts` four requests are what it takes to log in, change the password, log in again
and refresh. In `polls` the teachers are one of a required discipline, one of a selective
one that the student may have chosen, one of the semester to come, and two who may join by
the edit; one of the required questions is a text, which a refused message keeps from being
stored. In `schedule` events start in the first, the second and the last weeks, so that
every period ends before, at and after the last fortnight, and an update moves, lengthens,
shortens and changes the period; two moments are the first and the last week but one, for
the pages count from today. To keep `membership_concurrent` short, registering, asking for a
group, leaving and stepping down to STUDENT cross with nothing there; they are in
`membership_serial`, and the theorems have them cross with any others. The bounds `MaxCode`,
`MaxRows`, `MaxVersion`, `MaxRestarts`, `MaxTokens`, `MaxTime`, `MaxEdits`, `MaxRequests`,
`RepeatOnce` and `MaxAsked` are guards that the code does not have.

Symmetry is used where only invariants and action properties are checked, over
handlers and over users, addresses, students and groups that the instance treats
alike; `admission_told` has none.

`CHECK_DEADLOCK FALSE` is in every configuration: with every entrant, token, edit or
number of the bound used up nothing is left to ask for, and a server may stay idle.

Fairness. `admission_told` assumes weak fairness of `Step(h)`: the event loop runs
the continuation of an await whose answer has come. Requests are not fair: nobody
has to ask. A restart is excused in the property, refusals are off and `Restart` is
bounded by 0 in this run; without that `GoingIsTold` is false by what the code does
(a refused MOVED message ends the request, see the hazards). No other part of the
system promises that something happens: a request that is not cut short ends after
finitely many steps, and what is not asked for is not done.

### Conditions the properties name

- `AnsweredAsMeant` compares the guards with what endpoints mean for user "1", the bot
  and strangers; what user "2" may is what his custom grants say. It compares them for
  requests in which the guards saw what was sent (`SeenAsSent`): those whose query names
  another thing than the path are let through or refused for the wrong thing. That every
  request gets the endpoint it was written for has no condition. `RefusalsDocumented`
  leaves out the 401 and three refusals the documentation lacks (below).
  `TiesPass` and `RankKept` hold until two insertions of grants crossed, one was cut short,
  or a grant was updated under another role's address (`torn`), and for bodies that
  bring their grants lightest first and no two of a weight.
- `AccountsWhole` leaves out users on whom a request was cut short (`broken`): by a stop,
  by a statement that failed because the user or the link is gone, or by a refused
  message; and one who got a password by a link older than his account.
  `SessionsAgree` leaves out tokens made by a request that overlapped with another.
  `PicturesKept` is about requests that neither cross nor stop midway.
- `NoHalfForms` leaves out forms whose request ended between its answers, edits after the
  first answer, and forms in which every required answer that is lacking is a text that was
  told to the moderators: it is stored when they let it through and never when they decline
  it, and the form cannot be sent again. That two crossing requests with one form in
  different orders stop each other is such an end.
- `PagesAgree` says of the page without a week which events it shows, not at what times.
  `TeachersKept` allows that a teacher leaves whose role is OTHER when a type with that
  role loses its last event. `ListsAgree` is about the states in which the poll's list does
  not fail (`getDisciplineTeachersFails`: no semester has begun that it can name).
- `OccurrencesKept` and `PagesAgree` speak of the times of an event as long as its last
  occurrence is on the weekday of the first and ends after it starts (`Regular`);
  `OccurrencesKept` leaves out events in `lacking`. `NoTwins` and `TeachersKept` are about
  requests that do not cross, and `NoTwins` not about a teacher put by hand into a
  discipline that has him.
- `LinkDies` needs that no link was sent again and the process was not restarted;
  `LinkLives` that none was sent again (the old timer fires on the new sending); `OneLink`
  that requests did not cross; `OneUse` that they did not cross either, that no restart came
  in between and that no `verifyEmail` threw after its effect (`thrown`); `RateLimit` that
  they neither crossed nor sent a link again, because a repeat copies `createdAt` and thus
  the age of the link.
- `OnePosition`, `NoticeAgrees` and `LineKept` are checked for one request at a time.
- `OrderKept` is about the states with no request in progress, one request at a time,
  captains who verify those on the list and `moderatorSwitch` asked for MODERATOR or
  STUDENT, unless a message was refused or a registration has taken a student to another
  group (`strayed`).
- `CaptainsStay`: requests may cross and the remover may be anyone, but nobody is being
  verified (`MovingOps`).
- `OneRole` under crossing requests leaves out verification (`MovingOps`): two
  verifications of one student give him a role each. A student in `strayed` may hold his
  role outside of his group, and still has one at most.
- `OwnGroup`, `WithinAmount` and `NoTwins` of `Selective` except a student whose requests
  crossed, who asked for another group with disciplines chosen, or, for the amount,
  whose disciplines came from a file. `OfferedAccepted` has no condition: whatever
  happened before, a set of disciplines of one period is accepted just when it is
  offered and as many places are free. It is about the periods the page shows at all
  (those begun); the endpoint accepts others too.

## 4. What the checks found

| Run | Code | What it says elsewhere |
|---|---|---|
| `tokens_restart` | the hour is a timer in memory, and neither use of a link looks at its age: a restart leaves it valid | "the link is valid for an hour" in the mail |

Weaknesses the models show without a document that denies them are conditions of the
properties above and hazards in `PROJECT.json`:

- Access. The guards read the query first: a request whose query names another group, user
  or discipline than its path is decided about that one, and its handler works on the
  path's. Two insertions into one role that cross, or one cut short, leave grants of equal
  weight, and the database decides between them; so does a body whose grants are not
  lightest first or weigh the same, because room is made for one after another. The 401 of
  23 endpoints, a 400 of the login, the 403 of the schedule's parser and the 500 for the
  teachers of an absent discipline are documented nowhere.
- Accounts. A link that resets a password outlives the user it was made for: if a captain
  adds the address again, it gives the waiting account a password with which nobody
  can log in and which keeps the address from being registered, until the next start
  deletes it. A refused message after user and student are written leaves an account
  without its own role, and its link is refused afterwards. A login or a refresh that is
  checked before a new password is written and makes its token after the stamp
  survives the change. The stamp is taken before the write. `JwtStrategy` takes the
  password off the user before it asks whether there is one. Deleting a user leaves his picture.
- Polls. The test `if (selected)` of `getDisciplineTeachers` asks an array, so a student who
  chose nothing sees no selective disciplines in that list, but does in the other one. Texts
  of a form that is sent again are shown to the moderators twice. A text the moderators
  decline is stored nowhere, and when the rest of the form is, the student cannot send it
  again: a required question then stays open. The first list fails before a
  semester has begun that it can name.
- Schedule. An update that gives an event more occurrences adds one info too few; two that
  cross on one event lose more. A periodic event created in the last fortnight has no
  info and the code fails on its first element; one moved there ends before it starts.
  `updateEvent` writes the event before it refuses an incomplete lesson; naming no teachers
  takes away those who have nothing but the type, with what was answered about them;
  crossing updates make a type or a teacher of a discipline twice, and putting a teacher
  by hand does so alone. The last WORKOUT of a discipline takes those with it who teach
  its consultations, and the other way round, for both have the role OTHER. The page asked
  for without a week leaves out the fortnightly events and gives the weekly ones invalid
  dates. Events of a Monday's midnight and semesters that start on
  another day are outside of the instances; there the two counts of weeks differ.
- Membership. A student whom a captain has added and who registers with another group moves
  there with his role left in the old one; `getCaptain` asks for the role's name alone, so
  one who was made captain before counts as the new group's. The remover's rank counts
  whatever group it is of. Two verifications that cross make two captains or give a
  student two roles;
  `switchCaptain` demotes first and then fails on a student without a role, and the group has
  no captain; a refused message comes after the written state.
- Admission queue. Two requests that cross give one entrant two positions; a refused MOVED
  message ends the request after the status was written.
- E-mail tokens. When `verifyEmail` throws after the account is made (no captain to tell, a
  refused message), the link stays. A repeat copies the age of a link and is killed by the
  old timer.
- Selective disciplines. `requestNewGroup` keeps the disciplines of the old group, so that
  the student can neither deselect them nor have their places back; moves that cross
  create a discipline twice; two crossing selections or a file exceed the amount.

## 5. Proofs

Every theorem is about `Spec` for every value of the constants that the named
assumption of its module allows (`AccessAssumption`, `AccountsAssumption`,
`AdmissionAssumption`, `MembershipAssumption`, `PollsAssumption`, `ScheduleAssumption`,
`SelectiveAssumption`, `TokensAssumption`, with `SemesterDatesAssumption` of `Dates`): any
number of entrants, addresses, students, groups, disciplines, events, questions, grants
and requests in progress. TLC evaluates the assumptions in the runs of their modules.
They ask for types, for tables that start as tables, for finite sets where something is
counted or taken one by one (`Ids`, `Students`, `Teachers`), and for what the code's
constants are: `Minute <= Hour`, pictures of the first users that are on the disk, group
roles that are in `ROLE_LIST`.

| Module | Theorem | Property |
|---|---|---|
| `Access_proofs` | `WayAlways`, `RequestsAnsweredAsMeant`, `RefusalsAsDocumented` | `WayInv`, `AnsweredAsMeant`, `RefusalsDocumented` |
| | `TiesAlwaysPass`, `RanksAreKept` | `TiesPass`, `RankKept` (both: `Climbing`) |
| `Accounts_proofs` | `RowsKeepTheirUsers`, `AccountsAreWhole` | `TypeOK`, `AccountsWhole` |
| | `SessionsAreOfPasswords`, `PicturesAreKept` | `SessionsAgree`, `PicturesKept` |
| `Polls_proofs` | `TypesCorrect`, `PollImplementsSurvey` | `TypeOK` (of `Polls`), `PromiseKept` |
| | `FormsAreWhole`, `TeachersListedAgree` | `NoHalfForms`, `ListsAgree` (`Calendar`) |
| `AdmissionQueue_proofs` | `TypeCorrect`, `NumbersInvariant`, `CodesAreUnique`, `NumbersCalledOnce` | `TypeOK`, `IndInv`, `CodesUnique`, `CalledOnce` |
| | `SerialReads`, `PositionsAreSingle`, `NoticesAgree` (all `Serial`) | `SerialInv`, `OnePosition`, `NoticeAgrees` |
| | `QueueImplementsLine` (`Serial`) | `LineKept` |
| | `ReturnsAreAsked` (`Serial`) | `NoSilentReturn`, a part of `LineKept` |
| `EmailTokens_proofs` | `TypeCorrect`, `TimersAgree`, `LinksDie`, `LinksLive` | `TypeOK`, `TimedInv`, `LinkDies`, `LinkLives` |
| | `OneLinkEach`, `RateIsLimited`, `OneUseEach` | `OneLink`, `RateLimit`, `OneUse` |
| `Membership_proofs` | `TypeCorrect`, `NobodyGone`, `RolesInOrder` | `TypeOK`, `NoOrphans`, `OneRole` (for `Ops \subseteq MovingOps`) |
| | `OrderIsKept` (`Serial`, `PendingOnly`, no CAPTAIN by `moderatorSwitch`), `CaptainsAreSpared` | `OrderKept`, `CaptainsStay` (the latter for `Ops \subseteq MovingOps`) |
| `Selective_proofs` | `TypeCorrect`, `ChoiceInvariant`, `ChosenOfOwnGroup` | `TypeOK`, `ChoiceInv`, `OwnGroup` |
| | `OfferIsAccepted`, `NoMoreThanAmount`, `MovesMakeNoTwins` (`DistinctCatalogue`) | `OfferedAccepted`, `WithinAmount`, `NoTwins` |
| `Schedule_proofs` | `RowsKeepTheirRows`, `SerialMakesNoTwins`, `TeachersStay` (the last two `StartsSingle`) | `TypeOK`, `NoTwins`, `TeachersKept` |
| | `OccurrencesHaveInfos`, `PagesShowTheSame` (`Timely`, the second `InOneSemester` too) | `OccurrencesKept`, `PagesAgree` |

### Hypotheses

What a theorem assumes beyond its module's assumption is what its run assumes, too:

- `Serial` (one request at a time). The properties that have it are false when requests
  cross; section 4 says how. Restarts come between any two steps all the same.
- `PendingOnly`, and no CAPTAIN among `SwitchNames`. The code checks neither: `verifyStudent`
  verifies whom it is asked to, and the body of `moderatorSwitch` may name any role.
  They describe the captain who uses the list, and the two roles the endpoint is for.
- `Climbing`: a body brings its grants lightest first, no two of a weight. Otherwise room
  made for one is filled by the room made for the next.
- `DistinctCatalogue`, `StartsSingle`: the tables start without twins.
- `Calendar`: semesters begin in the order of their years and halves, one has begun at
  each moment, and disciplines are of semesters with dates. One list of teachers asks by
  the date of a start, the other by year and half; otherwise they may differ.
- `Timely`: the semester starts on a Monday, no lesson starts at midnight, and an update names
  no start outside of the semester (the code compares dates with it only when it creates
  an event). A lesson at a Monday's midnight is counted to the week before.
- `InOneSemester`: all requests come within that semester and none at the very midnight of
  a Monday, when `getCurrentWeek` still counts the week before.

### Arguments

Each proof is `Init => Inv`, `Inv /\ [Next]_vars => Inv'` with one step or lemma per action, and a
temporal conclusion. The strengthenings:

- `WayInv` of `Access_proofs` says of each request, step by step of its way, that it is at
  the endpoint it was written for, that no guard it has passed lets in anyone who is not
  entitled to what the guards saw (`seen`), that the permissions asked so far were asked in
  vain (`InVain`), that a group guard has found the group of the thing it saw (`Grouped`),
  and that what it was answered is documented. A permission is asked with parameters the
  endpoint brings (`KindsAsk`), so where the query names nothing else, what was seen is what
  was sent, and to be entitled to the one is to be entitled to the other (`EntitledAsSent`).
  Which endpoint a request reaches is a fact about the whole routing table (`RoutesListed`,
  `RightRoute`): controller by controller, each of the 166 routes is `Wired` (its
  permissions ask by ids it has), `Piped` (its pipes refuse as its docs say) and lets the
  requests for later ones pass. One lemma for each kind of permission says that the answer
  of the check is what was meant (`Answering`), the weights of the roles included; a role of
  user "1" is one of `ROLE_LIST`, hence `Ranks` in the assumption.
- `AskedInv` and `RoomInv` of `Access_proofs`. Grants of a role are apart (`Apart`) except
  while they are raised one by one; so the invariant says for each place of an insertion
  where the gap is (`Raises`: what is still to be raised lies at `prev` or above, the rest
  below the gap or up to `prev`), which of the grants to come have room already
  (`Cleared`), and that until `torn` one request at most is at it. It is about a role
  that was there (`AskedInv`), so no role may come back under the id of one that was deleted.
  Only a request meant for it reaches the endpoint that changes a grant (`RightRoute`).
- `Inv` of `Accounts_proofs`. That an account is whole when no request works on it needs
  that one does while it is not: a user without a row of Student has a request at one of
  the steps before that row (`ToStudent`), one with a password and without his own role
  has a request on the way to the role or to the end of the account (`ToOwner`). A
  request may only leave those steps by doing what they lead to, or by marking the
  user as cut short. New ids are fresh because rows are numbered up to `made`. The
  lemmas `FineStays` and `SameUsersKeep` do this once for a step of any request;
  `JoinsKeep` is for a user who is created.
- `SessionInv`. A session is compared with the user by times; what it is really of is the
  number of times the password was set. A token of the present password is not older than
  `changed`, one of an earlier password that did not overlap is. It needs that what a
  request read is that of some time between its beginning and now, that hashing takes a
  tick, and that two requests in progress have marked each other (`overlap`).
- `PictureInv`. Without crossing, one request at most works on pictures, and a picture
  that is shown and not on the disk is the one it is about to write there or to note.
- `PollImplementsSurvey`. Each action of `Polls` maps to one of `Survey` or to a stutter:
  the check of the removals to `Enter`, the last check to `Admit`, a text to `Tell`, an
  answer to `Give`, the end of a request and a stop to `Leave`, deleted rows to
  `DropQuestion` and `DropTeacher`. It rests on the types: `at` is within the form while
  it is written.
- `HalfInv`. As long as nothing was edited, a request past the check has every required
  question in its form and has stored, or told the moderators, all it is past
  (`Gathered`), so a form that is half given, texts included, belongs to a request still at
  it or to one that was cut short (`Accounted`); what else is half answered lacks only
  texts that were told.
- `IndInv`. That codes in the table are unique does not survive a step by itself: a
  handler may hold a number it has not stored. So the counter covers the numbers of
  the table and of the handlers, and they are all different. After a restart the
  counter is the largest stored one and nobody holds any.
- `OwnerInv`. A number is called for one person because it never changes hands: wherever it
  is met, in the table, in a request that has read it, among those called after its row is
  gone, it is the same entrant's and the counter covers it. A restart forgets deleted
  numbers and gives them out again.
- `SerialInv` of the queue. What a request read is still so when it writes (`Holds`): the
  queue, the position it did not find, the first in line, the statuses, the places. The
  rows are finite, so a place is a number. A restart in the middle forgets the request.
- `LineInv`, for `QueueImplementsLine`. Beyond what a request has read it says what it
  relies on: its queue is there, its number is the last that was taken, the position it
  found is there and still waits, goes, or stands where it stood. Then each write is one
  step of `Line` (`InsertJoins`, `AdvanceCalls`, `CallAnnounces`, `UpdateIsOrdered`,
  `UpdateAmends`, `DeletionLeaves`, `DeletionDisbands`, `RestartForgets`); that tickets of
  different entrants are different makes an exchange of rows one of tickets.
- `TimedInv`. That links die on time needs that every mailed link in the table has a
  timer, that a timer is exactly an hour after its mail and not late, that a link is
  mailed once and ids are fresh. A repeat breaks this, a restart the first part; so
  the invariant says when each part holds.
- `AloneInv`, `AgedInv`, `SpentInv`, with `Numbered`. Without crossing, a token about to be stored
  finds none of its address, and one about to be dropped is the only one; until a link is
  sent again, the last link of an address that was not used is in the table or a minute
  old, for no timer fires within the hour; and a link on its way into its effect, or read to
  be stored again, was not used before.
- `RoleInv`. That a student has one role needs what the requests in progress know:
  who is about to be given a role has none and no other request has a role of his in
  hand, who is about to be declined has lost his, who asks for a group is no member.
  Replacing a role names the row that was read, and fails when it is gone. Who is `strayed`
  is excused of his group only. `CaptainsStay` needs besides that the row about to be
  taken was never a captain's (`NotTheCaptain`: nobody outranks one) and that who is about
  to be declined has no role to lose. In
  `Membership_proofs`, `Typed` adds to the types what each `pc` says of its fields.
- `StageInv`. In the middle of a request the groups are out of order in the one or two
  students it is about, and in a way that the rest of it puts right: `Verifying`,
  `Promoting` (the old captain is demoted before the new one is promoted) and `Removing` say
  which for each place, `Others` that everybody else is settled. With one request and no
  more than one captain at any time, the end of each leaves them in order.
- `ChoiceInv`. That what is chosen is of the group needs that the check of the group
  still holds when the write comes: nobody but the request itself changes the group or
  the disciplines of its student, unless the requests crossed, which `events`
  remembers (`Alone`), and from the check on the disciplines it names are of the
  student's group (`Ready`); who is being moved has nothing from `Clear` to `Move`.
  `Known` gives that what is named exists, and a discipline that exists never changes
  (lemma `Stays`). The lemmas `StepChoice` and `BeginChoice` do this once for a step of
  any request and for a beginning.
- `AmountInv`, `TwinsInv` of `Selective_proofs`. The amount was checked against what is still chosen
  when the disciplines are attached (`Weighed`), period by period, by the cardinality of a union
  of disjoint sets; a move creates what it has not found, and without crossing moves
  nobody else has created it since. `OfferIsAccepted` needs no history: the page subtracts
  what is chosen from the amount, the endpoint adds.
- `TypedInv` of `Schedule_proofs`. A request carries rows it read before its await. Rows never
  change and numbers are given once, so what it carries is what stands there or is gone
  (`Kept`); the fields of each step are typed by the kind of request.
- `SerialInv` of `Schedule_proofs`. Without crossing, a type or teacher about to be created is
  missing, and everybody on the list of those to be removed has no role but of the type
  that goes, or OTHER when the name of that type gives it.
- `OccurInv` of `Schedule_proofs`. An event lies in a week of the semester (`Placed`), and so does
  what an update read of it before its await; its infos are an interval from 0 that reaches
  `getEndIndex` at least (`Counted`), which an update that needs fewer leaves alone and one
  that needs more breaks (`lacking`). The rest is arithmetic of whole weeks: `WeekRoundedUp` and
  `WeekIs` say what `Ceil` counts, `InfosSuffice` that no week of an event has an index
  beyond the last, `SameIndex` that the two ways to an index agree, `OneDay` that seven
  days in a row have the weekday once.

Three models changed because a proof failed for a good reason. `Polls` took the answer
of a form as not kept when the moderators' message went out and the call then failed,
so that a form could be half answered with nobody to blame; `Access` gave a new role
the id of a deleted one, which let a request in progress write into it, and TLC, given
one edit more, found two equal grants; both now do what the code does. `MCPolls` got a
required text, without which the first case never came up. And one property changed:
`OccurrencesKept` was stated of lessons of no length, too, which nothing refuses and for
which `getEndIndex` counts one occurrence too few; no instance had any.

### Only model-checked

`GoingIsTold` is liveness, out of the prover's reach. Every invariant and every other
action property of a passing run is stated by a theorem.

## 6. Plan

1. An abstract link (absent, valid, gone) for `EmailTokens`.
2. The routes that create and delete groups, and Telegram's registration token.

## 7. Not modelled

`PROJECT.json` lists every component with its status. Left out for good: the parsers of the
two external schedules (pages and strings), the filling of document templates and the one
row a contract is, the mean that is a teacher's rating, one-statement CRUD, the texts of
messages, the validation of bodies by decorators, the generated client of the database and
NestJS itself. The bots, the mail server and the process manager are external: the modules
let them answer, refuse, or restart the process. Of the admission queue the listing
endpoints appear only as `RelativePosition`; of membership the routes that create and delete
groups are missing; of accounts the logins and links of Telegram, `updateUser` and
`deleteStudent`; of permissions the parents of roles; of the poll the results it shows.
