--------------------------- MODULE Accounts_proofs ---------------------------
(***************************************************************************)
(* An account is whole: proved for any number of users, addresses and      *)
(* requests in progress, with links that expire and a server that stops.   *)
(***************************************************************************)
EXTENDS Accounts, FiniteSetTheorems, TLAPS

-----------------------------------------------------------------------------
(* What the tables and the requests in progress are *)

Link == [id : Nat, email : Emails, username : Usernames, password : Passwords]

Tables ==
  /\ made \in Nat /\ now \in Nat
  /\ users \subseteq Rows(made, now)
  /\ \A u, v \in users : u.id = v.id \/ u.email = v.email => u = v
  /\ owners \subseteq students /\ students \subseteq {u.id : u \in users}
  /\ files \subseteq Pictures
  /\ \A s \in sessions : s.user \in 0..made /\ s.createdAt \in 0..now
  /\ links \subseteq Link /\ \A r \in resets : r.email \in Emails

Registering ==
  {"link", "verify", "taken", "again", "create", "update", "student", "tell", "profile", "unlink", "own"}

\* A request has its fields, and those its step goes on to use are of their types.
Shaped(r) ==
  {"step", "user", "email", "link", "old", "new", "seen", "since", "overlap"} \subseteq DOMAIN r
Asked(r, last, time) ==
  /\ Shaped(r)
  /\ r.user \in 0..last /\ r.since \in 0..time
  /\ r.step \in Registering => r.link \in Link
  /\ r.step = "pseudo" => r.email \in Emails
  /\ r.step \in {"hash", "write"} => r.new \in Passwords
  /\ r.step \in {"count", "erase", "save", "note"} => r.new \in Pictures \cup {NoPicture}
  /\ r.step = "renew" => r.old.user \in 0..last
  /\ r.step \in {"student", "profile"} => r.seen \in Nat
Requested ==
  /\ req = [h \in Handlers |-> req[h]]
  /\ \A h \in Handlers : Asked(req[h], made, now)

-----------------------------------------------------------------------------
(* What an account is on its way to being whole *)

\* Steps of a request that leads to a row of Student, and to a role USER or the end of it.
ToStudent == {"student", "member"}
ToOwner == {"student", "tell", "profile", "unlink", "own", "delete"}
Busy(id, steps) == \E h \in Handlers : req[h].user = id /\ req[h].step \in steps

Fine(u) ==
  /\ u.password # NONE <=> u.state = "APPROVED"
  /\ u.id \in students \/ Busy(u.id, ToStudent)
  /\ u.password = NONE \/ u.id \in owners \/ Busy(u.id, ToOwner)
Whole == \A u \in users : u.id \in broken \/ Fine(u)

Inv == Tables /\ Requested /\ Whole

LEMMA InvEnough == Inv => TypeOK /\ AccountsWhole
<1> SUFFICES ASSUME Inv PROVE TypeOK /\ AccountsWhole
  OBVIOUS
<1>1. TypeOK
  BY DEF Inv, Tables, TypeOK
<1>2. ASSUME NEW u \in users, u.id \notin broken
      PROVE  /\ u.password # NONE <=> u.state = "APPROVED"
             /\ ~Served(u.id) => u.id \in students /\ (u.password # NONE => u.id \in owners)
  BY <1>2 DEF Inv, Whole, Fine, Busy, Served
<1> QED BY <1>1, <1>2 DEF AccountsWhole

LEMMA InvInit == Init => Inv
<1> SUFFICES ASSUME Init PROVE Inv
  OBVIOUS
<1> USE AccountsAssumption
<1>1. Tables
  <2>1. owners \subseteq students /\ students \subseteq {u.id : u \in users}
    BY DEF Init
  <2> QED BY <2>1 DEF Init, Tables
<1>2. Asked(Idle, made, now)
  BY DEF Init, Asked, Shaped, Idle, Registering
<1>3. Requested
  BY <1>2 DEF Init, Requested
<1>4. ASSUME NEW u \in users PROVE Fine(u)
  <2>1. u.id \in students /\ (u.password # NONE => u.id \in owners)
    BY DEF Init
  <2> QED BY <2>1 DEF Init, Fine
<1> QED BY <1>1, <1>3, <1>4 DEF Inv, Whole

-----------------------------------------------------------------------------
(* How requests go on *)

\* h goes on as r, and the others stay where they are.
Moves(h, r) ==
  /\ Requested'
  /\ req'[h].step = r.step /\ req'[h].user = r.user
  /\ \A g \in Handlers \ {h} : req'[g].step = req[g].step /\ req'[g].user = req[g].user

LEMMA AskedLater ==
  ASSUME NEW r, NEW last \in Nat, NEW time \in Nat, NEW last2 \in Nat, NEW time2 \in Nat,
         last <= last2, time <= time2, Asked(r, last, time)
  PROVE  Asked(r, last2, time2)
  BY DEF Asked

LEMMA IdleAsked ==
  ASSUME NEW last \in Nat, NEW time \in Nat
  PROVE  Asked(Idle, last, time)
  BY DEF Asked, Shaped, Idle, Registering

Grows == made' \in Nat /\ made <= made' /\ now' \in Nat /\ now <= now'

LEMMA GoesMoves ==
  ASSUME Tables, Requested, Grows, NEW h \in Handlers, NEW r, Goes(h, r), Asked(r, made', now')
  PROVE  Moves(h, r)
<1>1. req' = [g \in Handlers |-> IF g = h THEN r ELSE req[g]]
  BY DEF Goes, Requested
<1>2. \A g \in Handlers : Asked(req[g], made', now')
  BY AskedLater DEF Tables, Requested, Grows
<1> QED BY <1>1, <1>2 DEF Requested, Moves

LEMMA EndsMoves ==
  ASSUME Tables, Requested, Grows, NEW h \in Handlers, req' = [req EXCEPT ![h] = Idle]
  PROVE  Moves(h, Idle)
<1>1. req' = [g \in Handlers |-> IF g = h THEN Idle ELSE req[g]]
  BY DEF Requested
<1>2. \A g \in Handlers : Asked(req[g], made', now')
  BY AskedLater DEF Tables, Requested, Grows
<1>3. Asked(Idle, made', now')
  BY IdleAsked DEF Grows
<1> QED BY <1>1, <1>2, <1>3 DEF Requested, Moves

LEMMA BeginsMoves ==
  ASSUME Tables, Requested, NEW h \in Handlers, NEW r, Begins(h, r), UNCHANGED <<made, now>>,
         Asked(r, made, now)
  PROVE  Moves(h, r) /\ req[h].step = "idle"
<1> DEFINE f == [r EXCEPT !.overlap = Others(h), !.since = now]
           w(g) == [req[g] EXCEPT !.overlap = @ \/ Working(g)]
<1>1. req' = [g \in Handlers |-> IF g = h THEN f ELSE w(g)]
  BY DEF Begins
<1>2. Asked(f, made, now) /\ f.step = r.step /\ f.user = r.user
  BY DEF Asked, Shaped, Tables
<1>3. ASSUME NEW g \in Handlers
      PROVE  Asked(w(g), made, now) /\ w(g).step = req[g].step /\ w(g).user = req[g].user
  BY DEF Requested, Asked, Shaped
<1> HIDE DEF f, w
<1>4. req[h].step = "idle"
  BY DEF Begins, Working
<1> QED BY <1>1, <1>2, <1>3, <1>4 DEF Requested, Moves

-----------------------------------------------------------------------------
(* How accounts stay whole *)

\* What h does for a user it goes on doing, or it is done, or the user is cut short.
Cares(h, r, id) ==
  req[h].user = id =>
    /\ req[h].step \in ToStudent => (r.user = id /\ r.step \in ToStudent) \/ id \in students'
    /\ req[h].step \in ToOwner => (r.user = id /\ r.step \in ToOwner) \/ id \in owners'

LEMMA FineStays ==
  ASSUME NEW h \in Handlers, NEW r, Moves(h, r), NEW u, Fine(u), Cares(h, r, u.id),
         u.id \in students => u.id \in students',
         u.id \in owners => u.id \in owners' \/ Busy(u.id, ToOwner)'
  PROVE  Fine(u)'
<1>1. u.id \in students' \/ Busy(u.id, ToStudent)'
  BY DEF Fine, Busy, Moves, Cares
<1>2. u.password = NONE \/ u.id \in owners' \/ Busy(u.id, ToOwner)'
  BY DEF Fine, Busy, Moves, Cares
<1> QED BY <1>1, <1>2 DEF Fine

\* Fine is about three columns.
LEMMA FineColumns ==
  ASSUME NEW u, NEW v, Fine(u), v.id = u.id, v.password = u.password, v.state = u.state
  PROVE  Fine(v)
  BY DEF Fine

\* A step that changes no user's row, and takes nobody's place as a student or an owner.
LEMMA SameUsersKeep ==
  ASSUME Inv, NEW h \in Handlers, NEW r, Moves(h, r), Tables', users' = users, broken' = broken,
         students \subseteq students', owners \subseteq owners',
         \A id \in Nat : Cares(h, r, id)
  PROVE  Inv'
<1>1. ASSUME NEW u \in users' PROVE u.id \in broken' \/ Fine(u)'
  <2>1. u \in users /\ u.id \in Nat
    BY DEF Inv, Tables, Rows
  <2>2. Cares(h, r, u.id)
    BY <2>1
  <2> QED BY <2>1, <2>2, FineStays DEF Inv, Whole
<1>2. Requested'
  BY DEF Moves
<1> QED BY <1>1, <1>2 DEF Inv, Whole

LEMMA ReadsTables ==
  ASSUME Tables, Reads
  PROVE  Tables' /\ Grows
  BY DEF Tables, Reads, people, mail, Grows

LEMMA ReadsKeep ==
  ASSUME Inv, NEW h \in Handlers, NEW r, Moves(h, r), Reads,
         \A id \in Nat : Cares(h, r, id)
  PROVE  Inv'
<1>1. Tables'
  BY ReadsTables DEF Inv
<1> QED BY <1>1, SameUsersKeep DEF Reads, people

\* A request that begins has done nothing yet, and one that goes on reading either.
LEMMA BeginsKeep ==
  ASSUME Inv, NEW h \in Handlers, NEW r, Begins(h, r), Reads, Asked(r, made, now)
  PROVE  Inv'
<1>1. Moves(h, r) /\ req[h].step = "idle"
  BY BeginsMoves DEF Inv, Reads
<1>2. ASSUME NEW id \in Nat PROVE Cares(h, r, id)
  BY <1>1 DEF Cares, ToStudent, ToOwner
<1> QED BY <1>1, <1>2, ReadsKeep

LEMMA GoesKeep ==
  ASSUME Inv, NEW h \in Handlers, NEW r, Goes(h, r), Reads, Asked(r, made, now),
         \A id \in Nat : Cares(h, r, id)
  PROVE  Inv'
<1>1. Grows /\ made' = made /\ now' = now
  BY ReadsTables DEF Inv, Reads
<1>2. Moves(h, r)
  BY <1>1, GoesMoves DEF Inv
<1> QED BY <1>2, ReadsKeep

\* What To leaves of a request.
LEMMA ToMoves ==
  ASSUME NEW h \in Handlers, NEW step, Shaped(req[h])
  PROVE  /\ Shaped(To(h, step)) /\ To(h, step).step = step
         /\ To(h, step).user = req[h].user /\ To(h, step).link = req[h].link
         /\ To(h, step).email = req[h].email /\ To(h, step).old = req[h].old
         /\ To(h, step).new = req[h].new /\ To(h, step).seen = req[h].seen
         /\ To(h, step).since = req[h].since
  BY DEF To, Shaped

LEMMA EndsAsked == Tables => Asked(Idle, made, now)
  BY IdleAsked DEF Tables

LEMMA FailsKeep ==
  ASSUME Inv, NEW h \in Handlers, Fails(h, req[h].user)
  PROVE  Inv'
<1> USE DEF Fails, people, mail
<1>1. Tables'
  BY DEF Inv, Tables
<1>a. Grows
  BY DEF Inv, Grows, Tables
<1>2. Moves(h, Idle)
  BY <1>a, EndsMoves DEF Inv
<1>3. ASSUME NEW u \in users', u.id \notin broken' PROVE Fine(u)'
  <2>1. Fine(u) /\ u.id # req[h].user
    BY <1>3 DEF Inv, Whole
  <2>2. Cares(h, Idle, u.id)
    BY <2>1 DEF Cares
  <2> QED BY <1>2, <2>1, <2>2, FineStays
<1> QED BY <1>1, <1>2, <1>3 DEF Inv, Whole, Moves

-----------------------------------------------------------------------------
(* Registration *)

LEMMA RowsLater ==
  ASSUME NEW last \in Nat, NEW time \in Nat, NEW last2 \in Nat, NEW time2 \in Nat,
         last <= last2, time <= time2
  PROVE  Rows(last, time) \subseteq Rows(last2, time2)
  BY DEF Rows

LEMMA RegisterKeeps ==
  ASSUME Inv, NEW h \in Handlers, NEW link \in Registrations, register(h, link)
  PROVE  Inv'
<1> DEFINE r == [Idle EXCEPT !.step = "link", !.link = link]
<1>1. link \in Link
  BY AccountsAssumption DEF Link
<1>2. Asked(r, made, now)
  BY <1>1 DEF Asked, Shaped, Idle, Inv, Tables, Registering
<1>3. Begins(h, r) /\ Reads
  BY DEF register
<1> HIDE DEF r
<1> QED BY <1>2, <1>3, BeginsKeep

LEMMA VerifyEmailKeeps ==
  ASSUME Inv, NEW h \in Handlers, NEW link \in links, verifyEmail(h, link)
  PROVE  Inv'
<1> DEFINE r == [Idle EXCEPT !.step = "verify", !.link = link]
<1>1. link \in Link
  BY DEF Inv, Tables
<1>2. Asked(r, made, now)
  BY <1>1 DEF Asked, Shaped, Idle, Inv, Tables, Registering
<1>3. Begins(h, r) /\ Reads
  BY DEF verifyEmail
<1> HIDE DEF r
<1> QED BY <1>2, <1>3, BeginsKeep

LEMMA RequestEmailVerificationKeeps ==
  ASSUME Inv, NEW h \in Handlers, requestEmailVerification(h)
  PROVE  Inv'
<1> DEFINE new == [req[h].link EXCEPT !.id = made + 1]
<1> USE DEF requestEmailVerification
<1>1. made \in Nat /\ now \in Nat /\ made' = made + 1 /\ now' = now
  BY DEF Inv, Tables
<1>2. Grows
  BY <1>1 DEF Grows
<1>3. new \in Link
  BY <1>1 DEF Inv, Requested, Asked, Registering, Step, Link
<1>4. links' \subseteq links \cup {new}
  OBVIOUS
<1>5. Tables'
  BY <1>1, <1>3, <1>4, RowsLater DEF Inv, Tables, people
<1>6. Moves(h, Idle)
  BY <1>2, EndsMoves DEF Inv, Ends, Goes
<1>7. ASSUME NEW id \in Nat PROVE Cares(h, Idle, id)
  BY DEF Cares, ToStudent, ToOwner, Step
<1> QED BY <1>5, <1>6, <1>7, SameUsersKeep DEF people

\* A request that reads on with its link.
LEMMA ReadsOnKeeps ==
  ASSUME Inv, NEW h \in Handlers, req[h].step \in {"verify", "taken", "again"},
         NEW step \in {"taken", "again", "create", "update"}, Goes(h, To(h, step)), Reads
  PROVE  Inv'
<1>1. Asked(req[h], made, now) /\ Shaped(req[h])
  BY DEF Inv, Requested, Asked
<1>2. Asked(To(h, step), made, now)
  BY <1>1, ToMoves DEF Asked, Registering
<1>3. ASSUME NEW id \in Nat PROVE Cares(h, To(h, step), id)
  BY DEF Cares, ToStudent, ToOwner
<1> QED BY <1>2, <1>3, GoesKeep

LEMMA EndsReadingKeeps ==
  ASSUME Inv, NEW h \in Handlers, req[h].step \notin ToStudent \cup ToOwner, Ends(h), Reads
  PROVE  Inv'
<1>1. ASSUME NEW id \in Nat PROVE Cares(h, Idle, id)
  BY DEF Cares
<1> QED BY <1>1, GoesKeep, EndsAsked DEF Ends, Inv

LEMMA AsksKeep ==
  ASSUME Inv, NEW h \in Handlers, AskPseudo(h) \/ AskTaken(h) \/ AskPseudoAgain(h)
  PROVE  Inv'
<1>1. CASE AskPseudo(h)
  BY <1>1, ReadsOnKeeps DEF AskPseudo, Step
<1>2. CASE AskTaken(h)
  <2>1. CASE Ends(h)
    BY <1>2, <2>1, EndsReadingKeeps DEF AskTaken, Step, ToStudent, ToOwner
  <2>2. CASE Goes(h, To(h, "again"))
    BY <1>2, <2>2, ReadsOnKeeps DEF AskTaken, Step
  <2> QED BY <1>2, <2>1, <2>2 DEF AskTaken
<1>3. CASE AskPseudoAgain(h)
  BY <1>3, ReadsOnKeeps DEF AskPseudoAgain, Step
<1> QED BY <1>1, <1>2, <1>3

\* A user joins the others under a fresh id and a fresh address.
LEMMA JoinsKeep ==
  ASSUME Inv, NEW h \in Handlers, NEW new \in Rows(made + 1, now), NEW r, Moves(h, r),
         users' = users \cup {new}, made' = made + 1, now' = now, new.id = made + 1,
         \A u \in users : u.email # new.email,
         new.password # NONE <=> new.state = "APPROVED",
         UNCHANGED <<students, owners, mail, files, sessions, broken>>,
         req[h].step \notin ToStudent \cup ToOwner,
         r.user = new.id, r.step \in ToStudent, new.password = NONE \/ r.step \in ToOwner
  PROVE  Inv'
<1>1. made \in Nat /\ now \in Nat /\ Rows(made, now) \subseteq Rows(made + 1, now)
  BY RowsLater DEF Inv, Tables
<1>2. \A u \in users : u.id \in 1..made
  BY DEF Inv, Tables, Rows
<1>3. Tables'
  BY <1>1, <1>2 DEF Inv, Tables, mail
<1>4. Fine(new)'
  BY DEF Fine, Busy, Moves
<1>5. ASSUME NEW u \in users, u.id \notin broken PROVE Fine(u)'
  <2>1. Fine(u) /\ Cares(h, r, u.id)
    BY <1>5 DEF Inv, Whole, Cares
  <2> QED BY <2>1, FineStays
<1> QED BY <1>3, <1>4, <1>5 DEF Inv, Whole, Moves

LEMMA CreateUserKeeps ==
  ASSUME Inv, NEW h \in Handlers, CreateUser(h)
  PROVE  Inv'
<1> DEFINE link == req[h].link
           new == [id |-> made + 1, email |-> link.email, username |-> link.username,
                   password |-> link.password, changed |-> now, state |-> "APPROVED",
                   avatar |-> NoPicture, sets |-> 1]
           r == [To(h, "student") EXCEPT !.user = new.id, !.seen = 1]
<1>0. req[h].step = "create" /\ req[h].step \notin ToStudent \cup ToOwner
  BY DEF CreateUser, Step, ToStudent, ToOwner
<1>1. CASE \E u \in users : u.email = link.email
  BY <1>0, <1>1, EndsReadingKeeps DEF CreateUser
<1>2. CASE \A u \in users : u.email # link.email
  <2>1. /\ users' = users \cup {new} /\ made' = made + 1 /\ now' = now
        /\ Goes(h, r) /\ UNCHANGED <<students, owners, mail, files, sessions, broken>>
    BY <1>2 DEF CreateUser
  <2>2. made \in Nat /\ now \in Nat /\ Grows
    BY <2>1 DEF Inv, Tables, Grows
  <2>3. link \in Link /\ Asked(req[h], made, now) /\ Shaped(req[h])
    BY <1>0 DEF Inv, Requested, Asked, Registering
  <2>4. new \in Rows(made + 1, now) /\ new.password # NONE
    BY <2>2, <2>3, AccountsAssumption DEF Rows, Link
  <2>6. Asked(r, made + 1, now) /\ r.user = new.id /\ r.step = "student"
    <3> DEFINE q == To(h, "student")
    <3>1. Shaped(q) /\ q.step = "student" /\ q.link = link /\ q.since \in 0..now
      BY <2>3, ToMoves DEF Asked
    <3> HIDE DEF q
    <3>2. Asked([q EXCEPT !.user = made + 1, !.seen = 1], made + 1, now)
      BY <2>2, <2>3, <3>1 DEF Asked, Shaped, Registering
    <3>3. r.user = made + 1 /\ r.step = "student"
      BY <3>1 DEF Shaped, q
    <3> QED BY <3>2, <3>3 DEF q
  <2>7. new.id = made + 1 /\ new.email = link.email /\ new.state = "APPROVED"
    OBVIOUS
  <2> HIDE DEF new, r
  <2>8. Moves(h, r)
    BY <2>1, <2>2, <2>6, GoesMoves DEF Inv
  <2> QED BY <1>0, <1>2, <2>1, <2>4, <2>6, <2>7, <2>8, JoinsKeep DEF ToStudent, ToOwner
<1> QED BY <1>1, <1>2

LEMMA CreatePseudoKeeps ==
  ASSUME Inv, NEW h \in Handlers, CreatePseudo(h)
  PROVE  Inv'
<1> DEFINE new == [id |-> made + 1, email |-> req[h].email, username |-> NONE, password |-> NONE,
                   changed |-> now, state |-> "PENDING", avatar |-> NoPicture, sets |-> 0]
           r == [To(h, "member") EXCEPT !.user = new.id]
<1>0. req[h].step = "pseudo" /\ req[h].step \notin ToStudent \cup ToOwner
  BY DEF CreatePseudo, Step, ToStudent, ToOwner
<1>1. CASE \E u \in users : u.email = new.email
  BY <1>0, <1>1, EndsReadingKeeps DEF CreatePseudo
<1>2. CASE \A u \in users : u.email # new.email
  <2>1. /\ users' = users \cup {new} /\ made' = made + 1 /\ now' = now
        /\ Goes(h, r) /\ UNCHANGED <<students, owners, mail, files, sessions, broken>>
    BY <1>2 DEF CreatePseudo
  <2>2. made \in Nat /\ now \in Nat /\ Grows
    BY <2>1 DEF Inv, Tables, Grows
  <2>3. Asked(req[h], made, now) /\ Shaped(req[h]) /\ req[h].email \in Emails
    BY <1>0 DEF Inv, Requested, Asked
  <2>4. new \in Rows(made + 1, now)
    BY <2>2, <2>3 DEF Rows
  <2>5. Asked(r, made + 1, now) /\ r.user = new.id /\ r.step = "member"
    <3> DEFINE q == To(h, "member")
    <3>1. Shaped(q) /\ q.step = "member" /\ q.since \in 0..now
      BY <2>3, ToMoves DEF Asked
    <3> HIDE DEF q
    <3>2. Asked([q EXCEPT !.user = made + 1], made + 1, now)
      BY <2>2, <3>1 DEF Asked, Shaped, Registering
    <3>3. r.user = made + 1 /\ r.step = "member"
      BY <3>1 DEF Shaped, q
    <3> QED BY <3>2, <3>3 DEF q
  <2>6. new.id = made + 1 /\ new.password = NONE /\ new.state = "PENDING"
    OBVIOUS
  <2> HIDE DEF new, r
  <2>7. Moves(h, r)
    BY <2>1, <2>2, <2>5, GoesMoves DEF Inv
  <2> QED BY <1>0, <1>2, <2>1, <2>4, <2>5, <2>6, <2>7, JoinsKeep DEF ToStudent, ToOwner
<1> QED BY <1>1, <1>2

\* The user becomes a student, and the request goes on.
LEMMA BecomesStudentKeeps ==
  ASSUME Inv, NEW h \in Handlers, NEW r, Goes(h, r), Asked(r, made, now),
         Exists(req[h].user), students' = students \cup {req[h].user},
         UNCHANGED <<now, users, owners, mail, files, sessions, made, broken>>,
         req[h].step \in ToOwner => r.user = req[h].user /\ r.step \in ToOwner
  PROVE  Inv'
<1>1. Tables'
  BY DEF Inv, Tables, Exists, mail
<1>2. Grows
  BY DEF Inv, Tables, Grows
<1>3. Moves(h, r)
  BY <1>2, GoesMoves DEF Inv
<1>4. ASSUME NEW id \in Nat PROVE Cares(h, r, id)
  BY DEF Cares
<1> QED BY <1>1, <1>3, <1>4, SameUsersKeep

LEMMA CreateStudentKeeps ==
  ASSUME Inv, NEW h \in Handlers, CreateStudent(h)
  PROVE  Inv'
<1>1. CASE ~Exists(req[h].user)
  BY <1>1, FailsKeep DEF CreateStudent
<1>2. CASE Exists(req[h].user)
  <2>1. req[h].step = "student" /\ Asked(req[h], made, now) /\ Shaped(req[h])
    BY DEF CreateStudent, Step, Inv, Requested, Asked
  <2>2. /\ Asked(To(h, "tell"), made, now)
        /\ To(h, "tell").user = req[h].user /\ To(h, "tell").step \in ToOwner
    BY <2>1, ToMoves DEF Asked, Registering, ToOwner
  <2>3. /\ students' = students \cup {req[h].user} /\ Goes(h, To(h, "tell"))
        /\ UNCHANGED <<now, users, owners, mail, files, sessions, made, broken>>
    BY <1>2 DEF CreateStudent
  <2> QED BY <1>2, <2>2, <2>3, BecomesStudentKeeps
<1> QED BY <1>1, <1>2

LEMMA CreateMemberKeeps ==
  ASSUME Inv, NEW h \in Handlers, CreateMember(h)
  PROVE  Inv'
<1>1. CASE ~Exists(req[h].user)
  BY <1>1, FailsKeep DEF CreateMember
<1>2. CASE Exists(req[h].user)
  <2>1. req[h].step \notin ToOwner /\ Asked(Idle, made, now)
    BY EndsAsked DEF CreateMember, Step, ToOwner, Inv
  <2>2. /\ students' = students \cup {req[h].user} /\ Goes(h, Idle)
        /\ UNCHANGED <<now, users, owners, mail, files, sessions, made, broken>>
    BY <1>2 DEF CreateMember, Ends
  <2> QED BY <1>2, <2>1, <2>2, BecomesStudentKeeps
<1> QED BY <1>1, <1>2

\* A request that has its student and goes on to the role.
LEMMA OnToRoleKeeps ==
  ASSUME Inv, NEW h \in Handlers, req[h].step \in {"tell", "profile", "unlink"},
         NEW step \in {"unlink", "own"}, Goes(h, To(h, step)), Tables',
         UNCHANGED <<now, people, made, broken>>
  PROVE  Inv'
<1>1. Asked(req[h], made, now) /\ Shaped(req[h])
  BY DEF Inv, Requested, Asked
<1>2. /\ Asked(To(h, step), made, now)
      /\ To(h, step).user = req[h].user /\ To(h, step).step \in ToOwner
  BY <1>1, ToMoves DEF Asked, Registering, ToOwner
<1>3. Grows
  BY DEF Inv, Tables, Grows
<1>4. Moves(h, To(h, step))
  BY <1>2, <1>3, GoesMoves DEF Inv
<1>5. ASSUME NEW id \in Nat PROVE Cares(h, To(h, step), id)
  BY <1>2 DEF Cares, ToStudent
<1> QED BY <1>4, <1>5, SameUsersKeep DEF people

LEMMA OnToRoleStepsKeep ==
  ASSUME Inv, NEW h \in Handlers, verify(h) \/ UpdateStudent(h) \/ DeleteLink(h)
  PROVE  Inv'
<1>1. CASE Fails(h, req[h].user)
  BY <1>1, FailsKeep
<1>2. CASE verify(h) /\ Goes(h, To(h, "unlink")) /\ Reads
  BY <1>2, ReadsTables, OnToRoleKeeps DEF verify, Step, Inv, Reads
<1>3. CASE UpdateStudent(h) /\ Goes(h, To(h, "unlink")) /\ Reads
  BY <1>3, ReadsTables, OnToRoleKeeps DEF UpdateStudent, Step, Inv, Reads
<1>4. CASE DeleteLink(h) /\ Goes(h, To(h, "own"))
  <2>1. CASE \A l \in links : l.id # req[h].link.id
    BY <1>4, <2>1, FailsKeep DEF DeleteLink
  <2>2. CASE ~\A l \in links : l.id # req[h].link.id
    <3>1. /\ links' = {l \in links : l.id # req[h].link.id}
          /\ UNCHANGED <<now, people, resets, files, sessions, made, broken>>
      BY <1>4, <2>2 DEF DeleteLink
    <3>2. Tables'
      BY <3>1 DEF Inv, Tables, people
    <3> QED BY <1>4, <3>1, <3>2, OnToRoleKeeps DEF DeleteLink, Step
  <2> QED BY <2>1, <2>2
<1> QED BY <1>1, <1>2, <1>3, <1>4 DEF verify, UpdateStudent, DeleteLink

\* A user's row is written, with the same id and address.
LEMMA PutTables ==
  ASSUME Tables, NEW u \in users, NEW v \in Rows(made, now), v.id = u.id, v.email = u.email, Put(v),
         UNCHANGED <<now, students, owners, mail, files, sessions, made>>
  PROVE  Tables'
<1>1. users' = {w \in users : w.id # v.id} \cup {v}
  BY DEF Put
<1>2. \A x, y \in users' : x.id = y.id \/ x.email = y.email => x = y
  BY <1>1 DEF Tables
<1>3. students' \subseteq {x.id : x \in users'}
  BY <1>1 DEF Tables
<1> QED BY <1>1, <1>2, <1>3 DEF Tables, mail

LEMMA UpdateUserKeeps ==
  ASSUME Inv, NEW h \in Handlers, UpdateUser(h)
  PROVE  Inv'
<1> DEFINE link == req[h].link
<1>0. req[h].step = "update" /\ req[h].step \notin ToStudent \cup ToOwner
  BY DEF UpdateUser, Step, ToStudent, ToOwner
<1>1. CASE \A u \in users : u.email # link.email
  BY <1>0, <1>1, EndsReadingKeeps DEF UpdateUser
<1>2. CASE \E u \in users : u.email = link.email
  <2> PICK u \in users :
        /\ u.email = link.email /\ Put(WithLink(u, link))
        /\ Goes(h, [To(h, "profile") EXCEPT !.user = u.id, !.seen = u.sets + 1])
        /\ UNCHANGED <<now, students, owners, mail, files, sessions, made, broken>>
    BY <1>2 DEF UpdateUser
  <2> DEFINE v == WithLink(u, link)
             r == [To(h, "profile") EXCEPT !.user = u.id, !.seen = u.sets + 1]
  <2>1. made \in Nat /\ now \in Nat /\ Grows /\ u \in Rows(made, now)
    BY DEF Inv, Tables, Grows
  <2>2. link \in Link /\ Asked(req[h], made, now) /\ Shaped(req[h])
    BY <1>0 DEF Inv, Requested, Asked, Registering
  <2>3. /\ v \in Rows(made, now) /\ v.id = u.id /\ v.email = u.email
        /\ v.password # NONE /\ v.state = "APPROVED"
    <3>1. /\ link.username \in Usernames /\ link.password \in Passwords
          /\ link.password # NONE
      BY <2>2, AccountsAssumption DEF Link
    <3> HIDE DEF link
    <3>2. v \in Rows(made, now)
      <4> DEFINE a == [u EXCEPT !.username = link.username, !.password = link.password,
                                !.avatar = NoPicture]
      <4>1. a \in Rows(made, now) /\ a.sets \in Nat
        BY <2>1, <3>1 DEF Rows
      <4>2. v = [a EXCEPT !.changed = now, !.state = "APPROVED", !.sets = @ + 1]
        BY <2>1 DEF WithLink, Rows
      <4> HIDE DEF a, v
      <4> DEFINE b == [a EXCEPT !.changed = now, !.state = "APPROVED"]
                 c == [b EXCEPT !.sets = a.sets + 1]
      <4>3. now \in 0..now /\ a.sets + 1 \in Nat
        BY <2>1, <4>1
      <4>4. b \in Rows(made, now)
        BY <2>1, <4>1, <4>3 DEF Rows
      <4>5. v = c
        BY <4>1, <4>2 DEF Rows
      <4> HIDE DEF b
      <4> QED BY <4>3, <4>4, <4>5 DEF Rows
    <3>3. /\ v.id = u.id /\ v.email = u.email
          /\ v.password = link.password /\ v.state = "APPROVED"
      BY <2>1 DEF WithLink, Rows
    <3> QED BY <3>1, <3>2, <3>3
  <2>4. Asked(r, made, now) /\ r.user = u.id /\ r.step = "profile"
    <3> DEFINE q == To(h, "profile")
    <3>1. Shaped(q) /\ q.step = "profile" /\ q.link = link /\ q.since \in 0..now
      BY <2>2, ToMoves DEF Asked
    <3>2. u.id \in 0..made /\ u.sets + 1 \in Nat
      BY <2>1 DEF Rows
    <3> HIDE DEF q
    <3>3. Asked([q EXCEPT !.user = u.id, !.seen = u.sets + 1], made, now)
      BY <2>2, <3>1, <3>2 DEF Asked, Shaped, Registering
    <3>4. r.user = u.id /\ r.step = "profile"
      BY <3>1 DEF Shaped, q
    <3> QED BY <3>3, <3>4 DEF q
  <2>5. Put(v) /\ Goes(h, r)
    OBVIOUS
  <2> HIDE DEF v, r
  <2>6. Moves(h, r)
    BY <2>1, <2>4, <2>5, GoesMoves DEF Inv
  <2>7. Tables'
    BY <2>3, <2>5, PutTables DEF Inv
  <2>8. ASSUME NEW w \in users', w.id \notin broken' PROVE Fine(w)'
    <3>1. CASE w = v
      <4>1. Fine(u)
        BY <2>3, <2>8, <3>1 DEF Inv, Whole
      <4>2. u.id \in students' \/ Busy(u.id, ToStudent)'
        BY <1>0, <2>6, <4>1 DEF Fine, Busy, Moves
      <4>3. Busy(u.id, ToOwner)'
        BY <2>4, <2>6 DEF Busy, Moves, ToOwner
      <4> QED BY <2>3, <3>1, <4>2, <4>3 DEF Fine
    <3>2. CASE w # v
      <4>1. w \in users /\ Fine(w) /\ Cares(h, r, w.id)
        BY <1>0, <2>5, <2>8, <3>2 DEF Inv, Whole, Put, Cares
      <4> QED BY <2>6, <4>1, FineStays
    <3> QED BY <3>1, <3>2
  <2> QED BY <2>6, <2>7, <2>8 DEF Inv, Whole, Moves
<1> QED BY <1>1, <1>2

LEMMA CreateRoleKeeps ==
  ASSUME Inv, NEW h \in Handlers, CreateRole(h)
  PROVE  Inv'
<1>1. CASE req[h].user \notin students
  BY <1>1, FailsKeep DEF CreateRole
<1>2. CASE req[h].user \in students
  <2>1. /\ req[h].step = "own" /\ owners' = owners \cup {req[h].user}
        /\ getTokens(h, req[h].user, req[h].seen, FALSE) /\ Ends(h)
        /\ UNCHANGED <<now, users, students, mail, files, made, broken>>
    BY <1>2 DEF CreateRole, Step
  <2>2. made \in Nat /\ now \in Nat /\ req[h].user \in 0..made
    BY DEF Inv, Tables, Requested, Asked
  <2>3. Tables'
    BY <1>2, <2>1, <2>2 DEF Inv, Tables, getTokens, Session, mail
  <2>4. Grows
    BY <2>1, <2>2 DEF Grows
  <2>5. Moves(h, Idle)
    BY <2>1, <2>4, EndsMoves DEF Inv, Ends, Goes
  <2>6. ASSUME NEW id \in Nat PROVE Cares(h, Idle, id)
    BY <2>1 DEF Cares, ToStudent
  <2> QED BY <2>1, <2>3, <2>5, <2>6, SameUsersKeep
<1> QED BY <1>1, <1>2

LEMMA AddUnregisteredKeeps ==
  ASSUME Inv, NEW h \in Handlers, NEW email \in Emails, addUnregistered(h, email)
  PROVE  Inv'
<1> DEFINE r == [Idle EXCEPT !.step = "pseudo", !.email = email]
<1>1. Asked(r, made, now)
  BY DEF Asked, Shaped, Idle, Inv, Tables, Registering
<1>2. Begins(h, r) /\ Reads
  BY DEF addUnregistered
<1> HIDE DEF r
<1> QED BY <1>1, <1>2, BeginsKeep

-----------------------------------------------------------------------------
(* Users who go *)

LEMMA DeleteUserKeeps ==
  ASSUME Inv, NEW h \in Handlers, NEW user \in users, deleteUser(h, user.id)
  PROVE  Inv'
<1> DEFINE r == [Idle EXCEPT !.step = "delete", !.user = user.id]
<1>1. user.id \in 0..made
  BY DEF Inv, Tables, Rows
<1>2. Asked(r, made, now) /\ r.user = user.id /\ r.step = "delete"
  BY <1>1 DEF Asked, Shaped, Idle, Inv, Tables, Registering
<1>3. /\ Begins(h, r) /\ owners' = owners \ {user.id}
      /\ UNCHANGED <<now, users, students, mail, files, sessions, made, broken>>
  BY DEF deleteUser
<1> HIDE DEF r
<1>4. Moves(h, r) /\ req[h].step = "idle"
  BY <1>2, <1>3, BeginsMoves DEF Inv
<1>5. Tables'
  BY <1>3 DEF Inv, Tables, mail
<1>6. Busy(user.id, ToOwner)'
  BY <1>2, <1>4 DEF Busy, Moves, ToOwner
<1>7. ASSUME NEW u \in users', u.id \notin broken' PROVE Fine(u)'
  <2>1. Fine(u) /\ Cares(h, r, u.id)
    BY <1>3, <1>4, <1>7 DEF Inv, Whole, Cares, ToStudent, ToOwner
  <2> QED BY <1>3, <1>4, <1>6, <2>1, FineStays
<1> QED BY <1>4, <1>5, <1>7 DEF Inv, Whole, Moves

LEMMA DeleteRowKeeps ==
  ASSUME Inv, NEW h \in Handlers, DeleteRow(h)
  PROVE  Inv'
<1>1. CASE ~Exists(req[h].user)
  BY <1>1, FailsKeep DEF DeleteRow
<1>2. CASE Exists(req[h].user)
  <2>1. /\ users' = {u \in users : u.id # req[h].user}
        /\ students' = students \ {req[h].user} /\ owners' = owners \ {req[h].user} /\ Ends(h)
        /\ UNCHANGED <<now, mail, files, sessions, made, broken>>
    BY <1>2 DEF DeleteRow
  <2>2. Tables'
    BY <2>1 DEF Inv, Tables, mail
  <2>3. Grows
    BY <2>1 DEF Inv, Tables, Grows
  <2>4. Moves(h, Idle)
    BY <2>1, <2>3, EndsMoves DEF Inv, Ends, Goes
  <2>5. ASSUME NEW u \in users', u.id \notin broken' PROVE Fine(u)'
    <3>1. Fine(u) /\ Cares(h, Idle, u.id) /\ u.id # req[h].user
      BY <2>1, <2>5 DEF Inv, Whole, Cares
    <3> QED BY <2>1, <2>4, <3>1, FineStays
  <2> QED BY <2>2, <2>4, <2>5 DEF Inv, Whole, Moves
<1> QED BY <1>1, <1>2

LEMMA RestartKeeps ==
  ASSUME Inv, Restart
  PROVE  Inv'
<1> USE DEF Restart
<1>1. Tables'
  <2>1. users' \subseteq users /\ students' \subseteq {u.id : u \in users'}
    OBVIOUS
  <2>2. owners' \subseteq students'
    OBVIOUS
  <2> QED BY <2>1, <2>2 DEF Inv, Tables, mail
<1>2. Requested'
  BY IdleAsked DEF Inv, Tables, Requested
<1>3. ASSUME NEW u \in users', u.id \notin broken' PROVE Fine(u)'
  <2>1. u \in users /\ u.id \notin broken /\ \A h \in Handlers : req[h].user # u.id
    BY <1>3
  <2>2. Fine(u)
    BY <2>1 DEF Inv, Whole
  <2>3. u.id \in students /\ (u.password = NONE \/ u.id \in owners)
    BY <2>1, <2>2 DEF Fine, Busy
  <2>4. u.id \in students' /\ (u.password = NONE \/ u.id \in owners')
    BY <1>3, <2>3
  <2> QED BY <2>2, <2>4 DEF Fine
<1> QED BY <1>1, <1>2, <1>3 DEF Inv, Whole

-----------------------------------------------------------------------------
(* Links and the clock *)

\* No request does anything, and no account changes.
LEMMA NobodyKeeps ==
  ASSUME Inv, Grows, req' = req, users' = users, students' = students, owners' = owners,
         broken' = broken, Tables'
  PROVE  Inv'
<1>1. ASSUME NEW h \in Handlers PROVE Asked(req[h], made', now')
  BY AskedLater DEF Inv, Tables, Requested, Grows
<1>2. Requested'
  BY <1>1 DEF Inv, Requested
<1>3. Whole'
  BY DEF Inv, Whole, Fine, Busy
<1> QED BY <1>2, <1>3 DEF Inv

LEMMA LinksAndClockKeep ==
  ASSUME Inv, Expire \/ Tick \/ UNCHANGED vars \/ \E email \in Emails : forgotPassword(email)
  PROVE  Inv'
<1>1. CASE Expire
  <2>1. Grows
    BY <1>1 DEF Expire, Inv, Tables, Grows
  <2>2. links' \subseteq links /\ resets' \subseteq resets
    BY <1>1 DEF Expire
  <2>3. Tables'
    BY <1>1, <2>2 DEF Expire, Inv, Tables, people
  <2> QED BY <1>1, <2>1, <2>3, NobodyKeeps DEF Expire, people
<1>2. CASE Tick
  <2>1. made \in Nat /\ now \in Nat /\ now' = now + 1 /\ made' = made
    BY <1>2 DEF Tick, Inv, Tables
  <2>2. Rows(made, now) \subseteq Rows(made', now') /\ Grows
    BY <2>1, RowsLater DEF Grows
  <2>3. \A s \in sessions : s.user \in 0..made' /\ s.createdAt \in 0..now'
    BY <2>1 DEF Inv, Tables
  <2>4. Tables'
    BY <1>2, <2>1, <2>2, <2>3 DEF Tick, Inv, Tables, people, mail
  <2> QED BY <1>2, <2>2, <2>4, NobodyKeeps DEF Tick, people
<1>3. CASE UNCHANGED vars
  <2>1. Tables' /\ Grows
    BY <1>3 DEF vars, Inv, Tables, Grows
  <2> QED BY <1>3, <2>1, NobodyKeeps DEF vars
<1>4. CASE \E email \in Emails : forgotPassword(email)
  <2> PICK email \in Emails : forgotPassword(email)
    BY <1>4
  <2>1. made \in Nat /\ now \in Nat /\ now' = now /\ made' = made + 1
    BY DEF forgotPassword, Inv, Tables
  <2>2. Rows(made, now) \subseteq Rows(made', now') /\ Grows
    BY <2>1, RowsLater DEF Grows
  <2>3. \A s \in sessions : s.user \in 0..made' /\ s.createdAt \in 0..now'
    BY <2>1 DEF Inv, Tables
  <2>4. \A r \in resets' : r.email \in Emails
    BY DEF forgotPassword, Inv, Tables
  <2>5. Tables'
    BY <2>1, <2>2, <2>3, <2>4 DEF forgotPassword, Inv, Tables, people
  <2> QED BY <2>2, <2>5, NobodyKeeps DEF forgotPassword, people
<1> QED BY <1>1, <1>2, <1>3, <1>4

-----------------------------------------------------------------------------
(* Passwords and sessions *)

LEMMA LoginKeeps ==
  ASSUME Inv, NEW h \in Handlers, NEW name, NEW password, login(h, name, password)
  PROVE  Inv'
<1> PICK u \in users :
      Begins(h, [Idle EXCEPT !.step = "compare", !.user = u.id, !.seen = u.sets]) /\ Reads
  BY DEF login
<1> DEFINE r == [Idle EXCEPT !.step = "compare", !.user = u.id, !.seen = u.sets]
<1>1. u.id \in 0..made
  BY DEF Inv, Tables, Rows
<1>2. Asked(r, made, now)
  BY <1>1 DEF Asked, Shaped, Idle, Inv, Tables, Registering
<1>3. Begins(h, r) /\ Reads
  OBVIOUS
<1> HIDE DEF r
<1> QED BY <1>2, <1>3, BeginsKeep

LEMMA RefreshKeeps ==
  ASSUME Inv, NEW h \in Handlers, NEW session \in sessions, refresh(h, session)
  PROVE  Inv'
<1> DEFINE r == [Idle EXCEPT !.step = "renew", !.old = session]
<1>1. session.user \in 0..made
  BY DEF Inv, Tables
<1>2. Asked(r, made, now)
  BY <1>1 DEF Asked, Shaped, Idle, Inv, Tables, Registering
<1>3. Begins(h, r) /\ Reads
  BY DEF refresh
<1> HIDE DEF r
<1> QED BY <1>2, <1>3, BeginsKeep

LEMMA SessionsKeep ==
  ASSUME Inv, NEW h \in Handlers, OpenSession(h) \/ RenewSession(h)
  PROVE  Inv'
<1>1. PICK user, sets, raced :
        user \in 0..made /\ getTokens(h, user, sets, raced) /\ req[h].step \in {"compare", "renew"}
  <2>1. Asked(req[h], made, now)
    BY DEF Inv, Requested
  <2>2. CASE OpenSession(h)
    BY <2>1, <2>2 DEF OpenSession, Step, Asked
  <2>3. CASE RenewSession(h)
    BY <2>1, <2>3 DEF RenewSession, Step, Asked
  <2> QED BY <2>2, <2>3
<1>2. Ends(h) /\ UNCHANGED <<now, people, mail, files, made, broken>>
  BY DEF OpenSession, RenewSession
<1>3. Tables' /\ Grows
  BY <1>1, <1>2 DEF Inv, Tables, Grows, getTokens, Session, people, mail
<1>4. Moves(h, Idle)
  BY <1>2, <1>3, EndsMoves DEF Inv, Ends, Goes
<1>5. ASSUME NEW id \in Nat PROVE Cares(h, Idle, id)
  BY <1>1 DEF Cares, ToStudent, ToOwner
<1> QED BY <1>2, <1>3, <1>4, <1>5, SameUsersKeep DEF people

LEMMA ResetPasswordKeeps ==
  ASSUME Inv, NEW h \in Handlers, NEW link \in resets, NEW new \in Passwords,
         resetPassword(h, link, new)
  PROVE  Inv'
<1> DEFINE r == [Idle EXCEPT !.step = "hash", !.link = link, !.email = link.email, !.new = new]
<1>1. Asked(r, made, now)
  BY DEF Asked, Shaped, Idle, Inv, Tables, Registering
<1>2. Begins(h, r) /\ Reads
  BY DEF resetPassword
<1> HIDE DEF r
<1> QED BY <1>1, <1>2, BeginsKeep

LEMMA UpdatePasswordKeeps ==
  ASSUME Inv, NEW h \in Handlers, NEW session \in sessions, NEW old, NEW new \in Passwords,
         updatePassword(h, session, old, new)
  PROVE  Inv'
<1> PICK u \in users :
      Begins(h, [Idle EXCEPT !.step = "hash", !.user = u.id, !.email = u.email, !.new = new])
  BY DEF updatePassword
<1> DEFINE r == [Idle EXCEPT !.step = "hash", !.user = u.id, !.email = u.email, !.new = new]
<1>1. u.id \in 0..made
  BY DEF Inv, Tables, Rows
<1>2. Asked(r, made, now)
  BY <1>1 DEF Asked, Shaped, Idle, Inv, Tables, Registering
<1>3. Begins(h, r) /\ Reads
  BY DEF updatePassword
<1> HIDE DEF r
<1> QED BY <1>2, <1>3, BeginsKeep

LEMMA HashPasswordKeeps ==
  ASSUME Inv, NEW h \in Handlers, HashPassword(h)
  PROVE  Inv'
<1> DEFINE q == To(h, "write")
           r == [q EXCEPT !.since = now]
<1>1. req[h].step = "hash" /\ Asked(req[h], made, now) /\ Shaped(req[h])
  BY DEF HashPassword, Step, Inv, Requested, Asked
<1>2. Shaped(q) /\ q.step = "write" /\ q.user = req[h].user /\ q.new = req[h].new
  BY <1>1, ToMoves
<1>3. Goes(h, r) /\ Reads
  BY DEF HashPassword
<1> HIDE DEF q
<1>4. Asked(r, made, now)
  BY <1>1, <1>2 DEF Asked, Shaped, Inv, Tables, Registering
<1> HIDE DEF r
<1>5. ASSUME NEW id \in Nat PROVE Cares(h, r, id)
  BY <1>1 DEF Cares, ToStudent, ToOwner
<1> QED BY <1>3, <1>4, <1>5, GoesKeep

\* A password is set on a row: nothing of what Fine is about changes for one who had one.
LEMMA WithPasswordRow ==
  ASSUME NEW u \in Rows(made, now), NEW password \in Passwords, NEW time \in 0..now,
         NEW v, v = WithPassword(u, password, time)
  PROVE  /\ v \in Rows(made, now) /\ v.id = u.id /\ v.email = u.email
         /\ v.password # NONE /\ v.state = u.state
<1> DEFINE a == [u EXCEPT !.password = password, !.changed = time]
<1>1. /\ a \in Rows(made, now) /\ a.sets \in Nat /\ a.id = u.id /\ a.email = u.email
      /\ a.password = password /\ a.state = u.state
  BY DEF Rows
<1>2. v = [a EXCEPT !.sets = a.sets + 1]
  BY DEF WithPassword, Rows
<1> HIDE DEF a
<1>3. a.sets + 1 \in Nat
  BY <1>1
<1>4. v \in Rows(made, now) /\ v.id = a.id /\ v.email = a.email
  BY <1>1, <1>2, <1>3 DEF Rows
<1>5. v.password = a.password /\ v.state = a.state
  BY <1>1, <1>2 DEF Rows
<1> QED BY <1>1, <1>4, <1>5, AccountsAssumption

LEMMA SetPasswordKeeps ==
  ASSUME Inv, NEW h \in Handlers, setPassword(h)
  PROVE  Inv'
<1> DEFINE found == {u \in users : u.email = req[h].email}
           set(u) == IF u \in found THEN WithPassword(u, req[h].new, req[h].since) ELSE u
<1>1. /\ req[h].step = "write" /\ Asked(req[h], made, now) /\ Shaped(req[h])
      /\ made \in Nat /\ now \in Nat
  BY DEF setPassword, Step, Inv, Requested, Tables, Asked
<1>2. /\ req[h].new \in Passwords /\ req[h].since \in 0..now /\ req[h].user \in 0..made
  BY <1>1 DEF Asked
<1>3. /\ users' = {set(u) : u \in users}
      /\ broken' = broken \cup {u.id : u \in {v \in found : v.password = NONE}}
      /\ UNCHANGED <<now, students, owners, mail, files, made>>
  BY DEF setPassword
<1>4. ASSUME NEW u \in users
      PROVE  /\ set(u) \in Rows(made, now) /\ set(u).id = u.id /\ set(u).email = u.email
             /\ set(u).state = u.state
             /\ set(u) = u \/ (u \in found /\ set(u).password # NONE)
  <2>1. u \in Rows(made, now)
    BY DEF Inv, Tables
  <2> QED BY <1>2, <2>1, WithPasswordRow
<1>5. PICK r : Goes(h, r) /\ Asked(r, made, now)
  <2>1. CASE req[h].link # NONE
    <3>1. Asked(To(h, "spend"), made, now)
      BY <1>1, ToMoves DEF Asked, Registering
    <3> QED BY <2>1, <3>1 DEF setPassword
  <2>2. CASE req[h].link = NONE
    BY <2>2, EndsAsked DEF setPassword, Ends, Inv
  <2> QED BY <2>1, <2>2
<1>6. \A s \in sessions' : s \in sessions \/ (s.user = req[h].user /\ s.createdAt = now)
  BY DEF setPassword, getTokens, Session
<1>7. Grows
  BY <1>1, <1>3 DEF Grows
<1>8. Moves(h, r)
  BY <1>3, <1>5, <1>7, GoesMoves DEF Inv
<1> HIDE DEF set
<1>9. Tables'
  <2>1. users' \subseteq Rows(made, now)
    BY <1>3, <1>4
  <2>2. \A v, w \in users' : v.id = w.id \/ v.email = w.email => v = w
    BY <1>3, <1>4 DEF Inv, Tables
  <2>3. students' \subseteq {v.id : v \in users'}
    BY <1>3, <1>4 DEF Inv, Tables
  <2>4. \A s \in sessions' : s.user \in 0..made /\ s.createdAt \in 0..now
    BY <1>1, <1>2, <1>6 DEF Inv, Tables
  <2> QED BY <1>3, <2>1, <2>2, <2>3, <2>4 DEF Inv, Tables, mail
<1>10. ASSUME NEW v \in users', v.id \notin broken' PROVE Fine(v)'
  <2> PICK u \in users : v = set(u)
    BY <1>3
  <2>1. Fine(u) /\ v.id = u.id
    BY <1>3, <1>4, <1>10 DEF Inv, Whole
  <2>2. v.state = u.state /\ (v.password # NONE <=> u.password # NONE)
    BY <1>3, <1>4, <1>10
  <2>3. Cares(h, r, u.id)
    BY <1>1 DEF Cares, ToStudent, ToOwner
  <2>4. Fine(u)'
    BY <1>3, <1>8, <2>1, <2>3, FineStays
  <2> QED BY <2>1, <2>2, <2>4 DEF Fine
<1> QED BY <1>8, <1>9, <1>10 DEF Inv, Whole, Moves

LEMMA SpendLinkKeeps ==
  ASSUME Inv, NEW h \in Handlers, SpendLink(h)
  PROVE  Inv'
<1> USE DEF SpendLink
<1>1. Tables' /\ Grows
  BY DEF Inv, Tables, Grows, people
<1>2. Moves(h, Idle)
  BY <1>1, EndsMoves DEF Inv, Ends, Goes
<1>3. ASSUME NEW id \in Nat PROVE Cares(h, Idle, id)
  BY DEF Cares, ToStudent, ToOwner, Step
<1> QED BY <1>1, <1>2, <1>3, SameUsersKeep DEF people

-----------------------------------------------------------------------------
(* Pictures *)

LEMMA UpdateAvatarKeeps ==
  ASSUME Inv, NEW h \in Handlers, NEW u \in users, NEW new \in Pictures \cup {NoPicture},
         updateAvatar(h, u, new)
  PROVE  Inv'
<1> DEFINE step == IF u.avatar \in files THEN "count" ELSE "save"
           r == [Idle EXCEPT !.step = step, !.user = u.id, !.old = u.avatar, !.new = new]
<1>1. u.id \in 0..made /\ step \in {"count", "save"}
  BY DEF Inv, Tables, Rows
<1>2. Begins(h, r) /\ Reads
  BY DEF updateAvatar
<1> HIDE DEF step
<1>3. Asked(r, made, now)
  BY <1>1 DEF Asked, Shaped, Idle, Inv, Tables, Registering
<1> HIDE DEF r
<1> QED BY <1>2, <1>3, BeginsKeep

\* A request about a picture goes on with what it is to save.
LEMMA PictureStepsKeep ==
  ASSUME Inv, NEW h \in Handlers, req[h].step \in {"count", "erase", "save"},
         NEW step \in {"erase", "save", "note"}, Goes(h, To(h, step)), Tables',
         UNCHANGED <<now, people, made, broken>>
  PROVE  Inv'
<1>1. Asked(req[h], made, now) /\ Shaped(req[h])
  BY DEF Inv, Requested, Asked
<1>2. Asked(To(h, step), made, now)
  BY <1>1, ToMoves DEF Asked, Registering
<1>3. Grows
  BY DEF Inv, Tables, Grows
<1>4. Moves(h, To(h, step))
  BY <1>2, <1>3, GoesMoves DEF Inv
<1>5. ASSUME NEW id \in Nat PROVE Cares(h, To(h, step), id)
  BY DEF Cares, ToStudent, ToOwner
<1> QED BY <1>4, <1>5, SameUsersKeep DEF people

LEMMA PicturesKeep ==
  ASSUME Inv, NEW h \in Handlers, CountUsers(h) \/ deleteFile(h) \/ saveByHash(h)
  PROVE  Inv'
<1>1. CASE CountUsers(h)
  <2>1. Tables'
    BY <1>1, ReadsTables DEF CountUsers, Inv
  <2>2. UNCHANGED <<now, people, made, broken>> /\ req[h].step = "count"
    BY <1>1 DEF CountUsers, Step, Reads
  <2>3. CASE Goes(h, To(h, "erase"))
    BY <2>1, <2>2, <2>3, PictureStepsKeep
  <2>4. CASE Goes(h, To(h, "save"))
    BY <2>1, <2>2, <2>4, PictureStepsKeep
  <2> QED BY <1>1, <2>3, <2>4 DEF CountUsers
<1>2. CASE deleteFile(h)
  <2>1. CASE req[h].old \notin files
    BY <1>2, <2>1, FailsKeep DEF deleteFile
  <2>2. CASE req[h].old \in files
    <3>1. /\ req[h].step = "erase" /\ files' = files \ {req[h].old} /\ Goes(h, To(h, "save"))
          /\ UNCHANGED <<now, people, mail, sessions, made, broken>>
      BY <1>2, <2>2 DEF deleteFile, Step
    <3>2. Tables'
      BY <3>1 DEF Inv, Tables, people, mail
    <3> QED BY <3>1, <3>2, PictureStepsKeep
  <2> QED BY <2>1, <2>2
<1>3. CASE saveByHash(h)
  <2>1. req[h].step = "save" /\ req[h].new \in Pictures \cup {NoPicture}
    BY <1>3 DEF saveByHash, Step, Inv, Requested, Asked
  <2>2. /\ files' \subseteq files \cup ({req[h].new} \ {NoPicture}) /\ Goes(h, To(h, "note"))
        /\ UNCHANGED <<now, people, mail, sessions, made, broken>>
    BY <1>3 DEF saveByHash
  <2>3. Tables'
    BY <2>1, <2>2 DEF Inv, Tables, people, mail
  <2> QED BY <2>1, <2>2, <2>3, PictureStepsKeep
<1> QED BY <1>1, <1>2, <1>3

LEMMA NoteAvatarKeeps ==
  ASSUME Inv, NEW h \in Handlers, NoteAvatar(h)
  PROVE  Inv'
<1>1. CASE ~Exists(req[h].user)
  BY <1>1, FailsKeep DEF NoteAvatar
<1>2. CASE Exists(req[h].user)
  <2> DEFINE u == Row(req[h].user)
             v == [u EXCEPT !.avatar = req[h].new]
  <2>1. u \in users /\ u.id = req[h].user
    BY <1>2 DEF Exists, Row
  <2>2. Put(v) /\ Ends(h) /\ UNCHANGED <<now, students, owners, mail, files, sessions, made, broken>>
    BY <1>2 DEF NoteAvatar
  <2>3. req[h].step = "note" /\ req[h].new \in Pictures \cup {NoPicture}
    BY DEF NoteAvatar, Step, Inv, Requested, Asked
  <2>4. u \in Rows(made, now)
    BY <2>1 DEF Inv, Tables
  <2> HIDE DEF u
  <2>5. /\ v \in Rows(made, now) /\ v.id = u.id /\ v.email = u.email
        /\ v.password = u.password /\ v.state = u.state
    BY <2>3, <2>4 DEF Rows
  <2> HIDE DEF v
  <2>6. Tables'
    BY <2>1, <2>2, <2>5, PutTables DEF Inv
  <2>7. Grows
    BY <2>2 DEF Inv, Tables, Grows
  <2>8. Moves(h, Idle)
    BY <2>2, <2>7, EndsMoves DEF Inv, Ends, Goes
  <2>9. ASSUME NEW w \in users', w.id \notin broken' PROVE Fine(w)'
    <3>1. PICK x \in users : x.id = w.id /\ x.password = w.password /\ x.state = w.state
      BY <2>1, <2>2, <2>5 DEF Put
    <3>2. Fine(x) /\ Cares(h, Idle, x.id)
      BY <2>2, <2>3, <2>9, <3>1 DEF Inv, Whole, Cares, ToStudent, ToOwner
    <3>3. Fine(x)'
      BY <2>2, <2>8, <3>2, FineStays
    <3> QED BY <3>1, <3>3 DEF Fine
  <2> QED BY <2>6, <2>8, <2>9 DEF Inv, Whole, Moves
<1> QED BY <1>1, <1>2

-----------------------------------------------------------------------------
(* Theorems *)

LEMMA ServeKeeps ==
  ASSUME Inv, NEW h \in Handlers, Serve(h)
  PROVE  Inv'
<1>1. CASE \E link \in Registrations : register(h, link)
  BY <1>1, RegisterKeeps
<1>2. CASE \E link \in links : verifyEmail(h, link)
  BY <1>2, VerifyEmailKeeps
<1>3. CASE requestEmailVerification(h) \/ AskPseudo(h) \/ AskTaken(h) \/ AskPseudoAgain(h)
  BY <1>3, RequestEmailVerificationKeeps, AsksKeep
<1>4. CASE CreateUser(h) \/ CreateStudent(h) \/ verify(h) \/ UpdateUser(h) \/ UpdateStudent(h)
  BY <1>4, CreateUserKeeps, CreateStudentKeeps, UpdateUserKeeps, OnToRoleStepsKeep
<1>5. CASE DeleteLink(h) \/ CreateRole(h)
  BY <1>5, CreateRoleKeeps, OnToRoleStepsKeep
<1>6. CASE \E email \in Emails : addUnregistered(h, email)
  BY <1>6, AddUnregisteredKeeps
<1>7. CASE CreatePseudo(h) \/ CreateMember(h)
  BY <1>7, CreatePseudoKeeps, CreateMemberKeeps
<1>8. CASE \E u \in users : deleteUser(h, u.id)
  BY <1>8, DeleteUserKeeps
<1>9. CASE DeleteRow(h)
  BY <1>9, DeleteRowKeeps
<1>10. CASE \E name \in Emails \cup Usernames, password \in Passwords : login(h, name, password)
  BY <1>10, LoginKeeps
<1>11. CASE OpenSession(h) \/ RenewSession(h)
  BY <1>11, SessionsKeep
<1>12. CASE \E session \in sessions :
              \/ refresh(h, session)
              \/ \E old, new \in Passwords : updatePassword(h, session, old, new)
  BY <1>12, RefreshKeeps, UpdatePasswordKeeps
<1>13. CASE \E link \in resets, new \in Passwords : resetPassword(h, link, new)
  BY <1>13, ResetPasswordKeeps
<1>14. CASE HashPassword(h) \/ setPassword(h) \/ SpendLink(h)
  BY <1>14, HashPasswordKeeps, SetPasswordKeeps, SpendLinkKeeps
<1>15. CASE \E u \in users, new \in Pictures \cup {NoPicture} : updateAvatar(h, u, new)
  BY <1>15, UpdateAvatarKeeps
<1>16. CASE CountUsers(h) \/ deleteFile(h) \/ saveByHash(h) \/ NoteAvatar(h)
  BY <1>16, PicturesKeep, NoteAvatarKeeps
<1> QED
  BY <1>1, <1>2, <1>3, <1>4, <1>5, <1>6, <1>7, <1>8, <1>9, <1>10, <1>11, <1>12, <1>13, <1>14,
     <1>15, <1>16 DEF Serve

LEMMA Inductive == Inv /\ [Next]_vars => Inv'
<1> SUFFICES ASSUME Inv, [Next]_vars PROVE Inv'
  OBVIOUS
<1>1. CASE \E h \in Handlers : Serve(h)
  BY <1>1, ServeKeeps
<1>2. CASE \E email \in Emails : forgotPassword(email)
  BY <1>2, LinksAndClockKeep
<1>3. CASE Expire \/ Tick \/ UNCHANGED vars
  BY <1>3, LinksAndClockKeep
<1>4. CASE Restart
  BY <1>4, RestartKeeps
<1> QED BY <1>1, <1>2, <1>3, <1>4 DEF Next

\* Rows of users keep their columns, and the tables that hang on them their users, whatever
\* requests cross and wherever the server stops (schema.prisma:19-35, 89-105, 318-327).
THEOREM RowsKeepTheirUsers == Spec => []TypeOK
<1> QED BY InvInit, Inductive, InvEnough, PTL DEF Spec

\* However verifications, lists of addresses, deletions, new passwords and stops cross, an
\* account that no request was cut short on is whole: its user can log in just when he has a
\* password, and when no request works on him is a student, with a password the owner of
\* his profile (AuthService.ts:319-375, 418-448, GroupService.ts:130-140,
\* UserService.ts:272-282, PrismaService.ts:8-16).
THEOREM AccountsAreWhole == Spec => []AccountsWhole
<1> QED BY InvInit, Inductive, InvEnough, PTL DEF Spec

-----------------------------------------------------------------------------
(* What sessions say of passwords *)

\* A number of times the password of a user was set, as a request knows it: it was
\* right once, the user still has a password, and if it is sure it is right now.
Knows(id, sets, sure) ==
  /\ sets \in Nat
  /\ \A u \in users : u.id = id =>
       u.password # NONE /\ sets <= u.sets /\ (sure => sets = u.sets)

\* Of whoever has the address, the sessions that did not race are from before a time.
Before(email, time) ==
  \A s \in sessions, u \in users :
    u.email = email /\ u.id = s.user /\ ~s.raced => s.createdAt < time

\* Steps of a request that leads to a session of the password it has seen.
ToSession == {"compare", "student", "tell", "profile", "unlink", "own"}

\* What a request that overlapped with no other still knows when it goes on: the
\* password it has seen is the present one, an account it is about to give a password
\* has no sessions, and those of an account it is changing are older than the change.
Holds(r) ==
  /\ r.overlap \in BOOLEAN
  /\ r.step \in ToSession => Knows(r.user, r.seen, ~r.overlap)
  /\ r.step = "renew" =>
       /\ r.old.raced \in BOOLEAN
       /\ Knows(r.old.user, r.old.sets, ~r.overlap /\ ~r.old.raced)
  /\ r.step = "update" => Before(r.link.email, 0)
  /\ r.step = "hash" => Before(r.email, r.since + 1)
  /\ r.step = "write" => Before(r.email, r.since)
  /\ r.step \in {"hash", "write"} /\ r.link = NONE =>
       \A u \in users : u.id = r.user => u.email = r.email /\ u.password # NONE

\* Two requests in progress have overlapped.
Apart == \A g, h \in Handlers : g # h /\ Working(g) /\ Working(h) => req[g].overlap

\* A session is of a password the user had: of the present one when it is not older
\* than that, and if it did not race only then.
Told(s) ==
  /\ s.raced \in BOOLEAN
  /\ Knows(s.user, s.sets, FALSE)
  /\ \A u \in users : u.id = s.user =>
       /\ s.sets = u.sets => u.changed <= s.createdAt
       /\ ~s.raced /\ s.sets # u.sets => s.createdAt < u.changed

SessionInv ==
  /\ Apart
  /\ \A s \in sessions : Told(s)
  /\ \A h \in Handlers : Holds(req[h])

\* Rows of users, each the successor of one that was there or new: they keep their
\* addresses, stay with a password, and count on; or keep all that sessions are about.
Grown ==
  \A v \in users' : v.id > made \/ \E u \in users :
    /\ u.id = v.id /\ u.email = v.email
    /\ u.password # NONE => v.password # NONE
    /\ u.sets <= v.sets
Same ==
  \A v \in users' : v.id > made \/ \E u \in users :
    /\ u.id = v.id /\ u.email = v.email /\ u.password = v.password
    /\ u.sets = v.sets /\ u.changed = v.changed

LEMMA RowTypes ==
  ASSUME Tables
  PROVE  \A u \in users : u.id \in 1..made /\ u.sets \in Nat /\ u.changed \in 0..now
  BY DEF Tables, Rows

LEMMA SessionsEnough == Tables /\ SessionInv => SessionsAgree
<1> SUFFICES ASSUME Tables, SessionInv, NEW s \in sessions, NEW u \in users, u.id = s.user
             PROVE  /\ Accepted(s, u) /\ ~s.raced => s.sets = u.sets
                    /\ s.sets = u.sets => Accepted(s, u)
  BY DEF SessionsAgree
<1>1. Told(s) /\ s.createdAt \in 0..now /\ u.changed \in 0..now /\ now \in Nat
  BY RowTypes DEF SessionInv, Tables
<1> QED BY <1>1 DEF Told, Accepted

LEMMA SameUsersSame == users' = users => Same
  BY DEF Same

LEMMA SameGrown == Tables /\ Same => Grown
<1> SUFFICES ASSUME Tables, Same, NEW v \in users', ~(v.id > made)
             PROVE  \E u \in users : /\ u.id = v.id /\ u.email = v.email
                                     /\ u.password # NONE => v.password # NONE
                                     /\ u.sets <= v.sets
  BY DEF Grown
<1>1. PICK u \in users : /\ u.id = v.id /\ u.email = v.email
                         /\ u.password = v.password /\ u.sets = v.sets
  BY DEF Same
<1>2. u.sets <= v.sets
  BY <1>1, RowTypes
<1> QED BY <1>1, <1>2

LEMMA BeforeStays ==
  ASSUME Tables, Grown, NEW email, NEW time, Before(email, time),
         \A s \in sessions' : s \in sessions \/ s.raced
  PROVE  Before(email, time)'
<1> SUFFICES ASSUME NEW s \in sessions', NEW v \in users',
                    v.email = email, v.id = s.user, ~s.raced
             PROVE  s.createdAt < time
  BY DEF Before
<1>1. s \in sessions /\ s.user \in 0..made /\ made \in Nat
  BY DEF Tables
<1>2. ~(v.id > made)
  BY <1>1
<1>3. PICK u \in users : u.id = v.id /\ u.email = v.email
  BY <1>2 DEF Grown
<1> QED BY <1>1, <1>3 DEF Before

\* A number that was known is known later, and for sure if no row was set meanwhile.
LEMMA KnowsStays ==
  ASSUME Tables, Tables', Grown, NEW id \in 0..made, NEW sets, NEW sure, Knows(id, sets, sure),
         sure => Same
  PROVE  Knows(id, sets, sure)'
<1>1. sets \in Nat
  BY DEF Knows
<1>2. ASSUME NEW v \in users', v.id = id
      PROVE  v.password # NONE /\ sets <= v.sets /\ (sure => sets = v.sets)
  <2>0. ~(v.id > made) /\ v.sets \in Nat
    <3>1. made \in Nat
      BY DEF Tables
    <3>2. v.sets \in Nat
      BY DEF Tables, Rows
    <3> QED BY <1>2, <3>1, <3>2
  <2>1. PICK u \in users : /\ u.id = v.id /\ u.email = v.email
                           /\ u.password # NONE => v.password # NONE
                           /\ u.sets <= v.sets
    BY <2>0 DEF Grown
  <2>2. u.sets \in Nat /\ u.password # NONE /\ sets <= u.sets
    BY <1>2, <2>1, RowTypes DEF Knows
  <2>3. sets <= v.sets
    BY <1>1, <2>0, <2>1, <2>2
  <2>4. ASSUME sure PROVE sets = v.sets
    <3>1. PICK w \in users : w.id = v.id /\ w.sets = v.sets
      BY <2>0, <2>4 DEF Same
    <3> QED BY <1>2, <2>4, <3>1 DEF Knows
  <2> QED BY <2>1, <2>2, <2>3, <2>4
<1> QED BY <1>1, <1>2 DEF Knows

\* What a request holds outlives a step that sets no password, and if the request
\* has overlapped with another one any step; sessions made meanwhile have raced.
LEMMA HoldsStays ==
  ASSUME Tables, Tables', Grown, NEW r, Asked(r, made, now), Holds(r), r.overlap \/ Same,
         \A s \in sessions' : s \in sessions \/ s.raced
  PROVE  Holds(r)'
<1>1. r.overlap \in BOOLEAN
  BY DEF Holds
<1>2. ASSUME r.step \in ToSession PROVE Knows(r.user, r.seen, ~r.overlap)'
  <2>1. r.user \in 0..made /\ Knows(r.user, r.seen, ~r.overlap)
    BY <1>2 DEF Holds, Asked
  <2>2. CASE r.overlap
    <3>1. Knows(r.user, r.seen, FALSE)
      BY <2>1, <2>2 DEF Knows
    <3>2. Knows(r.user, r.seen, FALSE)'
      BY <2>1, <3>1, KnowsStays
    <3> QED BY <2>2, <3>2 DEF Knows
  <2>3. CASE ~r.overlap
    <3>1. Knows(r.user, r.seen, TRUE)
      BY <2>1, <2>3 DEF Knows
    <3>2. Knows(r.user, r.seen, TRUE)'
      BY <2>1, <2>3, <3>1, KnowsStays
    <3> QED BY <3>2 DEF Knows
  <2> QED BY <2>2, <2>3
<1>3. ASSUME r.step = "renew"
      PROVE  /\ r.old.raced \in BOOLEAN
             /\ Knows(r.old.user, r.old.sets, ~r.overlap /\ ~r.old.raced)'
  <2>1. /\ r.old.user \in 0..made /\ r.old.raced \in BOOLEAN
        /\ Knows(r.old.user, r.old.sets, ~r.overlap /\ ~r.old.raced)
    BY <1>3 DEF Holds, Asked
  <2>2. CASE r.overlap
    <3>1. Knows(r.old.user, r.old.sets, FALSE)
      BY <2>1 DEF Knows
    <3>2. Knows(r.old.user, r.old.sets, FALSE)'
      BY <2>1, <3>1, KnowsStays
    <3> QED BY <2>1, <2>2, <3>2 DEF Knows
  <2>3. CASE r.old.raced
    <3>1. Knows(r.old.user, r.old.sets, FALSE)
      BY <2>1 DEF Knows
    <3>2. Knows(r.old.user, r.old.sets, FALSE)'
      BY <2>1, <3>1, KnowsStays
    <3> QED BY <2>1, <2>3, <3>2 DEF Knows
  <2>4. CASE ~r.overlap /\ ~r.old.raced
    <3>1. Knows(r.old.user, r.old.sets, TRUE)
      BY <2>1, <2>4 DEF Knows
    <3>2. Knows(r.old.user, r.old.sets, TRUE)'
      BY <2>1, <2>4, <3>1, KnowsStays
    <3> QED BY <2>1, <3>2 DEF Knows
  <2> QED BY <2>2, <2>3, <2>4
<1>4. r.step = "update" => Before(r.link.email, 0)'
  BY BeforeStays DEF Holds
<1>5. r.step = "hash" => Before(r.email, r.since + 1)'
  BY BeforeStays DEF Holds
<1>6. r.step = "write" => Before(r.email, r.since)'
  BY BeforeStays DEF Holds
<1>7. ASSUME r.step \in {"hash", "write"}, r.link = NONE, NEW v \in users', v.id = r.user
      PROVE  v.email = r.email /\ v.password # NONE
  <2>1. ~(v.id > made)
    BY <1>7 DEF Asked, Tables
  <2>2. PICK u \in users : /\ u.id = v.id /\ u.email = v.email
                           /\ u.password # NONE => v.password # NONE
    BY <2>1 DEF Grown
  <2> QED BY <1>7, <2>2 DEF Holds
<1> QED BY <1>1, <1>2, <1>3, <1>4, <1>5, <1>6, <1>7 DEF Holds

\* A session stays what it is while no row it is about is set.
LEMMA ToldStays ==
  ASSUME Tables, Tables', Same, NEW s \in sessions, Told(s)
  PROVE  Told(s)'
<1>1. Grown /\ s.user \in 0..made /\ made \in Nat
  BY SameGrown DEF Tables
<1>2. Knows(s.user, s.sets, FALSE)'
  BY <1>1, KnowsStays DEF Told
<1>3. ASSUME NEW v \in users', v.id = s.user
      PROVE  /\ s.sets = v.sets => v.changed <= s.createdAt
             /\ ~s.raced /\ s.sets # v.sets => s.createdAt < v.changed
  <2>1. ~(v.id > made)
    BY <1>1, <1>3
  <2>2. PICK u \in users : u.id = v.id /\ u.sets = v.sets /\ u.changed = v.changed
    BY <2>1 DEF Same
  <2> QED BY <1>3, <2>2 DEF Told
<1> QED BY <1>2, <1>3 DEF Told

\* The other requests, during a step of one that is in progress.
LEMMA OthersHold ==
  ASSUME Inv, Tables', SessionInv, NEW h \in Handlers, Working(h), Grown,
         \A s \in sessions' : s \in sessions \/ (req[h].overlap => s.raced),
         NEW g \in Handlers \ {h}, NEW x, x = req[g]
  PROVE  Holds(x)'
<1>1. Holds(x) /\ Asked(x, made, now)
  BY DEF SessionInv, Inv, Requested
<1>2. CASE Working(g)
  <2>1. x.overlap /\ req[h].overlap
    BY <1>2 DEF SessionInv, Apart
  <2> QED BY <1>1, <2>1, HoldsStays DEF Inv
<1>3. CASE ~Working(g)
  BY <1>1, <1>3 DEF Holds, Working, ToSession
<1> QED BY <1>2, <1>3

\* A request in progress goes on as r.
LEMMA StepSessions ==
  ASSUME Inv, Inv', SessionInv, NEW h \in Handlers, Working(h), Grown,
         NEW r, req' = [req EXCEPT ![h] = r], r.step = "idle" \/ r.overlap = req[h].overlap,
         Holds(r)',
         \A s \in sessions' : Told(s)',
         \A s \in sessions' : s \in sessions \/ (req[h].overlap => s.raced)
  PROVE  SessionInv'
<1>1. req'[h] = r /\ \A g \in Handlers \ {h} : req'[g] = req[g]
  BY DEF Inv, Requested
<1>2. Apart'
  BY <1>1 DEF Apart, SessionInv, Working
<1>3. ASSUME NEW g \in Handlers PROVE Holds(req[g])'
  <2>1. CASE g = h
    <3>1. PICK x : x = req'[g]
      OBVIOUS
    <3>2. Holds(x)'
      BY <1>1, <2>1, <3>1
    <3> QED BY <3>1, <3>2 DEF Holds
  <2>2. CASE g # h
    <3>1. PICK x : x = req[g] /\ x = req'[g]
      BY <1>1, <2>2
    <3>2. Holds(x)'
      BY <2>2, <3>1, OthersHold DEF Inv
    <3> QED BY <3>1, <3>2 DEF Holds
  <2> QED BY <2>1, <2>2
<1> QED BY <1>2, <1>3 DEF SessionInv

LEMMA QuietSessions ==
  ASSUME Inv, Inv', SessionInv, NEW h \in Handlers, Working(h), Same, sessions' = sessions,
         NEW r, req' = [req EXCEPT ![h] = r], r.step = "idle" \/ r.overlap = req[h].overlap,
         Holds(r)'
  PROVE  SessionInv'
<1>1. \A s \in sessions' : Told(s)'
  BY ToldStays DEF SessionInv, Inv
<1>2. Grown
  BY SameGrown DEF Inv
<1> QED BY <1>1, <1>2, StepSessions

LEMMA EndSessions ==
  ASSUME Inv, Inv', SessionInv, NEW h \in Handlers, Working(h), Same, sessions' = sessions,
         req' = [req EXCEPT ![h] = Idle]
  PROVE  SessionInv'
<1>1. Holds(Idle)' /\ Idle.step = "idle"
  BY DEF Holds, Idle, ToSession
<1> HIDE DEF Idle
<1> QED BY <1>1, QuietSessions

LEMMA FailsSessions ==
  ASSUME Inv, Inv', SessionInv, NEW h \in Handlers, Working(h), Fails(h, req[h].user)
  PROVE  SessionInv'
  BY EndSessions, SameUsersSame DEF Fails, people

\* It goes on to a step that needs to know no more than it did.
LEMMA GoOnSessions ==
  ASSUME Inv, Inv', SessionInv, NEW h \in Handlers, Working(h), users' = users, sessions' = sessions,
         NEW step, Goes(h, To(h, step)),
         step \notin {"renew", "update", "hash", "write"},
         step \in ToSession => req[h].step \in ToSession
  PROVE  SessionInv'
<1>1. PICK r : r = To(h, step)
  OBVIOUS
<1>2. PICK x : x = req[h]
  OBVIOUS
<1>3. Shaped(x) /\ Asked(x, made, now) /\ Holds(x)
  BY <1>2 DEF Inv, Requested, Asked, SessionInv
<1>4. Same /\ Grown
  BY SameUsersSame, SameGrown DEF Inv
<1>5. Holds(x)'
  BY <1>3, <1>4, HoldsStays DEF Inv
<1>6. /\ r.step = step /\ r.user = x.user /\ r.seen = x.seen /\ r.overlap = x.overlap
  BY <1>1, <1>2, <1>3 DEF To, Shaped
<1>7. Holds(r)'
  BY <1>2, <1>5, <1>6 DEF Holds
<1> QED BY <1>1, <1>2, <1>4, <1>6, <1>7, QuietSessions DEF Goes

\* A request begins.
LEMMA BeginSessions ==
  ASSUME Inv, Inv', SessionInv, NEW h \in Handlers, NEW r, Shaped(r), Begins(h, r),
         UNCHANGED <<now, users, sessions>>,
         r.step \notin {"update", "write"},
         r.step \in ToSession => Knows(r.user, r.seen, TRUE),
         r.step = "renew" => r.old.raced \in BOOLEAN /\ Knows(r.old.user, r.old.sets, ~r.old.raced),
         r.step = "hash" /\ r.link = NONE =>
           \A u \in users : u.id = r.user => u.email = r.email /\ u.password # NONE
  PROVE  SessionInv'
<1> DEFINE f == [r EXCEPT !.overlap = Others(h), !.since = now]
           w(g) == [req[g] EXCEPT !.overlap = @ \/ Working(g)]
<1>1. req' = [g \in Handlers |-> IF g = h THEN f ELSE w(g)]
  BY DEF Begins
<1>2. Others(h) \in BOOLEAN
  BY DEF Others
<1>3. /\ f.step = r.step /\ f.user = r.user /\ f.seen = r.seen /\ f.old = r.old
      /\ f.link = r.link /\ f.email = r.email /\ f.since = now /\ f.overlap = Others(h)
  BY DEF Shaped
<1>4. ASSUME NEW g \in Handlers
      PROVE  /\ w(g).step = req[g].step /\ w(g).user = req[g].user /\ w(g).seen = req[g].seen
             /\ w(g).old = req[g].old /\ w(g).link = req[g].link /\ w(g).email = req[g].email
             /\ w(g).since = req[g].since
             /\ w(g).overlap = (req[g].overlap \/ Working(g))
  BY DEF Inv, Requested, Asked, Shaped
<1> HIDE DEF f, w
<1>5. Apart'
  <2> SUFFICES ASSUME NEW a \in Handlers, NEW b \in Handlers, a # b, Working(a)', Working(b)'
               PROVE  req'[a].overlap
    BY DEF Apart
  <2>1. CASE a = h
    <3>1. Working(b)
      BY <1>1, <1>4, <2>1 DEF Working
    <3> QED BY <1>1, <1>3, <2>1, <3>1 DEF Others
  <2>2. CASE a # h
    <3>1. Working(a)
      BY <1>1, <1>4, <2>2 DEF Working
    <3> QED BY <1>1, <1>4, <2>2, <3>1
  <2> QED BY <2>1, <2>2
<1>6. \A s \in sessions' : Told(s)'
  BY ToldStays, SameUsersSame DEF SessionInv, Inv
<1>7. \A email : Before(email, now + 1)
  <2>1. \A s \in sessions : s.createdAt \in 0..now /\ now \in Nat
    BY DEF Inv, Tables
  <2> QED BY <2>1 DEF Before
<1>8. Holds(f)
  <2>1. r.step \in ToSession => Knows(f.user, f.seen, ~f.overlap)
    BY <1>3 DEF Knows
  <2>2. r.step = "renew" =>
          f.old.raced \in BOOLEAN /\ Knows(f.old.user, f.old.sets, ~f.overlap /\ ~f.old.raced)
    BY <1>3 DEF Knows
  <2> QED BY <1>2, <1>3, <1>7, <2>1, <2>2 DEF Holds
<1>9. ASSUME NEW g \in Handlers PROVE Holds(w(g))
  <2>1. Holds(req[g])
    BY DEF SessionInv
  <2>2. w(g).overlap \in BOOLEAN /\ (req[g].overlap => w(g).overlap)
    BY <1>4, <2>1 DEF Holds, Working
  <2>3. req[g].step \in ToSession => Knows(w(g).user, w(g).seen, ~w(g).overlap)
    BY <1>4, <2>1, <2>2 DEF Holds, Knows
  <2>4. req[g].step = "renew" =>
          /\ w(g).old.raced \in BOOLEAN
          /\ Knows(w(g).old.user, w(g).old.sets, ~w(g).overlap /\ ~w(g).old.raced)
    BY <1>4, <2>1, <2>2 DEF Holds, Knows
  <2> QED BY <1>4, <2>1, <2>2, <2>3, <2>4 DEF Holds
<1>10. ASSUME NEW g \in Handlers PROVE Holds(req[g])'
  <2>1. PICK x : x = req'[g] /\ Holds(x)
    BY <1>1, <1>8, <1>9
  <2> QED BY <2>1 DEF Holds, Knows, Before
<1> QED BY <1>5, <1>6, <1>10 DEF SessionInv

\* Each step, with what is known of accounts before and after it.
LEMMA RegistrationSessions ==
  ASSUME Inv, Inv', SessionInv, NEW h \in Handlers,
         \/ \E link \in Registrations : register(h, link)
         \/ \E link \in links : verifyEmail(h, link)
         \/ \E email \in Emails : addUnregistered(h, email)
         \/ \E u \in users : deleteUser(h, u.id)
         \/ \E u \in users, new \in Pictures \cup {NoPicture} : updateAvatar(h, u, new)
  PROVE  SessionInv'
<1>1. PICK r : /\ Begins(h, r) /\ Shaped(r) /\ UNCHANGED <<now, users, sessions>>
               /\ r.step \in {"link", "verify", "pseudo", "delete", "count", "save"}
  <2>1. ASSUME NEW link, register(h, link) \/ verifyEmail(h, link)
        PROVE  \E r : /\ Begins(h, r) /\ Shaped(r) /\ UNCHANGED <<now, users, sessions>>
                      /\ r.step \in {"link", "verify", "pseudo", "delete", "count", "save"}
    <3>1. /\ Shaped([Idle EXCEPT !.step = "link", !.link = link])
          /\ [Idle EXCEPT !.step = "link", !.link = link].step = "link"
      BY DEF Shaped, Idle
    <3>2. /\ Shaped([Idle EXCEPT !.step = "verify", !.link = link])
          /\ [Idle EXCEPT !.step = "verify", !.link = link].step = "verify"
      BY DEF Shaped, Idle
    <3> QED BY <2>1, <3>1, <3>2 DEF register, verifyEmail, Reads, people
  <2>2. ASSUME NEW email, addUnregistered(h, email)
        PROVE  \E r : /\ Begins(h, r) /\ Shaped(r) /\ UNCHANGED <<now, users, sessions>>
                      /\ r.step \in {"link", "verify", "pseudo", "delete", "count", "save"}
    <3>1. /\ Shaped([Idle EXCEPT !.step = "pseudo", !.email = email])
          /\ [Idle EXCEPT !.step = "pseudo", !.email = email].step = "pseudo"
      BY DEF Shaped, Idle
    <3> QED BY <2>2, <3>1 DEF addUnregistered, Reads, people
  <2>3. ASSUME NEW u, deleteUser(h, u.id)
        PROVE  \E r : /\ Begins(h, r) /\ Shaped(r) /\ UNCHANGED <<now, users, sessions>>
                      /\ r.step \in {"link", "verify", "pseudo", "delete", "count", "save"}
    <3>1. /\ Shaped([Idle EXCEPT !.step = "delete", !.user = u.id])
          /\ [Idle EXCEPT !.step = "delete", !.user = u.id].step = "delete"
      BY DEF Shaped, Idle
    <3> QED BY <2>3, <3>1 DEF deleteUser
  <2>4. ASSUME NEW u, NEW new, updateAvatar(h, u, new)
        PROVE  \E r : /\ Begins(h, r) /\ Shaped(r) /\ UNCHANGED <<now, users, sessions>>
                      /\ r.step \in {"link", "verify", "pseudo", "delete", "count", "save"}
    <3> DEFINE step == IF u.avatar \in files THEN "count" ELSE "save"
               r == [Idle EXCEPT !.step = step, !.user = u.id, !.old = u.avatar, !.new = new]
    <3>1. Shaped(r) /\ r.step \in {"count", "save"}
      BY DEF Shaped, Idle
    <3>2. Begins(h, r) /\ Reads
      BY <2>4 DEF updateAvatar
    <3> HIDE DEF r
    <3> QED BY <3>1, <3>2 DEF Reads, people
  <2> QED BY <2>1, <2>2, <2>3, <2>4
<1> QED BY <1>1, BeginSessions DEF ToSession

LEMMA LoginSessions ==
  ASSUME Inv, Inv', SessionInv, NEW h \in Handlers, NEW name, NEW password \in Passwords,
         login(h, name, password)
  PROVE  SessionInv'
<1> PICK u \in users :
      /\ u.password = password
      /\ Begins(h, [Idle EXCEPT !.step = "compare", !.user = u.id, !.seen = u.sets]) /\ Reads
  BY DEF login
<1> DEFINE r == [Idle EXCEPT !.step = "compare", !.user = u.id, !.seen = u.sets]
<1>1. Shaped(r) /\ r.step = "compare" /\ r.user = u.id /\ r.seen = u.sets /\ Begins(h, r)
  BY DEF Shaped, Idle
<1> HIDE DEF r
<1>2. Knows(u.id, u.sets, TRUE)
  <2>1. u.password # NONE /\ u.sets \in Nat
    BY AccountsAssumption, RowTypes DEF Inv
  <2>2. \A v \in users : v.id = u.id => v = u
    BY DEF Inv, Tables
  <2> QED BY <2>1, <2>2 DEF Knows
<1> QED BY <1>1, <1>2, BeginSessions DEF Reads, people

\* A token that is valid and did not race is of the present password.
LEMMA RefreshSessions ==
  ASSUME Inv, Inv', SessionInv, NEW h \in Handlers, NEW session \in sessions, refresh(h, session)
  PROVE  SessionInv'
<1> DEFINE r == [Idle EXCEPT !.step = "renew", !.old = session]
<1>1. Shaped(r) /\ r.step = "renew" /\ r.old = session /\ Begins(h, r)
  BY DEF Shaped, Idle, refresh
<1> HIDE DEF r
<1>2. PICK u \in users : u.id = session.user /\ Accepted(session, u)
  BY DEF refresh, Valid
<1>3. \A v \in users : v.id = session.user => v = u
  BY <1>2 DEF Inv, Tables
<1>4. Told(session) /\ SessionsAgree
  BY SessionsEnough DEF SessionInv, Inv
<1>5. Knows(session.user, session.sets, ~session.raced) /\ session.raced \in BOOLEAN
  BY <1>2, <1>3, <1>4 DEF Told, Knows, SessionsAgree
<1>6. /\ r.old.raced \in BOOLEAN /\ Knows(r.old.user, r.old.sets, ~r.old.raced)
      /\ r.step \notin ToSession
  BY <1>1, <1>5 DEF ToSession
<1>7. UNCHANGED <<now, users, sessions>>
  BY DEF refresh, Reads, people
<1> QED BY <1>1, <1>6, <1>7, BeginSessions

LEMMA ResetPasswordSessions ==
  ASSUME Inv, Inv', SessionInv, NEW h \in Handlers, NEW link, NEW new, resetPassword(h, link, new)
  PROVE  SessionInv'
<1> DEFINE r == [Idle EXCEPT !.step = "hash", !.link = link, !.email = link.email, !.new = new]
<1>1. Shaped(r) /\ r.step = "hash" /\ r.user = 0 /\ Begins(h, r)
  BY DEF Shaped, Idle, resetPassword
<1> HIDE DEF r
<1>2. \A u \in users : u.id # 0
  BY RowTypes DEF Inv
<1> QED BY <1>1, <1>2, BeginSessions DEF resetPassword, Reads, people, ToSession

LEMMA UpdatePasswordSessions ==
  ASSUME Inv, Inv', SessionInv, NEW h \in Handlers, NEW session, NEW old \in Passwords, NEW new,
         updatePassword(h, session, old, new)
  PROVE  SessionInv'
<1> PICK u \in users :
      /\ u.password = old
      /\ Begins(h, [Idle EXCEPT !.step = "hash", !.user = u.id, !.email = u.email, !.new = new])
  BY DEF updatePassword
<1> DEFINE r == [Idle EXCEPT !.step = "hash", !.user = u.id, !.email = u.email, !.new = new]
<1>1. Shaped(r) /\ r.step = "hash" /\ r.user = u.id /\ r.email = u.email /\ Begins(h, r)
  BY DEF Shaped, Idle
<1> HIDE DEF r
<1>2. u.password # NONE /\ \A v \in users : v.id = u.id => v = u
  BY AccountsAssumption DEF Inv, Tables
<1> QED BY <1>1, <1>2, BeginSessions DEF updatePassword, Reads, people, ToSession

\* Steps on the way that change no user and end nowhere near a password.
LEMMA OnTheWaySessions ==
  ASSUME Inv, Inv', SessionInv, NEW h \in Handlers,
         \/ requestEmailVerification(h) \/ AskPseudo(h) \/ AskTaken(h)
         \/ CreateStudent(h) \/ verify(h) \/ UpdateStudent(h) \/ DeleteLink(h) \/ CreateMember(h)
         \/ SpendLink(h) \/ CountUsers(h) \/ deleteFile(h) \/ saveByHash(h)
  PROVE  SessionInv'
<1> USE DEF Step, Reads, people
<1>1. Working(h) /\ UNCHANGED <<users, sessions>>
  BY DEF Working, requestEmailVerification, AskPseudo, AskTaken, CreateStudent, verify,
         UpdateStudent, DeleteLink, CreateMember, SpendLink, CountUsers, deleteFile, saveByHash,
         Fails
<1>2. CASE req' = [req EXCEPT ![h] = Idle]
  BY <1>1, <1>2, EndSessions, SameUsersSame
<1>3. CASE req' # [req EXCEPT ![h] = Idle]
  <2>1. PICK step : /\ Goes(h, To(h, step))
                    /\ \/ step \in {"again", "taken", "erase", "save", "note"}
                       \/ step \in {"tell", "unlink", "own"} /\ req[h].step \in ToSession
    <3>1. CASE requestEmailVerification(h) \/ CreateMember(h) \/ SpendLink(h)
      BY <1>3, <3>1 DEF requestEmailVerification, CreateMember, SpendLink, Ends, Goes, Fails
    <3>2. CASE AskPseudo(h) \/ AskTaken(h)
      BY <1>3, <3>2 DEF AskPseudo, AskTaken, Ends, Goes
    <3>3. CASE CreateStudent(h) \/ verify(h) \/ UpdateStudent(h) \/ DeleteLink(h)
      BY <1>3, <3>3 DEF CreateStudent, verify, UpdateStudent, DeleteLink, Fails, ToSession
    <3>4. CASE CountUsers(h) \/ deleteFile(h) \/ saveByHash(h)
      BY <1>3, <3>4 DEF CountUsers, deleteFile, saveByHash, Fails
    <3> QED BY <3>1, <3>2, <3>3, <3>4
  <2> QED BY <1>1, <2>1, GoOnSessions DEF ToSession
<1> QED BY <1>2, <1>3

\* An address whose user has no password yet has no sessions.
LEMMA AskPseudoAgainSessions ==
  ASSUME Inv, Inv', SessionInv, NEW h \in Handlers, AskPseudoAgain(h)
  PROVE  SessionInv'
<1>1. Working(h) /\ UNCHANGED <<users, sessions>> /\ req[h].step = "again"
  BY DEF AskPseudoAgain, Working, Step, Reads, people
<1>2. CASE ~isPseudoRegistered(req[h].link.email)
  <2>1. Goes(h, To(h, "create"))
    BY <1>2 DEF AskPseudoAgain
  <2> QED BY <1>1, <2>1, GoOnSessions DEF ToSession
<1>3. CASE isPseudoRegistered(req[h].link.email)
  <2>1. PICK r : r = To(h, "update")
    OBVIOUS
  <2>2. Shaped(req[h]) /\ req[h].overlap \in BOOLEAN
    BY DEF Inv, Requested, Asked, SessionInv, Holds
  <2>3. r.step = "update" /\ r.link = req[h].link /\ r.overlap = req[h].overlap
    BY <2>1, <2>2 DEF To, Shaped
  <2>4. PICK u \in users : u.email = req[h].link.email /\ u.password = NONE
    BY <1>3 DEF isPseudoRegistered
  <2>5. ASSUME NEW s \in sessions, NEW v \in users, v.email = r.link.email, v.id = s.user
        PROVE  FALSE
    <3>1. v = u
      BY <2>3, <2>4, <2>5 DEF Inv, Tables
    <3>2. Told(s)
      BY DEF SessionInv
    <3> QED BY <2>4, <2>5, <3>1, <3>2 DEF Told, Knows
  <2>6. Holds(r)'
    BY <1>1, <2>2, <2>3, <2>5 DEF Holds, Before, ToSession
  <2>7. req' = [req EXCEPT ![h] = r]
    BY <1>3, <2>1 DEF AskPseudoAgain, Goes
  <2> QED BY <1>1, <2>3, <2>6, <2>7, QuietSessions, SameUsersSame
<1> QED BY <1>2, <1>3

\* A new user has no sessions, and is known with the one password he was given.
LEMMA CreateUserSessions ==
  ASSUME Inv, Inv', SessionInv, NEW h \in Handlers, CreateUser(h)
  PROVE  SessionInv'
<1> DEFINE link == req[h].link
           new == [id |-> made + 1, email |-> link.email, username |-> link.username,
                   password |-> link.password, changed |-> now, state |-> "APPROVED",
                   avatar |-> NoPicture, sets |-> 1]
<1>0. Working(h) /\ req[h].step = "create"
  BY DEF CreateUser, Working, Step
<1>1. CASE \E u \in users : u.email = link.email
  BY <1>0, <1>1, EndSessions, SameUsersSame DEF CreateUser, Ends, Goes, Reads, people
<1>2. CASE ~\E u \in users : u.email = link.email
  <2>1. PICK r : r = [To(h, "student") EXCEPT !.user = new.id, !.seen = 1]
    OBVIOUS
  <2>2. /\ users' = users \cup {new} /\ sessions' = sessions
        /\ req' = [req EXCEPT ![h] = r]
    BY <1>2, <2>1 DEF CreateUser, Goes
  <2>3. Shaped(req[h]) /\ req[h].overlap \in BOOLEAN /\ link \in Link /\ made \in Nat
    BY <1>0 DEF Inv, Requested, Asked, SessionInv, Holds, Registering, Tables
  <2>4. r.step = "student" /\ r.user = made + 1 /\ r.seen = 1 /\ r.overlap = req[h].overlap
    <3> DEFINE q == To(h, "student")
    <3>1. Shaped(q) /\ q.step = "student" /\ q.overlap = req[h].overlap
      BY <2>3 DEF To, Shaped
    <3> HIDE DEF q
    <3>2. r = [q EXCEPT !.user = made + 1, !.seen = 1]
      BY <2>1 DEF q
    <3> QED BY <3>1, <3>2 DEF Shaped
  <2>5. new.id = made + 1 /\ new.sets = 1 /\ new.password # NONE
    BY <2>3, AccountsAssumption DEF Link
  <2> HIDE DEF new
  <2>6. Same
    BY <2>2, <2>3, <2>5 DEF Same
  <2>7. \A v \in users' : v.id = made + 1 => v = new
    BY <2>2, <2>3, RowTypes DEF Inv
  <2>8. \A v \in users' : v.id = r.user => v.password # NONE /\ v.sets = r.seen
    BY <2>4, <2>5, <2>7
  <2>9. Holds(r)'
    <3>1. Knows(r.user, r.seen, ~r.overlap)'
      BY <2>4, <2>8 DEF Knows
    <3> QED BY <2>3, <2>4, <3>1 DEF Holds
  <2> QED BY <1>0, <2>2, <2>4, <2>6, <2>9, QuietSessions
<1> QED BY <1>1, <1>2

LEMMA CreatePseudoSessions ==
  ASSUME Inv, Inv', SessionInv, NEW h \in Handlers, CreatePseudo(h)
  PROVE  SessionInv'
<1> DEFINE new == [id |-> made + 1, email |-> req[h].email, username |-> NONE, password |-> NONE,
                   changed |-> now, state |-> "PENDING", avatar |-> NoPicture, sets |-> 0]
<1>0. Working(h) /\ req[h].step = "pseudo"
  BY DEF CreatePseudo, Working, Step
<1>1. CASE \E u \in users : u.email = new.email
  BY <1>0, <1>1, EndSessions, SameUsersSame DEF CreatePseudo, Ends, Goes, Reads, people
<1>2. CASE ~\E u \in users : u.email = new.email
  <2>1. PICK r : r = [To(h, "member") EXCEPT !.user = new.id]
    OBVIOUS
  <2>2. /\ users' = users \cup {new} /\ sessions' = sessions
        /\ req' = [req EXCEPT ![h] = r]
    BY <1>2, <2>1 DEF CreatePseudo, Goes
  <2>3. Shaped(req[h]) /\ req[h].overlap \in BOOLEAN /\ made \in Nat
    BY <1>0 DEF Inv, Requested, Asked, SessionInv, Holds, Tables
  <2>4. r.step = "member" /\ r.overlap = req[h].overlap
    <3> DEFINE q == To(h, "member")
    <3>1. Shaped(q) /\ q.step = "member" /\ q.overlap = req[h].overlap
      BY <2>3 DEF To, Shaped
    <3> HIDE DEF q
    <3>2. r = [q EXCEPT !.user = made + 1]
      BY <2>1 DEF q
    <3> QED BY <3>1, <3>2 DEF Shaped
  <2>5. new.id = made + 1
    OBVIOUS
  <2> HIDE DEF new
  <2>6. Same
    BY <2>2, <2>3, <2>5 DEF Same
  <2>7. Holds(r)'
    BY <2>3, <2>4 DEF Holds, ToSession
  <2> QED BY <1>0, <2>2, <2>4, <2>6, <2>7, QuietSessions
<1> QED BY <1>1, <1>2

\* A user is deleted, or his picture changes.
LEMMA RowsGoSessions ==
  ASSUME Inv, Inv', SessionInv, NEW h \in Handlers, DeleteRow(h) \/ NoteAvatar(h)
  PROVE  SessionInv'
<1>1. /\ Working(h) /\ sessions' = sessions
      /\ req' = [req EXCEPT ![h] = Idle]
  BY DEF DeleteRow, NoteAvatar, Working, Step, Ends, Goes, Fails
<1>2. Same
  <2>1. CASE users' \subseteq users
    BY <2>1 DEF Same
  <2>2. CASE NoteAvatar(h) /\ Exists(req[h].user)
    <3> DEFINE u == Row(req[h].user)
               v == [u EXCEPT !.avatar = req[h].new]
    <3>1. u \in users /\ u \in Rows(made, now) /\ Put(v)
      BY <2>2 DEF NoteAvatar, Exists, Row, Inv, Tables
    <3> HIDE DEF u
    <3>2. /\ v.id = u.id /\ v.email = u.email /\ v.password = u.password
          /\ v.sets = u.sets /\ v.changed = u.changed
      BY <3>1 DEF Rows
    <3> HIDE DEF v
    <3> QED BY <3>1, <3>2 DEF Put, Same
  <2> QED BY <2>1, <2>2 DEF DeleteRow, NoteAvatar, Fails, people
<1> QED BY <1>1, <1>2, EndSessions

\* A token is made, by a request that ends: of what it knows of a password, for sure
\* unless it says that it raced.
LEMMA NewSession ==
  ASSUME Inv, Inv', SessionInv, NEW h \in Handlers, Working(h), NEW user, NEW sets, NEW raced,
         raced \in BOOLEAN, UNCHANGED <<now, users>>,
         getTokens(h, user, sets, raced), req' = [req EXCEPT ![h] = Idle],
         Knows(user, sets, ~req[h].overlap /\ ~raced)
  PROVE  SessionInv'
<1>1. req[h].overlap \in BOOLEAN
  BY DEF SessionInv, Holds
<1>2. PICK new : /\ new = Session(h, user, sets, raced \/ req[h].overlap)
                 /\ sessions' = sessions \cup {new}
  BY DEF getTokens
<1>3. /\ new.user = user /\ new.sets = sets /\ new.createdAt = now
      /\ new.raced = (raced \/ req[h].overlap) /\ new.raced \in BOOLEAN
  BY <1>2 DEF Session
<1>4. Same /\ Grown
  BY SameUsersSame, SameGrown DEF Inv
<1>5. Told(new)'
  <2>1. \A u \in users : u.changed <= now
    BY RowTypes DEF Inv, Tables
  <2>2. Knows(new.user, new.sets, FALSE)'
    BY <1>3 DEF Knows
  <2>3. \A u \in users' : u.id = new.user =>
          /\ new.sets = u.sets => u.changed <= new.createdAt
          /\ ~new.raced /\ new.sets # u.sets => new.createdAt < u.changed
    BY <1>3, <2>1 DEF Knows
  <2> QED BY <1>3, <2>2, <2>3 DEF Told
<1>6. \A s \in sessions' : Told(s)'
  BY <1>2, <1>4, <1>5, ToldStays DEF SessionInv, Inv
<1>7. Holds(Idle)' /\ Idle.step = "idle"
  BY DEF Holds, Idle, ToSession
<1> HIDE DEF Idle
<1> QED BY <1>2, <1>3, <1>4, <1>6, <1>7, StepSessions

LEMMA OpenSessions ==
  ASSUME Inv, Inv', SessionInv, NEW h \in Handlers,
         CreateRole(h) \/ OpenSession(h) \/ RenewSession(h)
  PROVE  SessionInv'
<1>1. Working(h) /\ Holds(req[h])
  BY DEF CreateRole, OpenSession, RenewSession, Working, Step, SessionInv
<1>2. CASE Fails(h, req[h].user)
  BY <1>1, <1>2, FailsSessions
<1>3. CASE /\ req[h].step \in ToSession /\ getTokens(h, req[h].user, req[h].seen, FALSE)
           /\ req' = [req EXCEPT ![h] = Idle] /\ UNCHANGED <<now, users>>
  <2>1. Knows(req[h].user, req[h].seen, ~req[h].overlap /\ ~FALSE)
    BY <1>1, <1>3 DEF Holds, Knows
  <2> QED BY <1>1, <1>3, <2>1, NewSession
<1>4. CASE RenewSession(h)
  <2>1. /\ req[h].old.raced \in BOOLEAN
        /\ Knows(req[h].old.user, req[h].old.sets, ~req[h].overlap /\ ~req[h].old.raced)
    BY <1>1, <1>4 DEF RenewSession, Step, Holds
  <2> QED BY <1>1, <1>4, <2>1, NewSession DEF RenewSession, Ends, Goes, people
<1> QED BY <1>2, <1>3, <1>4
        DEF CreateRole, OpenSession, Ends, Goes, Step, ToSession, people

\* The time of a change is taken later than the request began.
LEMMA HashPasswordSessions ==
  ASSUME Inv, Inv', SessionInv, NEW h \in Handlers, HashPassword(h)
  PROVE  SessionInv'
<1>0. /\ Working(h) /\ UNCHANGED <<now, users, sessions>> /\ req[h].step = "hash"
      /\ req[h].since < now
  BY DEF HashPassword, Working, Step, Reads, people
<1>1. PICK r : r = [To(h, "write") EXCEPT !.since = now]
  OBVIOUS
<1>2. req' = [req EXCEPT ![h] = r]
  BY <1>1 DEF HashPassword, Goes
<1>3. Shaped(req[h]) /\ Holds(req[h]) /\ req[h].since \in Nat /\ now \in Nat
  BY DEF Inv, Requested, Asked, Tables, SessionInv
<1>4. /\ r.step = "write" /\ r.user = req[h].user /\ r.link = req[h].link
      /\ r.email = req[h].email /\ r.since = now /\ r.overlap = req[h].overlap
  <2> DEFINE q == To(h, "write")
  <2>1. /\ Shaped(q) /\ q.step = "write" /\ q.user = req[h].user /\ q.link = req[h].link
        /\ q.email = req[h].email /\ q.overlap = req[h].overlap
    BY <1>3 DEF To, Shaped
  <2>2. r = [q EXCEPT !.since = now]
    BY <1>1
  <2> HIDE DEF q
  <2> QED BY <2>1, <2>2 DEF Shaped
<1>5. Before(r.email, r.since)
  <2>1. Before(r.email, req[h].since + 1)
    BY <1>0, <1>3, <1>4 DEF Holds
  <2>2. \A s \in sessions : s.createdAt \in Nat
    BY DEF Inv, Tables
  <2> QED BY <1>0, <1>3, <1>4, <2>1, <2>2 DEF Before
<1>6. Holds(r)'
  BY <1>0, <1>3, <1>4, <1>5 DEF Holds, Before, ToSession
<1> QED BY <1>0, <1>2, <1>4, <1>6, QuietSessions, SameUsersSame

\* A session of an earlier time, while rows are set: it is of fewer sets than they count
\* now, and if it did not race it is older than the change.
LEMMA SetTold ==
  ASSUME Tables, Tables', Grown, NEW s \in sessions, Told(s),
         \A v \in users' : v.id = s.user => \E u \in users :
           /\ u.id = v.id
           /\ \/ u.sets = v.sets /\ u.changed = v.changed
              \/ v.sets = u.sets + 1 /\ (~s.raced => s.createdAt < v.changed)
  PROVE  Told(s)'
<1>1. s.user \in 0..made /\ Knows(s.user, s.sets, FALSE) /\ s.sets \in Nat
  BY DEF Tables, Told, Knows
<1>2. Knows(s.user, s.sets, FALSE)'
  BY <1>1, KnowsStays
<1>3. ASSUME NEW v \in users', v.id = s.user
      PROVE  /\ s.sets = v.sets => v.changed <= s.createdAt
             /\ ~s.raced /\ s.sets # v.sets => s.createdAt < v.changed
  <2>1. PICK u \in users :
          /\ u.id = v.id
          /\ \/ u.sets = v.sets /\ u.changed = v.changed
             \/ v.sets = u.sets + 1 /\ (~s.raced => s.createdAt < v.changed)
    BY <1>3
  <2>2. u.sets \in Nat /\ s.sets <= u.sets
    BY <1>1, <1>3, <2>1, RowTypes DEF Knows
  <2>3. CASE u.sets = v.sets /\ u.changed = v.changed
    BY <1>3, <2>1, <2>3 DEF Told
  <2>4. CASE v.sets = u.sets + 1 /\ (~s.raced => s.createdAt < v.changed)
    BY <1>1, <2>2, <2>4
  <2> QED BY <2>1, <2>3, <2>4
<1> QED BY <1>2, <1>3 DEF Told

\* An account that gets its first password by a link has no sessions but raced ones.
LEMMA UpdateUserSessions ==
  ASSUME Inv, Inv', SessionInv, NEW h \in Handlers, UpdateUser(h)
  PROVE  SessionInv'
<1> DEFINE link == req[h].link
<1>0. Working(h) /\ req[h].step = "update"
  BY DEF UpdateUser, Working, Step
<1>1. CASE \A u \in users : u.email # link.email
  BY <1>0, <1>1, EndSessions, SameUsersSame DEF UpdateUser, Ends, Goes, Reads, people
<1>2. CASE \E u \in users : u.email = link.email
  <2> PICK u \in users :
        /\ u.email = link.email /\ Put(WithLink(u, link))
        /\ Goes(h, [To(h, "profile") EXCEPT !.user = u.id, !.seen = u.sets + 1])
        /\ UNCHANGED <<now, students, owners, mail, files, sessions, made, broken>>
    BY <1>2 DEF UpdateUser
  <2>1. PICK r : r = [To(h, "profile") EXCEPT !.user = u.id, !.seen = u.sets + 1]
    OBVIOUS
  <2>2. PICK v : v = WithLink(u, link)
    OBVIOUS
  <2>3. /\ users' = {w \in users : w.id # v.id} \cup {v} /\ sessions' = sessions
        /\ req' = [req EXCEPT ![h] = r]
    BY <2>1, <2>2 DEF Put, Goes
  <2>4. Shaped(req[h]) /\ Holds(req[h]) /\ link \in Link /\ u \in Rows(made, now) /\ made \in Nat
    BY <1>0 DEF Inv, Requested, Asked, SessionInv, Registering, Tables
  <2>5. /\ r.step = "profile" /\ r.user = u.id /\ r.seen = u.sets + 1
        /\ r.overlap = req[h].overlap
    <3> DEFINE q == To(h, "profile")
    <3>1. Shaped(q) /\ q.step = "profile" /\ q.overlap = req[h].overlap
      BY <2>4 DEF To, Shaped
    <3>2. r = [q EXCEPT !.user = u.id, !.seen = u.sets + 1]
      BY <2>1
    <3> HIDE DEF q
    <3> QED BY <3>1, <3>2 DEF Shaped
  <2>6. /\ v.id = u.id /\ v.email = u.email /\ v.password # NONE
        /\ v.sets = u.sets + 1 /\ u.sets \in Nat
    <3>1. link.password # NONE
      BY <2>4, AccountsAssumption DEF Link
    <3>2. /\ v.id = u.id /\ v.email = u.email /\ v.password = link.password
          /\ v.sets = u.sets + 1 /\ u.sets \in Nat
      BY <2>2, <2>4 DEF WithLink, Rows
    <3> QED BY <3>1, <3>2
  <2>7. Grown
    <3> SUFFICES ASSUME NEW x \in users'
                 PROVE  \E w \in users : /\ w.id = x.id /\ w.email = x.email
                                         /\ w.password # NONE => x.password # NONE
                                         /\ w.sets <= x.sets
      BY DEF Grown
    <3>1. CASE x = v
      BY <2>6, <3>1
    <3>2. CASE x # v
      BY <2>3, <3>2, RowTypes DEF Inv
    <3> QED BY <3>1, <3>2
  <2>8. ASSUME NEW s \in sessions PROVE Told(s)'
    <3>1. Told(s) /\ s.createdAt \in Nat
      BY DEF SessionInv, Inv, Tables
    <3>2. s.user = u.id => s.raced
      BY <1>0, <2>4, <3>1 DEF Holds, Before
    <3>3. ASSUME NEW x \in users', x.id = s.user
          PROVE  \E w \in users :
                   /\ w.id = x.id
                   /\ \/ w.sets = x.sets /\ w.changed = x.changed
                      \/ x.sets = w.sets + 1 /\ (~s.raced => s.createdAt < x.changed)
      <4>1. CASE x = v
        BY <2>6, <3>2, <3>3, <4>1
      <4>2. CASE x # v
        BY <2>3, <4>2
      <4> QED BY <4>1, <4>2
    <3> QED BY <2>7, <3>1, <3>3, SetTold DEF Inv
  <2>9. \A x \in users' : x.id = r.user => x.password # NONE /\ x.sets = r.seen
    BY <2>3, <2>5, <2>6
  <2>10. Holds(r)'
    <3>1. Knows(r.user, r.seen, ~r.overlap)'
      BY <2>5, <2>6, <2>9 DEF Knows
    <3> QED BY <2>4, <2>5, <3>1 DEF Holds
  <2> QED BY <1>0, <2>3, <2>5, <2>7, <2>8, <2>10, StepSessions
<1> QED BY <1>1, <1>2

\* A password is set: the sessions there are from before the change, and the one that
\* is made with it is of the new password.
LEMMA SetPasswordSessions ==
  ASSUME Inv, Inv', SessionInv, NEW h \in Handlers, setPassword(h)
  PROVE  SessionInv'
<1> DEFINE found == {u \in users : u.email = req[h].email}
           set(u) == IF u \in found THEN WithPassword(u, req[h].new, req[h].since) ELSE u
<1>1. /\ Working(h) /\ req[h].step = "write" /\ Asked(req[h], made, now) /\ Shaped(req[h])
      /\ Holds(req[h]) /\ made \in Nat /\ now \in Nat
  BY DEF setPassword, Working, Step, Inv, Requested, Tables, Asked, SessionInv
<1>2. /\ req[h].new \in Passwords /\ req[h].new # NONE /\ req[h].since \in 0..now
      /\ Before(req[h].email, req[h].since)
  BY <1>1, AccountsAssumption DEF Asked, Holds
<1>3. users' = {set(u) : u \in users} /\ now' = now /\ made' = made
  BY DEF setPassword
<1>4. ASSUME NEW u \in users
      PROVE  /\ set(u).id = u.id /\ set(u).email = u.email
             /\ \/ set(u) = u /\ u.email # req[h].email
                \/ /\ u.email = req[h].email /\ set(u).password # NONE
                   /\ set(u).sets = u.sets + 1 /\ set(u).changed = req[h].since
  <2>1. u \in Rows(made, now)
    BY DEF Inv, Tables
  <2>2. u \in found => /\ set(u).id = u.id /\ set(u).email = u.email
                       /\ set(u).password = req[h].new /\ set(u).sets = u.sets + 1
                       /\ set(u).changed = req[h].since
    BY <2>1 DEF WithPassword, Rows
  <2> QED BY <1>2, <2>2
<1> HIDE DEF set
<1>5. Grown
  <2> SUFFICES ASSUME NEW v \in users'
               PROVE  \E u \in users : /\ u.id = v.id /\ u.email = v.email
                                       /\ u.password # NONE => v.password # NONE
                                       /\ u.sets <= v.sets
    BY DEF Grown
  <2>1. PICK u \in users : v = set(u)
    BY <1>3
  <2>2. u.sets \in Nat
    BY RowTypes DEF Inv
  <2> QED BY <1>4, <2>1, <2>2
<1>6. ASSUME NEW s \in sessions PROVE Told(s)'
  <2>1. Told(s)
    BY DEF SessionInv
  <2>2. ASSUME NEW v \in users', v.id = s.user
        PROVE  \E u \in users :
                 /\ u.id = v.id
                 /\ \/ u.sets = v.sets /\ u.changed = v.changed
                    \/ v.sets = u.sets + 1 /\ (~s.raced => s.createdAt < v.changed)
    <3>1. PICK u \in users : v = set(u)
      BY <1>3
    <3> QED BY <1>2, <1>4, <2>2, <3>1 DEF Before
  <2> QED BY <1>5, <2>1, <2>2, SetTold DEF Inv
<1>7. CASE req[h].link # NONE
  <2>1. PICK r : r = To(h, "spend")
    OBVIOUS
  <2>2. r.step = "spend" /\ r.overlap = req[h].overlap /\ req[h].overlap \in BOOLEAN
    BY <1>1, <2>1 DEF To, Shaped, Holds
  <2>3. req' = [req EXCEPT ![h] = r] /\ sessions' = sessions
    BY <1>7, <2>1 DEF setPassword, Goes
  <2>4. Holds(r)'
    BY <2>2 DEF Holds, ToSession
  <2> QED BY <1>1, <1>5, <1>6, <2>2, <2>3, <2>4, StepSessions
<1>8. CASE req[h].link = NONE
  <2>1. \A u \in users : u.id = req[h].user => u.email = req[h].email
    BY <1>1, <1>8 DEF Holds
  <2>2. req' = [req EXCEPT ![h] = Idle]
    BY <1>8 DEF setPassword, Ends, Goes
  <2>3. PICK sets : /\ getTokens(h, req[h].user, sets, FALSE) /\ sets \in Nat
                    /\ \A v \in users' : v.id = req[h].user =>
                         v.password # NONE /\ v.sets = sets /\ v.changed <= now
    <3>1. CASE found = {} /\ getTokens(h, req[h].user, 0, FALSE)
      <4>1. \A v \in users' : v.id # req[h].user
        BY <1>3, <1>4, <2>1, <3>1
      <4> QED BY <3>1, <4>1
    <3>2. ASSUME NEW u \in found, getTokens(h, req[h].user, u.sets + 1, FALSE)
          PROVE  \E sets : /\ getTokens(h, req[h].user, sets, FALSE) /\ sets \in Nat
                           /\ \A v \in users' : v.id = req[h].user =>
                                v.password # NONE /\ v.sets = sets /\ v.changed <= now
      <4>1. u.sets + 1 \in Nat
        BY RowTypes DEF Inv
      <4>2. ASSUME NEW v \in users', v.id = req[h].user
            PROVE  v.password # NONE /\ v.sets = u.sets + 1 /\ v.changed <= now
        <5>1. PICK w \in users : v = set(w)
          BY <1>3
        <5>2. w = u
          BY <1>4, <2>1, <4>2, <5>1 DEF Inv, Tables
        <5> QED BY <1>2, <1>4, <5>1, <5>2
      <4> QED BY <3>2, <4>1, <4>2
    <3> QED BY <1>8, <3>1, <3>2 DEF setPassword
  <2>4. PICK new : new = Session(h, req[h].user, sets, FALSE \/ req[h].overlap)
    OBVIOUS
  <2>5. /\ new.user = req[h].user /\ new.sets = sets /\ new.createdAt = now
        /\ new.raced = (FALSE \/ req[h].overlap) /\ new.raced \in BOOLEAN
        /\ sessions' = sessions \cup {new}
    BY <1>1, <2>3, <2>4 DEF Session, getTokens, Holds
  <2>6. Told(new)'
    <3>1. Knows(new.user, new.sets, FALSE)'
      BY <1>1, <2>3, <2>5 DEF Knows
    <3>2. \A v \in users' : v.id = new.user =>
            /\ new.sets = v.sets => v.changed <= new.createdAt
            /\ ~new.raced /\ new.sets # v.sets => new.createdAt < v.changed
      BY <2>3, <2>5
    <3> QED BY <2>5, <3>1, <3>2 DEF Told
  <2>7. Holds(Idle)' /\ Idle.step = "idle"
    BY DEF Holds, Idle, ToSession
  <2> HIDE DEF Idle
  <2> QED BY <1>1, <1>5, <1>6, <2>2, <2>5, <2>6, <2>7, StepSessions
<1> QED BY <1>7, <1>8

\* Time passes, links come and go, or the server stops.
LEMMA NobodysSessions ==
  ASSUME Inv, Inv', SessionInv,
         \/ \E email \in Emails : forgotPassword(email)
         \/ Expire \/ Tick \/ Restart \/ UNCHANGED vars
  PROVE  SessionInv'
<1>1. Same /\ sessions' = sessions
  BY SameUsersSame DEF Same, forgotPassword, Expire, Tick, Restart, vars, people
<1>2. \A s \in sessions' : Told(s)'
  BY <1>1, ToldStays DEF SessionInv, Inv
<1>3. CASE req' = req
  <2>1. ASSUME NEW h \in Handlers PROVE Holds(req[h])'
    <3>1. PICK x : x = req[h]
      OBVIOUS
    <3>2. Holds(x) /\ Asked(x, made, now) /\ Grown
      BY <1>1, <3>1, SameGrown DEF SessionInv, Inv, Requested
    <3>3. Holds(x)'
      BY <1>1, <3>2, HoldsStays DEF Inv
    <3> QED BY <1>3, <3>1, <3>3 DEF Holds
  <2> QED BY <1>2, <1>3, <2>1 DEF SessionInv, Apart, Working
<1>4. CASE req' = [h \in Handlers |-> Idle]
  <2>1. Idle.step = "idle" /\ Idle.overlap = FALSE
    BY DEF Idle
  <2> HIDE DEF Idle
  <2>2. Apart'
    BY <1>4, <2>1 DEF Apart, Working
  <2>3. ASSUME NEW h \in Handlers PROVE Holds(req[h])'
    BY <1>4, <2>1 DEF Holds, ToSession
  <2> QED BY <1>2, <2>2, <2>3 DEF SessionInv
<1> QED BY <1>3, <1>4 DEF forgotPassword, Expire, Tick, Restart, vars

LEMMA ServeSessions ==
  ASSUME Inv, Inv', SessionInv, NEW h \in Handlers, Serve(h)
  PROVE  SessionInv'
<1>1. CASE \/ \E link \in Registrations : register(h, link)
           \/ \E link \in links : verifyEmail(h, link)
           \/ \E email \in Emails : addUnregistered(h, email)
           \/ \E u \in users : deleteUser(h, u.id)
           \/ \E u \in users, new \in Pictures \cup {NoPicture} : updateAvatar(h, u, new)
  BY <1>1, RegistrationSessions
<1>2. CASE \/ requestEmailVerification(h) \/ AskPseudo(h) \/ AskTaken(h)
           \/ CreateStudent(h) \/ verify(h) \/ UpdateStudent(h) \/ DeleteLink(h) \/ CreateMember(h)
           \/ SpendLink(h) \/ CountUsers(h) \/ deleteFile(h) \/ saveByHash(h)
  BY <1>2, OnTheWaySessions
<1>3. CASE AskPseudoAgain(h) \/ CreateUser(h) \/ UpdateUser(h)
  BY <1>3, AskPseudoAgainSessions, CreateUserSessions, UpdateUserSessions
<1>4. CASE CreatePseudo(h) \/ DeleteRow(h) \/ NoteAvatar(h)
  BY <1>4, CreatePseudoSessions, RowsGoSessions
<1>5. CASE CreateRole(h) \/ OpenSession(h) \/ RenewSession(h)
  BY <1>5, OpenSessions
<1>6. CASE \E name \in Emails \cup Usernames, password \in Passwords : login(h, name, password)
  BY <1>6, LoginSessions
<1>7. CASE \E session \in sessions :
             \/ refresh(h, session)
             \/ \E old, new \in Passwords : updatePassword(h, session, old, new)
  BY <1>7, RefreshSessions, UpdatePasswordSessions
<1>8. CASE \E link \in resets, new \in Passwords : resetPassword(h, link, new)
  BY <1>8, ResetPasswordSessions
<1>9. CASE HashPassword(h) \/ setPassword(h)
  BY <1>9, HashPasswordSessions, SetPasswordSessions
<1> QED
  BY <1>1, <1>2, <1>3, <1>4, <1>5, <1>6, <1>7, <1>8, <1>9 DEF Serve

\* A session that was opened with an earlier password is refused unless it was made by a
\* request that overlapped with another, and one of the present password is accepted: for
\* any number of users, requests in progress and changes of passwords, wherever requests
\* fail and the server stops (JwtStrategy.ts:22-44, AuthService.ts:73-91, 173-226, 266-274,
\* 377-391).
THEOREM SessionsAreOfPasswords == Spec => []SessionsAgree
<1>1. Init => SessionInv
  <2>1. Holds(Idle) /\ Idle.step = "idle"
    BY DEF Holds, Idle, ToSession
  <2> HIDE DEF Idle
  <2> QED BY <2>1 DEF Init, SessionInv, Apart, Working
<1>2. Inv /\ Inv' /\ SessionInv /\ [Next]_vars => SessionInv'
  BY ServeSessions, NobodysSessions DEF Next
<1>3. Inv /\ SessionInv => SessionsAgree
  BY SessionsEnough DEF Inv
<1> QED BY <1>1, <1>2, <1>3, InvInit, Inductive, PTL DEF Spec

-----------------------------------------------------------------------------
(* The pictures of users *)

Drawing == {"count", "erase", "save", "note"}

\* A request about a picture knows, while it is alone, what it read: whose picture it
\* looks at, then that it is nobody else's, and at last that the new one is there.
Drawn(r) ==
  /\ r.step = "count" => \E u \in users : u.id = r.user /\ u.avatar = r.old
  /\ r.step = "erase" => \A u \in users : u.avatar = r.old => u.id = r.user
  /\ r.step = "note" => r.new \in files \cup {NoPicture}

\* A picture is missing only while it is replaced.
Missing(u) == u.avatar \notin files \cup {NoPicture}
Pictured ==
  /\ \A g, h \in Handlers : Working(g) /\ Working(h) => g = h
  /\ \A u \in users : Missing(u) => \E h \in Handlers :
       req[h].user = u.id /\ req[h].step \in {"save", "note"}
  /\ \A h \in Handlers : Drawn(req[h])

PictureInv == ~crossed => Pictured

LEMMA PicturesEnough == PictureInv => PicturesKept
  BY DEF PictureInv, Pictured, PicturesKept, Missing, Served

\* A request in progress goes on as r, and only its own user's picture may be missing.
LEMMA PictureStep ==
  ASSUME Inv, PictureInv, NEW h \in Handlers, Working(h),
         NEW r, req' = [req EXCEPT ![h] = r], ~crossed' => ~crossed,
         ~crossed => Drawn(r)',
         ~crossed => \A v \in users' : Missing(v)' => v.id = r.user /\ r.step \in {"save", "note"}
  PROVE  PictureInv'
<1> SUFFICES ASSUME ~crossed' PROVE Pictured'
  BY DEF PictureInv
<1>1. Pictured /\ ~crossed
  BY DEF PictureInv
<1>2. req'[h] = r /\ \A g \in Handlers \ {h} : req'[g] = req[g] /\ req[g].step = "idle"
  BY <1>1 DEF Inv, Requested, Pictured, Working
<1>3. ASSUME NEW g \in Handlers PROVE Drawn(req[g])'
  <2>1. CASE g = h
    BY <1>1, <1>2, <2>1 DEF Drawn
  <2>2. CASE g # h
    BY <1>2, <2>2 DEF Drawn
  <2> QED BY <2>1, <2>2
<1>4. \A f, g \in Handlers : Working(f)' /\ Working(g)' => f = g
  BY <1>2 DEF Working
<1>5. \A v \in users' : Missing(v)' => \E g \in Handlers :
        req'[g].user = v.id /\ req'[g].step \in {"save", "note"}
  BY <1>1, <1>2
<1> QED BY <1>3, <1>4, <1>5 DEF Pictured

\* Users keep their pictures, or are new and have none.
Avatars ==
  \A v \in users' : v.avatar = NoPicture \/ \E u \in users : u.id = v.id /\ u.avatar = v.avatar

\* A request that has nothing to do with pictures.
LEMMA OtherStep ==
  ASSUME Inv, PictureInv, NEW h \in Handlers, Working(h), req[h].step \notin Drawing,
         NEW r, req' = [req EXCEPT ![h] = r], r.step \notin Drawing, ~crossed' => ~crossed,
         files' = files, Avatars
  PROVE  PictureInv'
<1>1. Drawn(r)'
  BY DEF Drawn, Drawing
<1>2. ASSUME ~crossed PROVE \A v \in users' : ~Missing(v)'
  <2>1. \A u \in users : ~Missing(u)
    BY <1>2 DEF PictureInv, Pictured, Drawing, Working
  <2> QED BY <2>1 DEF Missing, Avatars
<1> QED BY <1>1, <1>2, PictureStep

LEMMA BeginPicture ==
  ASSUME Inv, PictureInv, NEW h \in Handlers, NEW r, Shaped(r), Begins(h, r),
         UNCHANGED <<users, files>>, r.step \notin {"erase", "note"},
         r.step = "count" => \E u \in users : u.id = r.user /\ u.avatar = r.old
  PROVE  PictureInv'
<1> SUFFICES ASSUME ~crossed' PROVE Pictured'
  BY DEF PictureInv
<1> DEFINE f == [r EXCEPT !.overlap = Others(h), !.since = now]
           w(g) == [req[g] EXCEPT !.overlap = @ \/ Working(g)]
<1>1. /\ Pictured /\ \A g \in Handlers : ~Working(g)
  BY DEF PictureInv, Begins, Others
<1>2. req' = [g \in Handlers |-> IF g = h THEN f ELSE w(g)]
  BY DEF Begins
<1>3. f.step = r.step /\ f.user = r.user /\ f.old = r.old
  BY DEF Shaped
<1>4. \A g \in Handlers : w(g).step = req[g].step
  BY DEF Inv, Requested, Asked, Shaped
<1> HIDE DEF f, w
<1>5. \A u \in users' : ~Missing(u)'
  BY <1>1 DEF Pictured, Missing, Working
<1>6. \A g \in Handlers : req'[g].step = IF g = h THEN r.step ELSE "idle"
  BY <1>1, <1>2, <1>3, <1>4 DEF Working
<1>7. ASSUME NEW g \in Handlers PROVE Drawn(req[g])'
  <2>1. CASE g = h
    BY <1>2, <1>3, <2>1 DEF Drawn
  <2>2. CASE g # h
    BY <1>6, <2>2 DEF Drawn
  <2> QED BY <2>1, <2>2
<1> QED BY <1>5, <1>6, <1>7 DEF Pictured, Working

LEMMA BeginningsPicture ==
  ASSUME Inv, PictureInv, NEW h \in Handlers,
         \/ \E link \in Registrations : register(h, link)
         \/ \E link \in links : verifyEmail(h, link)
         \/ \E email \in Emails : addUnregistered(h, email)
         \/ \E u \in users : deleteUser(h, u.id)
         \/ \E name \in Emails \cup Usernames, password \in Passwords : login(h, name, password)
         \/ \E session \in sessions :
              \/ refresh(h, session)
              \/ \E old, new \in Passwords : updatePassword(h, session, old, new)
         \/ \E link \in resets, new \in Passwords : resetPassword(h, link, new)
         \/ \E u \in users, new \in Pictures \cup {NoPicture} : updateAvatar(h, u, new)
  PROVE  PictureInv'
<1> DEFINE Goal == \E r : /\ Begins(h, r) /\ Shaped(r) /\ UNCHANGED <<users, files>>
                          /\ r.step \notin {"erase", "note"}
                          /\ r.step = "count" => \E u \in users : u.id = r.user /\ u.avatar = r.old
<1> USE DEF Reads, people
<1>1. ASSUME NEW link, register(h, link) PROVE Goal
  <2>1. /\ Shaped([Idle EXCEPT !.step = "link", !.link = link])
        /\ [Idle EXCEPT !.step = "link", !.link = link].step = "link"
    BY DEF Shaped, Idle
  <2> QED BY <1>1, <2>1 DEF register
<1>2. ASSUME NEW link, verifyEmail(h, link) PROVE Goal
  <2>1. /\ Shaped([Idle EXCEPT !.step = "verify", !.link = link])
        /\ [Idle EXCEPT !.step = "verify", !.link = link].step = "verify"
    BY DEF Shaped, Idle
  <2> QED BY <1>2, <2>1 DEF verifyEmail
<1>3. ASSUME NEW email, addUnregistered(h, email) PROVE Goal
  <2>1. /\ Shaped([Idle EXCEPT !.step = "pseudo", !.email = email])
        /\ [Idle EXCEPT !.step = "pseudo", !.email = email].step = "pseudo"
    BY DEF Shaped, Idle
  <2> QED BY <1>3, <2>1 DEF addUnregistered
<1>4. ASSUME NEW u, deleteUser(h, u.id) PROVE Goal
  <2>1. /\ Shaped([Idle EXCEPT !.step = "delete", !.user = u.id])
        /\ [Idle EXCEPT !.step = "delete", !.user = u.id].step = "delete"
    BY DEF Shaped, Idle
  <2> QED BY <1>4, <2>1 DEF deleteUser
<1>5. ASSUME NEW name, NEW password, login(h, name, password) PROVE Goal
  <2>1. PICK u \in users :
          Begins(h, [Idle EXCEPT !.step = "compare", !.user = u.id, !.seen = u.sets]) /\ Reads
    BY <1>5 DEF login
  <2>2. /\ Shaped([Idle EXCEPT !.step = "compare", !.user = u.id, !.seen = u.sets])
        /\ [Idle EXCEPT !.step = "compare", !.user = u.id, !.seen = u.sets].step = "compare"
    BY DEF Shaped, Idle
  <2> QED BY <2>1, <2>2
<1>6. ASSUME NEW session, refresh(h, session) PROVE Goal
  <2>1. /\ Shaped([Idle EXCEPT !.step = "renew", !.old = session])
        /\ [Idle EXCEPT !.step = "renew", !.old = session].step = "renew"
    BY DEF Shaped, Idle
  <2> QED BY <1>6, <2>1 DEF refresh
<1>7. ASSUME NEW session, NEW old, NEW new, updatePassword(h, session, old, new) PROVE Goal
  <2>1. PICK u \in users : Reads /\
          Begins(h, [Idle EXCEPT !.step = "hash", !.user = u.id, !.email = u.email, !.new = new])
    BY <1>7 DEF updatePassword
  <2> DEFINE r == [Idle EXCEPT !.step = "hash", !.user = u.id, !.email = u.email, !.new = new]
  <2>2. Shaped(r) /\ r.step = "hash" /\ Begins(h, r)
    BY <2>1 DEF Shaped, Idle
  <2> HIDE DEF r
  <2> QED BY <2>1, <2>2
<1>8. ASSUME NEW link, NEW new, resetPassword(h, link, new) PROVE Goal
  <2> DEFINE r == [Idle EXCEPT !.step = "hash", !.link = link, !.email = link.email, !.new = new]
  <2>1. Shaped(r) /\ r.step = "hash" /\ Begins(h, r)
    BY <1>8 DEF Shaped, Idle, resetPassword
  <2> HIDE DEF r
  <2> QED BY <1>8, <2>1 DEF resetPassword
<1>9. ASSUME NEW u \in users, NEW new, updateAvatar(h, u, new) PROVE Goal
  <2> DEFINE step == IF u.avatar \in files THEN "count" ELSE "save"
             r == [Idle EXCEPT !.step = step, !.user = u.id, !.old = u.avatar, !.new = new]
  <2>1. Begins(h, r) /\ Reads
    BY <1>9 DEF updateAvatar
  <2>2. Shaped(r) /\ r.step \in {"count", "save"} /\ r.user = u.id /\ r.old = u.avatar
    BY DEF Shaped, Idle
  <2> HIDE DEF r
  <2> QED BY <2>1, <2>2
<1>10. Goal
  BY <1>1, <1>2, <1>3, <1>4, <1>5, <1>6, <1>7, <1>8, <1>9
<1> QED BY <1>10, BeginPicture

LEMMA AwayFromPictures ==
  ASSUME Inv, PictureInv, NEW h \in Handlers,
         \/ requestEmailVerification(h) \/ AskPseudo(h) \/ AskTaken(h) \/ AskPseudoAgain(h)
         \/ CreateUser(h) \/ CreateStudent(h) \/ verify(h) \/ UpdateUser(h) \/ UpdateStudent(h)
         \/ DeleteLink(h) \/ CreateRole(h) \/ CreatePseudo(h) \/ CreateMember(h) \/ DeleteRow(h)
         \/ OpenSession(h) \/ RenewSession(h)
         \/ HashPassword(h) \/ setPassword(h) \/ SpendLink(h)
  PROVE  PictureInv'
<1>1. Shaped(req[h]) /\ \A step : Shaped(To(h, step)) /\ To(h, step).step = step
  BY ToMoves DEF Inv, Requested, Asked
<1>2. Working(h) /\ req[h].step \notin Drawing
  BY DEF Working, Step, Drawing, requestEmailVerification, AskPseudo, AskTaken, AskPseudoAgain,
         CreateUser, CreateStudent, verify, UpdateUser, UpdateStudent, DeleteLink, CreateRole,
         CreatePseudo, CreateMember, DeleteRow, OpenSession, RenewSession, HashPassword,
         setPassword, SpendLink
<1>3. CASE \E user : Fails(h, user)
  BY <1>3 DEF Fails, PictureInv
<1>4. CASE ~\E user : Fails(h, user)
  <2>1. files' = files /\ crossed' = crossed
    BY <1>4 DEF requestEmailVerification, AskPseudo, AskTaken, AskPseudoAgain, Reads, Ends, Goes,
         CreateUser, CreateStudent, verify, UpdateUser, UpdateStudent, DeleteLink, CreateRole,
         CreatePseudo, CreateMember, DeleteRow, OpenSession, RenewSession, HashPassword,
         setPassword, SpendLink
  <2>2. \E r : req' = [req EXCEPT ![h] = r] /\ r.step \notin Drawing
    <3>1. Idle.step = "idle"
      BY DEF Idle
    <3>2. CASE req' = [req EXCEPT ![h] = Idle]
      BY <3>1, <3>2 DEF Drawing
    <3>3. CASE req' # [req EXCEPT ![h] = Idle]
      <4>1. ASSUME NEW step \in {"again", "taken", "create", "update", "tell", "unlink", "own", "spend"},
                   Goes(h, To(h, step))
            PROVE  \E r : req' = [req EXCEPT ![h] = r] /\ r.step \notin Drawing
        BY <1>1, <4>1 DEF Goes, Drawing
      <4>2. ASSUME NEW id, NEW n, Goes(h, [To(h, "student") EXCEPT !.user = id, !.seen = n])
            PROVE  \E r : req' = [req EXCEPT ![h] = r] /\ r.step \notin Drawing
        <5>1. [To(h, "student") EXCEPT !.user = id, !.seen = n].step = "student"
          BY <1>1 DEF Shaped
        <5> QED BY <4>2, <5>1 DEF Goes, Drawing
      <4>3. ASSUME NEW id, NEW n, Goes(h, [To(h, "profile") EXCEPT !.user = id, !.seen = n])
            PROVE  \E r : req' = [req EXCEPT ![h] = r] /\ r.step \notin Drawing
        <5>1. [To(h, "profile") EXCEPT !.user = id, !.seen = n].step = "profile"
          BY <1>1 DEF Shaped
        <5> QED BY <4>3, <5>1 DEF Goes, Drawing
      <4>4. ASSUME NEW id, Goes(h, [To(h, "member") EXCEPT !.user = id])
            PROVE  \E r : req' = [req EXCEPT ![h] = r] /\ r.step \notin Drawing
        <5>1. [To(h, "member") EXCEPT !.user = id].step = "member"
          BY <1>1 DEF Shaped
        <5> QED BY <4>4, <5>1 DEF Goes, Drawing
      <4>5. ASSUME Goes(h, [To(h, "write") EXCEPT !.since = now])
            PROVE  \E r : req' = [req EXCEPT ![h] = r] /\ r.step \notin Drawing
        <5>1. [To(h, "write") EXCEPT !.since = now].step = "write"
          BY <1>1 DEF Shaped
        <5> QED BY <4>5, <5>1 DEF Goes, Drawing
      <4>6. CASE AskPseudo(h) \/ AskTaken(h) \/ AskPseudoAgain(h)
        BY <3>3, <4>1, <4>6 DEF AskPseudo, AskTaken, AskPseudoAgain, Ends, Goes
      <4>7. CASE CreateUser(h)
        BY <3>3, <4>2, <4>7 DEF CreateUser, Ends, Goes
      <4>8. CASE UpdateUser(h)
        BY <3>3, <4>3, <4>8 DEF UpdateUser, Ends, Goes
      <4>9. CASE CreatePseudo(h)
        BY <3>3, <4>4, <4>9 DEF CreatePseudo, Ends, Goes
      <4>10. CASE CreateStudent(h) \/ verify(h) \/ UpdateStudent(h) \/ DeleteLink(h)
        BY <1>4, <4>1, <4>10 DEF CreateStudent, verify, UpdateStudent, DeleteLink
      <4>11. CASE HashPassword(h)
        BY <4>5, <4>11 DEF HashPassword
      <4>12. CASE setPassword(h)
        BY <3>3, <4>1, <4>12 DEF setPassword, Ends, Goes
      <4>13. CASE \/ requestEmailVerification(h) \/ CreateRole(h) \/ CreateMember(h)
                  \/ DeleteRow(h) \/ OpenSession(h) \/ RenewSession(h) \/ SpendLink(h)
        BY <1>4, <3>3, <4>13
        DEF requestEmailVerification, CreateRole, CreateMember, DeleteRow, OpenSession,
            RenewSession, SpendLink, Ends, Goes
      <4> QED
        BY <4>6, <4>7, <4>8, <4>9, <4>10, <4>11, <4>12, <4>13
    <3> QED BY <3>2, <3>3
  <2>3. Avatars
    <3>1. \A u \in users : u \in Rows(made, now)
      BY DEF Inv, Tables
    <3>2. CASE users' \subseteq users
      BY <3>2 DEF Avatars
    <3>3. CASE \E new : users' = users \cup {new} /\ new.avatar = NoPicture
      BY <3>3 DEF Avatars
    <3>4. CASE UpdateUser(h)
      <4>1. ASSUME NEW u \in users, Put(WithLink(u, req[h].link)) PROVE Avatars
        <5>1. PICK v : v = WithLink(u, req[h].link)
          OBVIOUS
        <5>2. v.avatar = NoPicture
          BY <3>1, <5>1 DEF WithLink, Rows
        <5> QED BY <4>1, <5>1, <5>2 DEF Put, Avatars
      <4> QED BY <3>4, <4>1, <3>2 DEF UpdateUser, Reads, people
    <3>5. CASE setPassword(h)
      <4> DEFINE found == {u \in users : u.email = req[h].email}
                 set(u) == IF u \in found THEN WithPassword(u, req[h].new, req[h].since) ELSE u
      <4>1. users' = {set(u) : u \in users}
        BY <3>5 DEF setPassword
      <4>2. \A u \in users : set(u).id = u.id /\ set(u).avatar = u.avatar
        BY <3>1 DEF WithPassword, Rows
      <4> HIDE DEF set
      <4> QED BY <4>1, <4>2 DEF Avatars
    <3>6. CASE CreateUser(h)
      <4>1. CASE users' = users
        BY <3>2, <4>1
      <4>2. CASE users' # users
        <5>1. PICK new : /\ users' = users \cup {new}
                         /\ new = [id |-> made + 1, email |-> req[h].link.email,
                                   username |-> req[h].link.username,
                                   password |-> req[h].link.password, changed |-> now,
                                   state |-> "APPROVED", avatar |-> NoPicture, sets |-> 1]
          BY <3>6, <4>2 DEF CreateUser, Reads, people
        <5> QED BY <3>3, <5>1
      <4> QED BY <4>1, <4>2
    <3>7. CASE CreatePseudo(h)
      <4>1. CASE users' = users
        BY <3>2, <4>1
      <4>2. CASE users' # users
        <5>1. PICK new : /\ users' = users \cup {new}
                         /\ new = [id |-> made + 1, email |-> req[h].email, username |-> NONE,
                                   password |-> NONE, changed |-> now, state |-> "PENDING",
                                   avatar |-> NoPicture, sets |-> 0]
          BY <3>7, <4>2 DEF CreatePseudo, Reads, people
        <5> QED BY <3>3, <5>1
      <4> QED BY <4>1, <4>2
    <3>8. CASE \/ requestEmailVerification(h) \/ AskPseudo(h) \/ AskTaken(h) \/ AskPseudoAgain(h)
               \/ CreateStudent(h) \/ verify(h) \/ UpdateStudent(h) \/ DeleteLink(h)
               \/ CreateRole(h) \/ CreateMember(h) \/ DeleteRow(h) \/ OpenSession(h)
               \/ RenewSession(h) \/ HashPassword(h) \/ SpendLink(h)
      BY <1>4, <3>2, <3>8
      DEF requestEmailVerification, AskPseudo, AskTaken, AskPseudoAgain, Reads, people,
          CreateStudent, verify, UpdateStudent, DeleteLink, CreateRole, CreateMember, DeleteRow,
          OpenSession, RenewSession, HashPassword, SpendLink
    <3> QED BY <3>4, <3>5, <3>6, <3>7, <3>8
  <2> QED BY <1>2, <2>1, <2>2, <2>3, OtherStep
<1> QED BY <1>3, <1>4

LEMMA UsersFinite == Tables => IsFiniteSet(users)
<1> SUFFICES ASSUME Tables PROVE IsFiniteSet(users)
  OBVIOUS
<1> DEFINE id == [u \in users |-> u.id]
<1>1. \A u \in users : u.id \in 1..made
  BY RowTypes
<1>2. \A u, v \in users : u.id = v.id => u = v
  BY DEF Tables
<1>3. id \in Injection(users, 1..made)
  BY <1>1, <1>2 DEF Injection, IsInjective
<1>4. IsFiniteSet(1..made)
  BY FS_Interval DEF Tables
<1> HIDE DEF id
<1> QED BY <1>3, <1>4, FS_Injection

\* A picture that one user has is of the one it was read from.
LEMMA OnlyHis ==
  ASSUME Tables, NEW u \in users, OnlyUser(u.avatar)
  PROVE  \A v \in users : v.avatar = u.avatar => v = u
<1> DEFINE S == {v \in users : v.avatar = u.avatar}
<1>1. IsFiniteSet(S)
  BY UsersFinite, FS_Subset
<1>2. \E x : S = {x}
  BY <1>1, FS_Singleton DEF OnlyUser
<1> QED BY <1>2

LEMMA DrawingSteps ==
  ASSUME Inv, PictureInv, NEW h \in Handlers,
         CountUsers(h) \/ deleteFile(h) \/ saveByHash(h) \/ NoteAvatar(h)
  PROVE  PictureInv'
<1>1. /\ Shaped(req[h]) /\ Working(h)
      /\ \A step : To(h, step).step = step /\ To(h, step).user = req[h].user
                   /\ To(h, step).old = req[h].old /\ To(h, step).new = req[h].new
  BY ToMoves DEF Inv, Requested, Asked, CountUsers, deleteFile, saveByHash, NoteAvatar, Working, Step
<1>2. ~crossed => /\ \A u \in users : Missing(u) =>
                       u.id = req[h].user /\ req[h].step \in {"save", "note"}
                  /\ Drawn(req[h])
  BY <1>1 DEF PictureInv, Pictured, Working
<1>3. CASE \E user : Fails(h, user)
  BY <1>3 DEF Fails, PictureInv
<1>4. ASSUME CountUsers(h), NEW step \in {"erase", "save"}, Goes(h, To(h, step)),
             step = "erase" => OnlyUser(req[h].old)
      PROVE  PictureInv'
  <2>1. PICK r : r = To(h, step)
    OBVIOUS
  <2>2. UNCHANGED <<users, files>> /\ req[h].step = "count"
    BY <1>4 DEF CountUsers, Step, Reads, people
  <2>3. ASSUME ~crossed PROVE Drawn(r)'
    <3>1. PICK u \in users : u.id = req[h].user /\ u.avatar = req[h].old
      BY <1>2, <2>2, <2>3 DEF Drawn
    <3>2. step = "erase" => \A v \in users : v.avatar = r.old => v.id = r.user
      BY <1>1, <1>4, <2>1, <3>1, OnlyHis DEF Inv
    <3> QED BY <1>1, <1>4, <2>1, <2>2, <3>2 DEF Drawn
  <2>4. ~crossed => \A v \in users' : ~Missing(v)'
    BY <1>2, <2>2 DEF Missing
  <2> QED BY <1>1, <1>4, <2>1, <2>3, <2>4, PictureStep DEF Goes
<1>5. ASSUME deleteFile(h), Goes(h, To(h, "save")), files' = files \ {req[h].old}
      PROVE  PictureInv'
  <2>1. PICK r : r = To(h, "save")
    OBVIOUS
  <2>2. users' = users /\ req[h].step = "erase"
    BY <1>5 DEF deleteFile, Step, Fails, people
  <2>3. Drawn(r)'
    BY <1>1, <2>1 DEF Drawn
  <2>4. ASSUME ~crossed, NEW v \in users', Missing(v)' PROVE v.id = r.user /\ r.step = "save"
    <3>1. v.avatar = req[h].old
      BY <1>2, <1>5, <2>2, <2>4 DEF Missing
    <3> QED BY <1>1, <1>2, <2>1, <2>2, <2>4, <3>1 DEF Drawn
  <2> QED BY <1>1, <1>5, <2>1, <2>3, <2>4, PictureStep DEF Goes
<1>6. CASE saveByHash(h)
  <2>1. PICK r : r = To(h, "note")
    OBVIOUS
  <2>2. /\ users' = users /\ req[h].step = "save" /\ Goes(h, To(h, "note"))
        /\ files \subseteq files' /\ req[h].new \in files' \cup {NoPicture}
    BY <1>6 DEF saveByHash, Step, people
  <2>3. Drawn(r)'
    BY <1>1, <2>1, <2>2 DEF Drawn
  <2>4. ASSUME ~crossed, NEW v \in users', Missing(v)' PROVE v.id = r.user /\ r.step = "note"
    BY <1>1, <1>2, <2>1, <2>2, <2>4 DEF Missing
  <2> QED BY <1>1, <2>1, <2>2, <2>3, <2>4, PictureStep DEF Goes
<1>7. ASSUME NoteAvatar(h), Exists(req[h].user) PROVE PictureInv'
  <2>0. Row(req[h].user) \in users /\ Row(req[h].user).id = req[h].user
    BY <1>7 DEF Exists, Row
  <2>1. PICK u \in users : u = Row(req[h].user) /\ u.id = req[h].user
    BY <2>0
  <2>2. PICK v : v = [u EXCEPT !.avatar = req[h].new]
    OBVIOUS
  <2>3. /\ users' = {w \in users : w.id # v.id} \cup {v} /\ files' = files
        /\ req' = [req EXCEPT ![h] = Idle] /\ crossed' = crossed /\ req[h].step = "note"
    BY <1>7, <2>1, <2>2 DEF NoteAvatar, Step, Put, Ends, Goes
  <2>4. v.id = req[h].user /\ v.avatar = req[h].new
    <3>1. u \in Rows(made, now)
      BY DEF Inv, Tables
    <3> QED BY <2>1, <2>2, <3>1 DEF Rows
  <2>5. ~crossed => \A w \in users' : ~Missing(w)'
    BY <1>2, <2>3, <2>4 DEF Missing, Drawn
  <2>6. Drawn(Idle)'
    BY DEF Drawn, Idle
  <2> HIDE DEF Idle
  <2> QED BY <1>1, <2>3, <2>5, <2>6, PictureStep
<1> QED BY <1>3, <1>4, <1>5, <1>6, <1>7 DEF CountUsers, deleteFile, NoteAvatar

LEMMA NobodysPictures ==
  ASSUME PictureInv,
         \/ \E email \in Emails : forgotPassword(email)
         \/ Expire \/ Tick \/ Restart \/ UNCHANGED vars
  PROVE  PictureInv'
<1>1. CASE Restart
  BY <1>1 DEF Restart, PictureInv
<1>2. CASE UNCHANGED <<users, files, req, crossed>>
  BY <1>2 DEF PictureInv, Pictured, Missing, Drawn, Working
<1> QED BY <1>1, <1>2 DEF forgotPassword, Expire, Tick, vars, people

\* While requests neither cross nor stop midway, a user's picture is on the disk, whoever
\* else had it and gave it up: for any number of users who share any number of pictures
\* (UserService.ts:419-451, FileService.ts:17-39).
THEOREM PicturesAreKept == Spec => []PicturesKept
<1>1. Init => PictureInv
  <2>1. Drawn(Idle) /\ Idle.step = "idle"
    BY DEF Drawn, Idle
  <2> HIDE DEF Idle
  <2>2. Init => \A u \in users : ~Missing(u)
    BY AccountsAssumption DEF Init, Missing
  <2> QED BY <2>1, <2>2 DEF Init, PictureInv, Pictured, Working
<1>2. Inv /\ PictureInv /\ [Next]_vars => PictureInv'
  <2> SUFFICES ASSUME Inv, PictureInv, [Next]_vars PROVE PictureInv'
    OBVIOUS
  <2>1. ASSUME NEW h \in Handlers, Serve(h) PROVE PictureInv'
    BY <2>1, BeginningsPicture, AwayFromPictures, DrawingSteps DEF Serve
  <2> QED BY <2>1, NobodysPictures DEF Next
<1> QED BY <1>1, <1>2, PicturesEnough, InvInit, Inductive, PTL DEF Spec
=============================================================================
