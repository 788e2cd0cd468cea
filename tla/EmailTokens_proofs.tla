------------------------- MODULE EmailTokens_proofs --------------------------
(***************************************************************************)
(* A link lives for an hour: proved for any number of addresses and        *)
(* concurrent requests, as long as the process does not restart and no     *)
(* link is sent again.                                                     *)
(***************************************************************************)
EXTENDS EmailTokens, TLAPS

\* What a request can be, by its pc.
LEMMA RequestKinds ==
  ASSUME NEW r \in Request
  PROVE  /\ r.pc \in {"idle", "find", "drop", "create", "mail", "set", "delete"}
         /\ r.pc \in {"find", "create"} =>
              r \in [pc : {"find", "create"}, email : Emails, again : Row \cup {NoRow}]
         /\ r.pc = "drop" =>
              r \in [pc : {"drop"}, email : Emails, again : Row \cup {NoRow}, id : Ids]
         /\ r.pc \in {"mail", "set", "delete"} =>
              r \in [pc : {"mail", "set", "delete"}, id : Ids]
  BY DEF Request, Idle

\* Every step keeps the types.
LEMMA TypesKept == Types /\ [Next]_vars => Types'
<1> SUFFICES ASSUME Types, [Next]_vars PROVE Types'
  OBVIOUS
<1> USE TokensAssumption
<1>1. ASSUME NEW h \in Handlers, NEW e \in Emails, Ask(h, e) PROVE Types'
  BY <1>1 DEF Ask, Begin, Go, Types, Request, Idle
<1>2. ASSUME NEW h \in Handlers, NEW e \in Emails, AskAgain(h, e) PROVE Types'
  BY <1>2 DEF AskAgain, Begin, Go, Types, Request
<1>3. ASSUME NEW h \in Handlers, Find(h) PROVE Types'
  <2>1. req[h] \in [pc : {"find", "create"}, email : Emails, again : Row \cup {NoRow}]
    BY <1>3, RequestKinds DEF Find, Types
  <2>2. req' \in [Handlers -> Request]
    BY <1>3, <2>1 DEF Find, Go, Types, Request, Row
  <2> QED BY <1>3, <2>2 DEF Find, Types
<1>4. ASSUME NEW h \in Handlers, Drop(h) PROVE Types'
  <2>1. req[h] \in [pc : {"drop"}, email : Emails, again : Row \cup {NoRow}, id : Ids]
    BY <1>4, RequestKinds DEF Drop, Types
  <2>2. req' \in [Handlers -> Request]
    BY <1>4, <2>1 DEF Drop, Go, Types, Request
  <2> QED BY <1>4, <2>2 DEF Drop, Types, Without
<1>5. ASSUME NEW h \in Handlers, Create(h) PROVE Types'
  <2>1. req[h] \in [pc : {"find", "create"}, email : Emails, again : Row \cup {NoRow}]
    BY <1>5, RequestKinds DEF Create, Types
  <2>2. req[h].again # NoRow => req[h].again \in Row /\ req[h].again.id \in Ids
    BY <2>1 DEF Row
  <2>3. req' \in [Handlers -> Request]
    <3>1. PICK r : Go(h, r) /\ (r = Idle \/ \E i \in Ids : r = [pc |-> "mail", id |-> i])
      BY <1>5, <2>2 DEF Create, Types, Ids
    <3>2. r \in Request
      BY <3>1 DEF Request
    <3> QED BY <3>1, <3>2 DEF Go, Types
  <2>4. CASE req[h].again = NoRow
    <3>1. nextId \in Ids /\ nextId' = nextId + 1 /\ nextId' \in 1..MaxTokens + 1
      BY <1>5, <2>4 DEF Create, Types, Ids
    <3>2. NewRow(req[h].email) \in Row
      BY <2>1, <3>1 DEF Types, NewRow, Row
    <3>3. /\ tokens' = tokens \cup {NewRow(req[h].email)}
          /\ asked' \in [Emails -> Time \cup {Never}]
      BY <1>5, <2>1, <2>4 DEF Create, Types
    <3> HIDE DEF NewRow
    <3> QED BY <1>5, <2>3, <3>1, <3>2, <3>3 DEF Create, Types, Time
  <2>5. CASE req[h].again # NoRow /\ ~Exists(req[h].again.id)
    <3>1. tokens' = tokens \cup {req[h].again}
      BY <1>5, <2>5 DEF Create
    <3>2. asked' \in [Emails -> Time \cup {Never}]
      BY <1>5, <2>1, <2>5 DEF Create, Types
    <3> QED BY <1>5, <2>2, <2>3, <2>5, <3>1, <3>2 DEF Create, Types
  <2>6. CASE req[h].again # NoRow /\ Exists(req[h].again.id)
    BY <1>5, <2>3, <2>6 DEF Create, Types
  <2> QED BY <2>4, <2>5, <2>6
<1>6. ASSUME NEW h \in Handlers, Mail(h) PROVE Types'
  <2>1. req[h] \in [pc : {"mail", "set", "delete"}, id : Ids]
    BY <1>6, RequestKinds DEF Mail, Types
  <2> QED BY <1>6, <2>1 DEF Mail, Go, Types, Timer, Time, Delay, Request
<1>7. ASSUME NEW h \in Handlers, NEW id \in Ids, BeginUse(h, id) PROVE Types'
  BY <1>7 DEF BeginUse, Begin, Go, Types, Request
<1>8. ASSUME NEW h \in Handlers, SetPassword(h) PROVE Types'
  <2>1. req[h] \in [pc : {"mail", "set", "delete"}, id : Ids]
    BY <1>8, RequestKinds DEF SetPassword, Types
  <2>2. used' \in [Ids -> 0..2]
    BY <1>8 DEF SetPassword, Effect, Types
  <2>3. req' \in [Handlers -> Request]
    BY <1>8, <2>1 DEF SetPassword, Go, Types, Request
  <2> QED BY <1>8, <2>2, <2>3 DEF SetPassword, Types
<1>9. ASSUME NEW h \in Handlers, Delete(h) PROVE Types'
  BY <1>9 DEF Delete, Go, Types, Request, AfterUse, Without
<1>10. ASSUME NEW r \in timers, Fire(r) PROVE Types'
  BY <1>10 DEF Fire, Types, Without
<1>11. CASE Tick
  BY <1>11 DEF Tick, Types, Time, Row
<1>12. CASE Restart
  BY <1>12 DEF Restart, Types, Request
<1>13. CASE UNCHANGED vars
  BY <1>13 DEF vars, Types
<1> QED
  BY <1>1, <1>2, <1>3, <1>4, <1>5, <1>6, <1>7, <1>8, <1>9, <1>10, <1>11, <1>12, <1>13
  DEF Next

\* Every step keeps the rows in the past.
LEMMA PastKept == TypeOK /\ [Next]_vars => Past'
<1> SUFFICES ASSUME Types, Past, [Next]_vars PROVE Past'
  BY DEF TypeOK
<1> USE TokensAssumption
<1>1. ASSUME NEW h \in Handlers, NEW e \in Emails, Ask(h, e) PROVE Past'
  BY <1>1 DEF Ask, Begin, Go, Types, Past
<1>2. ASSUME NEW h \in Handlers, NEW e \in Emails, AskAgain(h, e) PROVE Past'
  BY <1>2 DEF AskAgain, Begin, Go, Types, Past
<1>3. ASSUME NEW h \in Handlers, Find(h) PROVE Past'
  BY <1>3 DEF Find, Go, Types, Past, Idle
<1>4. ASSUME NEW h \in Handlers, Drop(h) PROVE Past'
  BY <1>4 DEF Drop, Go, Types, Past, Idle, Without
<1>5. ASSUME NEW h \in Handlers, Create(h) PROVE Past'
  <2>1. /\ req'[h].pc \in {"idle", "mail"}
        /\ \A g \in Handlers \ {h} : req'[g] = req[g]
        /\ now' = now /\ now \in Nat
    BY <1>5 DEF Create, Go, Types, Idle, Time
  <2>2. \A t \in tokens' : t \in tokens \/ t.createdAt = now \/ t.createdAt <= now
    BY <1>5 DEF Create, Past, NewRow
  <2> QED BY <2>1, <2>2 DEF Past
<1>6. ASSUME NEW h \in Handlers, Mail(h) PROVE Past'
  BY <1>6 DEF Mail, Go, Types, Past, Idle
<1>7. ASSUME NEW h \in Handlers, NEW id \in Ids, BeginUse(h, id) PROVE Past'
  BY <1>7 DEF BeginUse, Begin, Go, Types, Past
<1>8. ASSUME NEW h \in Handlers, SetPassword(h) PROVE Past'
  BY <1>8 DEF SetPassword, Go, Types, Past, Idle
<1>9. ASSUME NEW h \in Handlers, Delete(h) PROVE Past'
  BY <1>9 DEF Delete, Go, Types, Past, Idle, AfterUse, Without
<1>10. ASSUME NEW r \in timers, Fire(r) PROVE Past'
  BY <1>10 DEF Fire, Past, Without
<1>11. CASE Tick
  <2>1. \A h \in Handlers : req[h].pc \in {"find", "drop", "create"} =>
          req[h].again = NoRow \/ req[h].again \in Row
    BY RequestKinds DEF Types
  <2> QED BY <1>11, <2>1 DEF Tick, Types, Past, Time, Row
<1>12. CASE Restart
  BY <1>12 DEF Restart, Past, Idle
<1>13. CASE UNCHANGED vars
  BY <1>13 DEF vars, Past
<1> QED
  BY <1>1, <1>2, <1>3, <1>4, <1>5, <1>6, <1>7, <1>8, <1>9, <1>10, <1>11, <1>12, <1>13
  DEF Next

\* Types: tables, timers and the locals of the requests keep their types, and no
\* row is from the future, links that are sent again and restarts included.
THEOREM TypeCorrect == Spec => []TypeOK
<1>1. Init => TypeOK
  BY TokensAssumption DEF Init, TypeOK, Types, Past, Time, Ids, Idle, Request
<1>2. TypeOK /\ [Next]_vars => TypeOK'
  BY TypesKept, PastKept DEF TypeOK
<1> QED BY <1>1, <1>2, PTL DEF Spec

-----------------------------------------------------------------------------
\* The timers and the links agree, whatever the requests do.
THEOREM TimersAgree == Spec => []TimedInv
<1>1. Init => TimedInv
  BY TokensAssumption DEF Init, TimedInv, Timed, Idle
<1>2. TypeOK /\ TimedInv /\ [Next]_vars => TimedInv'
  <2> SUFFICES ASSUME TypeOK, Timed, "repeat" \notin events', [Next]_vars PROVE Timed'
    <3>1. [Next]_vars => events \subseteq events'
      BY DEF Next, vars, Ask, AskAgain, Find, Drop, Create, Mail, BeginUse, SetPassword,
             Delete, Fire, Tick, Restart, Begin
    <3> QED BY <3>1 DEF TimedInv
  <2> USE TokensAssumption
  <2>1. ASSUME NEW h \in Handlers, NEW e \in Emails, Ask(h, e) PROVE Timed'
    BY <2>1 DEF Ask, Begin, Go, TypeOK, Types, Timed, Idle
  <2>2. ASSUME NEW h \in Handlers, NEW e \in Emails, AskAgain(h, e) PROVE Timed'
    BY <2>2 DEF AskAgain, Begin
  <2>3. ASSUME NEW h \in Handlers, Find(h) PROVE Timed'
    <3>1. req[h] \in [pc : {"find", "create"}, email : Emails, again : Row \cup {NoRow}]
      BY <2>3, RequestKinds DEF Find, TypeOK, Types
    <3>2. /\ req'[h].pc \in {"idle", "drop", "create"}
          /\ req'[h].pc \in {"drop", "create"} => req'[h].again = NoRow
          /\ \A g \in Handlers \ {h} : req'[g] = req[g]
      BY <2>3, <3>1 DEF Find, Go, TypeOK, Types, Timed, Idle
    <3> QED BY <2>3, <3>2 DEF Find, TypeOK, Types, Timed
  <2>4. ASSUME NEW h \in Handlers, Drop(h) PROVE Timed'
    BY <2>4 DEF Drop, Go, TypeOK, Types, Timed, Without, Idle
  <2>5. ASSUME NEW h \in Handlers, Create(h) PROVE Timed'
    <3>1. req[h] \in [pc : {"find", "create"}, email : Emails, again : Row \cup {NoRow}]
      BY <2>5, RequestKinds DEF Create, TypeOK, Types
    <3>2. /\ tokens' = tokens \cup {NewRow(req[h].email)}
          /\ nextId \in Ids
          /\ nextId' = nextId + 1
          /\ req'[h] = [pc |-> "mail", id |-> nextId]
          /\ \A g \in Handlers \ {h} : req'[g] = req[g]
          /\ mailed' = mailed /\ timers' = timers /\ now' = now /\ events' = events
      BY <2>5 DEF Create, Go, TypeOK, Types, Timed, Ids
    <3>3. \A t \in tokens : t.id \in Ids /\ t.id < nextId
      BY DEF TypeOK, Types, Timed, Row
    <3>4. \A r \in timers : r.id \in Ids
      BY DEF TypeOK, Types, Timer
    <3>5. \A g \in Handlers : req[g].pc = "mail" => req[g].id \in Ids
      BY RequestKinds DEF TypeOK, Types
    <3>6. mailed[nextId] = Never
      BY <3>2 DEF Timed, Ids, TypeOK, Types
    <3>7. \A g \in Handlers \ {h} : req[g].pc = "mail" => req[g].id # nextId
      BY <3>2, <3>5 DEF Timed, Ids, TypeOK, Types
    <3>8. \A t \in tokens' : t.id = nextId \/ t \in tokens
      BY <3>2 DEF NewRow
    <3>9. /\ \A i \in Ids : i >= nextId' => mailed'[i] = Never
          /\ \A t \in tokens' : t.id < nextId'
      BY <3>2, <3>3, <3>8 DEF Timed, Ids
    <3>10. \A t \in tokens' :
             mailed'[t.id] # Never /\ "restart" \notin events' => \E r \in timers' : r.id = t.id
      BY <3>2, <3>6, <3>8 DEF Timed
    <3>11. \A r \in timers' :
             mailed'[r.id] # Never /\ r.due = mailed'[r.id] + Hour /\ now' <= r.due
      BY <3>2 DEF Timed
    <3>12. \A g \in Handlers : req'[g].pc = "mail" =>
             mailed'[req'[g].id] = Never /\ req'[g].id < nextId'
      BY <3>2, <3>5, <3>6 DEF Timed, Ids
    <3>13. \A f, g \in Handlers :
             req'[f].pc = "mail" /\ req'[g].pc = "mail" /\ req'[f].id = req'[g].id => f = g
      BY <3>2, <3>7 DEF Timed
    <3>14. \A g \in Handlers :
             req'[g].pc \in {"find", "drop", "create"} => req'[g].again = NoRow
      BY <3>2 DEF Timed
    <3> QED BY <3>2, <3>9, <3>10, <3>11, <3>12, <3>13, <3>14 DEF Timed
  <2>6. ASSUME NEW h \in Handlers, Mail(h) PROVE Timed'
    <3>1. req[h] \in [pc : {"mail", "set", "delete"}, id : Ids]
      BY <2>6, RequestKinds DEF Mail, TypeOK, Types
    <3>2. /\ req'[h].pc = "idle"
          /\ \A g \in Handlers \ {h} : req'[g] = req[g]
          /\ UNCHANGED <<now, tokens, nextId, events>>
      BY <2>6 DEF Mail, Go, TypeOK, Types, Idle
    <3>3. \A g \in Handlers : req[g].pc = "mail" => req[g].id \in Ids
      BY RequestKinds DEF TypeOK, Types
    <3>4. CASE mailed' = mailed /\ timers' = timers
      BY <3>2, <3>4 DEF TypeOK, Types, Timed
    <3>5. CASE /\ mailed' = [mailed EXCEPT ![req[h].id] = now]
               /\ timers' = timers \cup {[id |-> req[h].id, due |-> now + Hour]}
      <4>1. /\ mailed'[req[h].id] = now
            /\ \A i \in Ids \ {req[h].id} : mailed'[i] = mailed[i]
            /\ now # Never /\ now \in Nat
        BY <3>1, <3>5 DEF TypeOK, Types, Time, Never
      <4>2. \A r \in timers : r.id # req[h].id /\ r.id \in Ids
        BY <2>6 DEF Mail, Timed, TypeOK, Types, Timer
      <4>3. \A t \in tokens : t.id \in Ids
        BY DEF TypeOK, Types, Row
      <4>4. \A r \in timers' :
              mailed'[r.id] # Never /\ r.due = mailed'[r.id] + Hour /\ now <= r.due
        BY <3>5, <4>1, <4>2 DEF Timed
      <4>5. \A t \in tokens :
              mailed'[t.id] # Never /\ "restart" \notin events => \E r \in timers' : r.id = t.id
        <5> SUFFICES ASSUME NEW t \in tokens, mailed'[t.id] # Never, "restart" \notin events
                     PROVE  \E r \in timers' : r.id = t.id
          OBVIOUS
        <5>1. CASE t.id = req[h].id
          <6>1. [id |-> req[h].id, due |-> now + Hour] \in timers'
            BY <3>5
          <6> QED BY <5>1, <6>1
        <5>2. CASE t.id # req[h].id
          BY <3>5, <4>1, <4>3, <5>2 DEF Timed
        <5> QED BY <5>1, <5>2
      <4>6. \A g \in Handlers : req'[g].pc = "mail" =>
              mailed'[req'[g].id] = Never /\ req'[g].id < nextId
        BY <2>6, <3>2, <3>3, <4>1 DEF Mail, Timed
      <4>7. \A i \in Ids : i >= nextId => mailed'[i] = Never
        <5>1. req[h].id < nextId /\ req[h].id \in Nat /\ nextId \in Nat
          BY <2>6, <3>1 DEF Mail, Timed, TypeOK, Types, Ids
        <5>2. \A i \in Ids : i >= nextId => i # req[h].id
          BY <5>1 DEF Ids
        <5> QED BY <4>1, <5>2 DEF Timed
      <4> QED BY <3>2, <4>4, <4>5, <4>6, <4>7 DEF Timed
    <3> QED BY <2>6, <3>4, <3>5 DEF Mail, Delay
  <2>7. ASSUME NEW h \in Handlers, NEW id \in Ids, BeginUse(h, id) PROVE Timed'
    BY <2>7 DEF BeginUse, Begin, Go, TypeOK, Types, Timed
  <2>8. ASSUME NEW h \in Handlers, SetPassword(h) PROVE Timed'
    <3>1. /\ req'[h].pc \in {"idle", "delete"}
          /\ \A g \in Handlers \ {h} : req'[g] = req[g]
      BY <2>8 DEF SetPassword, Go, TypeOK, Types, Idle
    <3> QED BY <2>8, <3>1 DEF SetPassword, Timed
  <2>9. ASSUME NEW h \in Handlers, Delete(h) PROVE Timed'
    BY <2>9 DEF Delete, Go, TypeOK, Types, Timed, Idle, AfterUse, Without
  <2>10. ASSUME NEW r \in timers, Fire(r) PROVE Timed'
    BY <2>10 DEF Fire, TypeOK, Types, Timed, Without
  <2>11. CASE Tick
    BY <2>11 DEF Tick, TypeOK, Types, Timed, Timer, Time
  <2>12. CASE Restart
    BY <2>12 DEF Restart, TypeOK, Types, Timed, Idle
  <2>13. CASE UNCHANGED vars
    BY <2>13 DEF vars, Timed
  <2> QED
    BY <2>1, <2>2, <2>3, <2>4, <2>5, <2>6, <2>7, <2>8, <2>9, <2>10, <2>11, <2>12, <2>13
    DEF Next
<1> QED BY <1>1, <1>2, TypeCorrect, PTL DEF Spec

\* A mailed link is gone an hour later, unused or not.
THEOREM LinksDie == Spec => []LinkDies
<1>1. TypeOK /\ TimedInv => LinkDies
  <2> SUFFICES ASSUME Timed, "restart" \notin events, NEW t \in tokens, mailed[t.id] # Never
               PROVE  now <= mailed[t.id] + Hour
    BY DEF LinkDies, NoneLate, TimedInv
  <2>1. PICK r \in timers : r.id = t.id
    BY DEF Timed
  <2> QED BY <2>1 DEF Timed
<1> QED BY <1>1, TypeCorrect, TimersAgree, PTL

\* A mailed link goes within the hour only when it is used or replaced.
THEOREM LinksLive == Spec => LinkLives
<1> DEFINE Goes == \A t \in tokens :
       t \notin tokens' /\ mailed[t.id] # Never /\ "repeat" \notin events =>
       \/ now >= mailed[t.id] + Hour
       \/ \E h \in Handlers : req[h].pc \in {"drop", "delete"} /\ req[h].id = t.id
<1>1. TypeOK /\ TimedInv /\ [Next]_vars => [Goes]_vars
  <2> SUFFICES ASSUME TypeOK, Timed, Next,
                      NEW t \in tokens, t \notin tokens', mailed[t.id] # Never
               PROVE  \/ now >= mailed[t.id] + Hour
                      \/ \E h \in Handlers :
                           req[h].pc \in {"drop", "delete"} /\ req[h].id = t.id
    BY DEF TimedInv
  <2>1. ASSUME NEW r \in timers, Fire(r) PROVE now >= mailed[t.id] + Hour
    BY <2>1 DEF Fire, Without, Timed
  <2>2. ASSUME NEW h \in Handlers, Drop(h) \/ Delete(h)
        PROVE  req[h].pc \in {"drop", "delete"} /\ req[h].id = t.id
    BY <2>2 DEF Drop, Delete, AfterUse, Without
  <2>3. ASSUME NEW h \in Handlers, Create(h) PROVE FALSE
    BY <2>3 DEF Create
  <2> QED
    BY <2>1, <2>2, <2>3
    DEF Next, Ask, AskAgain, Find, Mail, BeginUse, SetPassword, Tick, Restart
<1> QED BY <1>1, TypeCorrect, TimersAgree, PTL DEF Spec, LinkLives

-----------------------------------------------------------------------------
\* What the rest needs of the keys, whatever the requests do: a key has one row,
\* and only keys that were handed out are in the table, in the timers or with a
\* request.  A row that will be created again is of the address it is asked for.
Numbered ==
  /\ \A s, t \in tokens : s.id = t.id => s = t
  /\ \A t \in tokens : t.id < nextId
  /\ \A r \in timers : r.id < nextId
  /\ \A h \in Handlers :
       req[h].pc \in {"drop", "mail", "set", "delete"} => req[h].id < nextId
  /\ \A h \in Handlers :
       req[h].pc \in {"find", "drop", "create"} /\ req[h].again # NoRow =>
         req[h].again.id < nextId /\ req[h].again.email = req[h].email
  /\ \A i \in Ids : i >= nextId => used[i] = 0

\* While no requests have crossed, the one in progress knows what the table holds
\* of its address: nothing when it creates the row, only the row it is about to
\* drop before that.
Alone ==
  /\ \A g, h \in Handlers : req[g] # Idle /\ req[h] # Idle => g = h
  /\ \A s, t \in tokens : s.email = t.email => s = t
  /\ \A h \in Handlers : req[h].pc = "create" =>
       \A t \in tokens : t.email # req[h].email
  /\ \A h \in Handlers : req[h].pc = "drop" =>
       \A t \in tokens : t.email = req[h].email => t.id = req[h].id

AloneInv == "cross" \notin events => Alone

\* Unless a link was sent again too, the last link of an address that was not used
\* is a minute old or still in the table, a row about to be dropped is a minute
\* old, and no timer is set for less than an hour after its row was created.
Aged ==
  /\ \A e \in Emails :
       \/ now - asked[e] >= Minute
       \/ \E t \in tokens : t.email = e /\ t.createdAt = asked[e]
  /\ \A h \in Handlers : req[h].pc = "drop" =>
       \A t \in tokens : t.id = req[h].id => now - t.createdAt >= Minute
  /\ \A r \in timers, t \in tokens : t.id = r.id => t.createdAt + Hour <= r.due

AgedInv == {"cross", "repeat"} \cap events = {} => Aged

\* While no requests have crossed and the process has not restarted, a link that
\* had its effect is about to be deleted or gone for good, and a row that will be
\* created again had none.
Spent ==
  /\ \A i \in Ids : used[i] <= 1
  /\ \A t \in tokens : used[t.id] # 0 =>
       \E h \in Handlers : req[h].pc = "delete" /\ req[h].id = t.id
  /\ \A h \in Handlers : req[h].pc = "set" => used[req[h].id] = 0
  /\ \A h \in Handlers :
       req[h].pc \in {"find", "drop", "create"} /\ req[h].again # NoRow =>
         used[req[h].again.id] = 0

SpentInv == {"cross", "restart", "thrown"} \cap events = {} => Spent

\* The ids a request and a row carry are keys.
LEMMA Keys ==
  ASSUME Types
  PROVE  /\ \A t \in tokens : t.id \in Ids /\ t.email \in Emails /\ t.createdAt \in Nat
         /\ \A r \in timers : r.id \in Ids /\ r.due \in Nat
         /\ \A h \in Handlers :
              /\ req[h].pc \in {"drop", "mail", "set", "delete"} => req[h].id \in Ids
              /\ req[h].pc \in {"find", "drop", "create"} => req[h].email \in Emails
              /\ req[h].pc \in {"find", "drop", "create"} /\ req[h].again # NoRow =>
                   /\ req[h].again \in Row
                   /\ req[h].again.id \in Ids
                   /\ req[h].again.createdAt \in Nat
         /\ nextId \in Nat /\ now \in Nat
<1> USE TokensAssumption
<1>1. \A h \in Handlers : req[h] \in Request
  BY DEF Types
<1> QED BY <1>1, RequestKinds DEF Types, Row, Timer, Time, Ids

\* Every step keeps the keys in order.
LEMMA NumberedKept == TypeOK /\ Numbered /\ [Next]_vars => Numbered'
<1> SUFFICES ASSUME Types, Numbered, [Next]_vars PROVE Numbered'
  BY DEF TypeOK
<1> USE TokensAssumption
<1>0. /\ Types
      /\ \A t \in tokens : t.id \in Ids
      /\ nextId \in Nat
  BY Keys
<1>1. ASSUME NEW h \in Handlers, NEW e \in Emails, Ask(h, e) PROVE Numbered'
  BY <1>1 DEF Ask, Begin, Go, Types, Numbered
<1>2. ASSUME NEW h \in Handlers, NEW e \in Emails, AskAgain(h, e) PROVE Numbered'
  <2>1. PICK t \in tokens :
          t.email = e /\ req' = [req EXCEPT ![h] = [pc |-> "find", email |-> e, again |-> t]]
    BY <1>2 DEF AskAgain, Begin, Go
  <2> QED BY <1>2, <2>1 DEF AskAgain, Types, Numbered
<1>3. ASSUME NEW h \in Handlers, Find(h) PROVE Numbered'
  <2>1. /\ \A g \in Handlers \ {h} : req'[g] = req[g]
        /\ \/ req'[h] = Idle
           \/ req'[h] = [pc |-> "create", email |-> req[h].email, again |-> req[h].again]
           \/ \E t \in tokens :
                req'[h] = [pc |-> "drop", email |-> req[h].email,
                           again |-> req[h].again, id |-> t.id]
    BY <1>3 DEF Find, Go, Types
  <2>2. CASE req'[h] = Idle
    BY <1>3, <2>1, <2>2 DEF Find, Numbered, Idle
  <2>3. CASE req'[h] = [pc |-> "create", email |-> req[h].email, again |-> req[h].again]
    BY <1>3, <2>1, <2>3 DEF Find, Numbered
  <2>4. ASSUME NEW t \in tokens,
               req'[h] = [pc |-> "drop", email |-> req[h].email,
                          again |-> req[h].again, id |-> t.id]
        PROVE  Numbered'
    BY <1>3, <2>1, <2>4 DEF Find, Numbered
  <2> QED BY <2>1, <2>2, <2>3, <2>4
<1>4. ASSUME NEW h \in Handlers, Drop(h) PROVE Numbered'
  BY <1>4 DEF Drop, Go, Types, Numbered, Without, Idle
<1>5. ASSUME NEW h \in Handlers, Create(h) PROVE Numbered'
  <2>1. CASE req[h].again = NoRow
    <3>1. /\ tokens' = tokens \cup {NewRow(req[h].email)}
          /\ NewRow(req[h].email).id = nextId
          /\ nextId' = nextId + 1
          /\ req' = [req EXCEPT ![h] = [pc |-> "mail", id |-> nextId]]
      BY <1>5, <2>1 DEF Create, Go, NewRow
    <3>2. \A i \in Ids : i >= nextId' => used'[i] = 0
      BY <1>5, <3>1, <1>0 DEF Create, Numbered, Ids
    <3>3. /\ \A s, t \in tokens' : s.id = t.id => s = t
          /\ \A t \in tokens' : t.id < nextId'
      BY <3>1, <1>0 DEF Numbered, Ids
    <3>4. \A r \in timers' : r.id < nextId'
      BY <1>5, <3>1, <1>0, Keys DEF Create, Numbered, Ids
    <3>5. \A g \in Handlers :
            req'[g].pc \in {"drop", "mail", "set", "delete"} => req'[g].id < nextId'
      BY <3>1, <1>0, Keys DEF Types, Numbered, Ids
    <3>6. \A g \in Handlers :
            req'[g].pc \in {"find", "drop", "create"} /\ req'[g].again # NoRow =>
              req'[g].again.id < nextId' /\ req'[g].again.email = req'[g].email
      BY <3>1, <1>0, Keys DEF Types, Numbered, Ids
    <3> QED BY <3>2, <3>3, <3>4, <3>5, <3>6 DEF Numbered
  <2>2. CASE req[h].again # NoRow /\ ~Exists(req[h].again.id)
    BY <1>5, <2>2 DEF Create, Go, Types, Numbered, Exists
  <2>3. CASE req[h].again # NoRow /\ Exists(req[h].again.id)
    BY <1>5, <2>3 DEF Create, Go, Types, Numbered, Idle
  <2> QED BY <2>1, <2>2, <2>3
<1>6. ASSUME NEW h \in Handlers, Mail(h) PROVE Numbered'
  BY <1>6 DEF Mail, Go, Types, Numbered, Idle
<1>7. ASSUME NEW h \in Handlers, NEW id \in Ids, BeginUse(h, id) PROVE Numbered'
  BY <1>7 DEF BeginUse, Begin, Go, Types, Numbered, Exists
<1>8. ASSUME NEW h \in Handlers, SetPassword(h) PROVE Numbered'
  <2>1. /\ \A g \in Handlers \ {h} : req'[g] = req[g]
        /\ \/ req'[h] = Idle
           \/ req'[h] = [pc |-> "delete", id |-> req[h].id]
    BY <1>8 DEF SetPassword, Go, Types
  <2>2. req[h].id \in Ids /\ req[h].id < nextId
    BY <1>8, Keys DEF SetPassword, Numbered
  <2>3. \A i \in Ids : i >= nextId => used'[i] = used[i]
    BY <1>8, <2>2, <1>0 DEF SetPassword, Effect, Types, Ids
  <2> QED BY <1>8, <2>1, <2>2, <2>3 DEF SetPassword, Numbered, Idle
<1>9. ASSUME NEW h \in Handlers, Delete(h) PROVE Numbered'
  BY <1>9 DEF Delete, Go, Types, Numbered, AfterUse, Without, Idle
<1>10. ASSUME NEW r \in timers, Fire(r) PROVE Numbered'
  BY <1>10 DEF Fire, Numbered, Without
<1>11. CASE Tick
  BY <1>11 DEF Tick, Numbered
<1>12. CASE Restart
  BY <1>12 DEF Restart, Numbered, Idle
<1>13. CASE UNCHANGED vars
  BY <1>13 DEF vars, Numbered
<1> QED
  BY <1>1, <1>2, <1>3, <1>4, <1>5, <1>6, <1>7, <1>8, <1>9, <1>10, <1>11, <1>12, <1>13
  DEF Next

\* What has happened is not forgotten.
LEMMA Remembered == [Next]_vars => events \subseteq events'
  BY DEF Next, vars, Ask, AskAgain, Find, Drop, Create, Mail, BeginUse, SetPassword,
         Delete, Fire, Tick, Restart, Begin

\* A request that goes on while none has crossed is the only one.
LEMMA OnlyOne ==
  ASSUME Alone, NEW h \in Handlers, req[h] # Idle
  PROVE  \A g \in Handlers \ {h} : req[g] = Idle
  BY DEF Alone

\* A request that begins without crossing another one is the only one.
LEMMA BeginsAlone ==
  ASSUME Types, NEW h \in Handlers, NEW r, NEW event, Begin(h, r, event), "cross" \notin events'
  PROVE  /\ \A g \in Handlers : req[g] = Idle
         /\ \A g \in Handlers \ {h} : req'[g] = Idle
         /\ req'[h] = r
<1>1. \A g \in Handlers : req[g] = Idle
  BY DEF Begin
<1> QED BY <1>1 DEF Begin, Go, Types

\* Every step keeps what a request that is alone knows.
LEMMA AloneKept == TypeOK /\ Numbered /\ AloneInv /\ [Next]_vars => AloneInv'
<1> SUFFICES ASSUME Types, Numbered, Alone, "cross" \notin events', [Next]_vars PROVE Alone'
  BY Remembered DEF AloneInv, TypeOK
<1> USE TokensAssumption
<1>1. ASSUME NEW h \in Handlers, NEW e \in Emails, Ask(h, e) PROVE Alone'
  BY <1>1, BeginsAlone DEF Ask, Alone, Idle
<1>2. ASSUME NEW h \in Handlers, NEW e \in Emails, AskAgain(h, e) PROVE Alone'
  <2>1. PICK t \in tokens : Begin(h, [pc |-> "find", email |-> e, again |-> t], {"repeat"})
    BY <1>2 DEF AskAgain
  <2> QED BY <1>2, <2>1, BeginsAlone DEF AskAgain, Alone, Idle
<1>3. ASSUME NEW h \in Handlers, Find(h) PROVE Alone'
  <2>1. \A g \in Handlers \ {h} : req'[g] = Idle
    BY <1>3, OnlyOne DEF Find, Go, Types, Idle
  <2>2. \/ req'[h] = Idle
        \/ /\ \A t \in tokens : t.email # req[h].email
           /\ req'[h] = [pc |-> "create", email |-> req[h].email, again |-> req[h].again]
        \/ \E t \in tokens :
             /\ t.email = req[h].email
             /\ req'[h] = [pc |-> "drop", email |-> req[h].email,
                           again |-> req[h].again, id |-> t.id]
    BY <1>3 DEF Find, Go, Types
  <2>3. CASE req'[h] = Idle
    BY <1>3, <2>1, <2>3 DEF Find, Alone, Idle
  <2>4. CASE /\ \A t \in tokens : t.email # req[h].email
             /\ req'[h] = [pc |-> "create", email |-> req[h].email, again |-> req[h].again]
    BY <1>3, <2>1, <2>4 DEF Find, Alone, Idle
  <2>5. ASSUME NEW t \in tokens, t.email = req[h].email,
               req'[h] = [pc |-> "drop", email |-> req[h].email,
                          again |-> req[h].again, id |-> t.id]
        PROVE  Alone'
    BY <1>3, <2>1, <2>5 DEF Find, Alone, Idle
  <2> QED BY <2>2, <2>3, <2>4, <2>5
<1>4. ASSUME NEW h \in Handlers, Drop(h) PROVE Alone'
  <2>1. \A g \in Handlers \ {h} : req'[g] = Idle
    BY <1>4, OnlyOne DEF Drop, Go, Types, Idle
  <2>2. \A t \in tokens' : t \in tokens /\ t.id # req[h].id
    BY <1>4 DEF Drop, Without
  <2>3. \A t \in tokens' : t.email # req[h].email
    BY <1>4, <2>2 DEF Alone, Drop
  <2>4. \/ req'[h] = Idle
        \/ req'[h] = [pc |-> "create", email |-> req[h].email, again |-> req[h].again]
    BY <1>4 DEF Drop, Go, Types
  <2> QED BY <2>1, <2>2, <2>3, <2>4 DEF Alone, Idle
<1>5. ASSUME NEW h \in Handlers, Create(h) PROVE Alone'
  <2>1. \A g \in Handlers \ {h} : req'[g] = Idle
    BY <1>5, OnlyOne DEF Create, Go, Types, Idle
  <2>2. req'[h].pc \in {"idle", "mail"}
    BY <1>5 DEF Create, Go, Types, Idle
  <2>3. \/ tokens' = tokens
        \/ \E r : tokens' = tokens \cup {r} /\ r.email = req[h].email
    <3>1. CASE req[h].again = NoRow
      <4>1. NewRow(req[h].email).email = req[h].email
        BY DEF NewRow
      <4> HIDE DEF NewRow
      <4> QED BY <1>5, <3>1, <4>1 DEF Create
    <3>2. CASE req[h].again # NoRow
      BY <1>5, <3>2 DEF Create, Numbered
    <3> QED BY <3>1, <3>2
  <2>4. \A s, t \in tokens' : s.email = t.email => s = t
    BY <1>5, <2>3 DEF Create, Alone
  <2> QED BY <2>1, <2>2, <2>4 DEF Alone, Idle
<1>6. ASSUME NEW h \in Handlers, Mail(h) PROVE Alone'
  BY <1>6 DEF Mail, Go, Types, Alone, Idle
<1>7. ASSUME NEW h \in Handlers, NEW id \in Ids, BeginUse(h, id) PROVE Alone'
  BY <1>7, BeginsAlone DEF BeginUse, Alone, Idle
<1>8. ASSUME NEW h \in Handlers, SetPassword(h) PROVE Alone'
  <2>1. \A g \in Handlers \ {h} : req'[g] = Idle
    BY <1>8, OnlyOne DEF SetPassword, Go, Types, Idle
  <2>2. req'[h].pc \in {"idle", "delete"}
    BY <1>8 DEF SetPassword, Go, Types, Idle
  <2> QED BY <1>8, <2>1, <2>2 DEF SetPassword, Alone, Idle
<1>9. ASSUME NEW h \in Handlers, Delete(h) PROVE Alone'
  BY <1>9 DEF Delete, Go, Types, Alone, AfterUse, Without, Idle
<1>10. ASSUME NEW r \in timers, Fire(r) PROVE Alone'
  BY <1>10 DEF Fire, Alone, Without
<1>11. CASE Tick
  BY <1>11 DEF Tick, Alone
<1>12. CASE Restart
  BY <1>12 DEF Restart, Alone, Idle
<1>13. CASE UNCHANGED vars
  BY <1>13 DEF vars, Alone
<1> QED
  BY <1>1, <1>2, <1>3, <1>4, <1>5, <1>6, <1>7, <1>8, <1>9, <1>10, <1>11, <1>12, <1>13
  DEF Next

\* An address has one token at most, for any number of addresses, as long as no two
\* requests are in progress at the same time.
THEOREM OneLinkEach == Spec => []OneLink
<1>1. Init => Numbered /\ AloneInv
  BY TokensAssumption DEF Init, Numbered, AloneInv, Alone, Idle
<1>2. TypeOK /\ Numbered /\ AloneInv /\ [Next]_vars => (Numbered /\ AloneInv)'
  BY NumberedKept, AloneKept
<1>3. AloneInv => OneLink
  BY DEF AloneInv, Alone, OneLink
<1> QED BY <1>1, <1>2, <1>3, TypeCorrect, PTL DEF Spec

-----------------------------------------------------------------------------
\* Every step keeps the ages: a row that goes by its timer is an hour old, one that
\* is dropped a minute, and one that was used leaves nothing to wait for.
LEMMA AgedKept ==
  TypeOK /\ Numbered /\ AloneInv /\ TimedInv /\ AgedInv /\ [Next]_vars => AgedInv'
<1> SUFFICES ASSUME Types, Past, Numbered, Alone, Timed, Aged, [Next]_vars,
                    {"cross", "repeat"} \cap events' = {}
             PROVE  Aged'
  BY Remembered DEF AloneInv, TimedInv, AgedInv, TypeOK
<1> USE TokensAssumption
<1>0. /\ \A t \in tokens : t.id \in Ids /\ t.email \in Emails /\ t.createdAt \in Nat
      /\ nextId \in Nat /\ now \in Nat
      /\ \A e \in Emails : asked[e] \in Int
  BY Keys DEF Types, Time, Never
<1>1. ASSUME NEW h \in Handlers, NEW e \in Emails, Ask(h, e) PROVE Aged'
  BY <1>1 DEF Ask, Begin, Go, Types, Aged
<1>2. ASSUME NEW h \in Handlers, NEW e \in Emails, AskAgain(h, e) PROVE FALSE
  BY <1>2 DEF AskAgain, Begin
<1>3. ASSUME NEW h \in Handlers, Find(h) PROVE Aged'
  <2>1. /\ \A g \in Handlers \ {h} : req'[g] = req[g]
        /\ \/ req'[h] = Idle
           \/ req'[h] = [pc |-> "create", email |-> req[h].email, again |-> req[h].again]
           \/ \E t \in tokens :
                /\ ~Young(t)
                /\ req'[h] = [pc |-> "drop", email |-> req[h].email,
                              again |-> req[h].again, id |-> t.id]
    BY <1>3 DEF Find, Go, Types
  <2>2. CASE req'[h] = Idle
    BY <1>3, <2>1, <2>2 DEF Find, Aged, Idle
  <2>3. CASE req'[h] = [pc |-> "create", email |-> req[h].email, again |-> req[h].again]
    BY <1>3, <2>1, <2>3 DEF Find, Aged
  <2>4. ASSUME NEW t \in tokens, ~Young(t),
               req'[h] = [pc |-> "drop", email |-> req[h].email,
                          again |-> req[h].again, id |-> t.id]
        PROVE  Aged'
    <3>1. now - t.createdAt >= Minute
      BY <1>0, <2>4 DEF Young
    <3>2. \A s \in tokens : s.id = t.id => s = t
      BY DEF Numbered
    <3>3. req'[h].id = t.id
      BY <2>4
    <3> QED BY <1>3, <2>1, <3>1, <3>2, <3>3 DEF Find, Aged
  <2> QED BY <2>1, <2>2, <2>3, <2>4
<1>4. ASSUME NEW h \in Handlers, Drop(h) PROVE Aged'
  <2>1. /\ \A g \in Handlers \ {h} : req'[g] = req[g]
        /\ req'[h].pc # "drop"
        /\ \A t \in tokens : t.id = req[h].id => now - t.createdAt >= Minute
        /\ \A t \in tokens : t \notin tokens' => t.id = req[h].id
        /\ tokens' \subseteq tokens
    BY <1>4 DEF Drop, Go, Types, Idle, Aged, Without
  <2>2. \A e \in Emails :
          \/ now - asked[e] >= Minute
          \/ \E t \in tokens' : t.email = e /\ t.createdAt = asked[e]
    BY <2>1 DEF Aged
  <2> QED BY <1>4, <2>1, <2>2 DEF Drop, Aged
<1>5. ASSUME NEW h \in Handlers, Create(h) PROVE Aged'
  <2>1. req[h].again = NoRow /\ req[h].email \in Emails
    BY <1>5, Keys DEF Create, Timed
  <2>2. /\ tokens' = tokens \cup {NewRow(req[h].email)}
        /\ asked' = [asked EXCEPT ![req[h].email] = now]
        /\ req' = [req EXCEPT ![h] = [pc |-> "mail", id |-> nextId]]
    BY <1>5, <2>1 DEF Create, Go
  <2>3. /\ NewRow(req[h].email).id = nextId
        /\ NewRow(req[h].email).email = req[h].email
        /\ NewRow(req[h].email).createdAt = now
    BY DEF NewRow
  <2> HIDE DEF NewRow
  <2>4. \A e \in Emails :
          \/ now - asked'[e] >= Minute
          \/ \E t \in tokens' : t.email = e /\ t.createdAt = asked'[e]
    <3> SUFFICES ASSUME NEW e \in Emails
                 PROVE  \/ now - asked'[e] >= Minute
                        \/ \E t \in tokens' : t.email = e /\ t.createdAt = asked'[e]
      OBVIOUS
    <3>1. CASE e = req[h].email
      BY <2>2, <2>3, <3>1 DEF Types
    <3>2. CASE e # req[h].email
      BY <2>2, <3>2 DEF Types, Aged
    <3> QED BY <3>1, <3>2
  <2>5. \A g \in Handlers \ {h} : req'[g].pc = "drop" =>
          \A t \in tokens' : t.id = req'[g].id => now - t.createdAt >= Minute
    BY <1>0, <2>2, <2>3, Keys DEF Types, Numbered, Aged, Ids
  <2>6. \A r \in timers, t \in tokens' : t.id = r.id => t.createdAt + Hour <= r.due
    BY <1>0, <2>2, <2>3, Keys DEF Numbered, Aged, Ids
  <2> QED BY <1>5, <2>2, <2>4, <2>5, <2>6 DEF Create, Types, Aged
<1>6. ASSUME NEW h \in Handlers, Mail(h) PROVE Aged'
  <2>1. /\ \A g \in Handlers \ {h} : req'[g] = req[g]
        /\ req'[h].pc # "drop"
        /\ UNCHANGED <<now, tokens, asked>>
    BY <1>6 DEF Mail, Go, Types, Idle
  <2>2. \A r \in timers' : r \in timers \/ r.due = now + Hour
    BY <1>6 DEF Mail, Delay
  <2>3. \A t \in tokens : t.createdAt <= now
    BY DEF Past
  <2>4. \A r \in timers', t \in tokens : t.id = r.id => t.createdAt + Hour <= r.due
    BY <1>0, <2>2, <2>3 DEF Aged
  <2> QED BY <2>1, <2>4 DEF Aged
<1>7. ASSUME NEW h \in Handlers, NEW id \in Ids, BeginUse(h, id) PROVE Aged'
  BY <1>7 DEF BeginUse, Begin, Go, Types, Aged
<1>8. ASSUME NEW h \in Handlers, SetPassword(h) PROVE Aged'
  <2>1. /\ \A g \in Handlers \ {h} : req'[g] = req[g]
        /\ req'[h].pc # "drop"
    BY <1>8 DEF SetPassword, Go, Types, Idle
  <2> QED BY <1>8, <2>1 DEF SetPassword, Aged
<1>9. ASSUME NEW h \in Handlers, Delete(h) PROVE Aged'
  <2>1. /\ \A g \in Handlers \ {h} : req'[g] = req[g]
        /\ req'[h].pc # "drop"
        /\ tokens' \subseteq tokens
        /\ \A t \in tokens : t \notin tokens' => t.id = req[h].id
    BY <1>9 DEF Delete, Go, Types, Idle, AfterUse, Without
  <2>2. now - Never >= Minute
    BY <1>0 DEF Never
  <2>3. \A e \in Emails :
          \/ now - asked'[e] >= Minute
          \/ \E t \in tokens' : t.email = e /\ t.createdAt = asked'[e]
    <3> SUFFICES ASSUME NEW e \in Emails
                 PROVE  \/ now - asked'[e] >= Minute
                        \/ \E t \in tokens' : t.email = e /\ t.createdAt = asked'[e]
      OBVIOUS
    <3>1. CASE \E t \in tokens : t.id = req[h].id /\ t.email = e
      BY <1>9, <2>2, <3>1 DEF Delete
    <3>2. CASE ~\E t \in tokens : t.id = req[h].id /\ t.email = e
      <4>1. asked'[e] = asked[e]
        BY <1>9, <3>2 DEF Delete
      <4> QED BY <2>1, <3>2, <4>1 DEF Aged
    <3> QED BY <3>1, <3>2
  <2> QED BY <1>9, <2>1, <2>3 DEF Delete, Aged
<1>10. ASSUME NEW r \in timers, Fire(r) PROVE Aged'
  <2>1. /\ UNCHANGED <<now, req, asked>>
        /\ timers' \subseteq timers
        /\ tokens' \subseteq tokens
        /\ \A t \in tokens : t \notin tokens' => t.id = r.id
        /\ r.due <= now
    BY <1>10 DEF Fire, Without
  <2>2. \A t \in tokens : t \notin tokens' => now - t.createdAt >= Minute
    BY <1>0, <2>1, Keys DEF Aged
  <2>3. \A e \in Emails :
          \/ now - asked[e] >= Minute
          \/ \E t \in tokens' : t.email = e /\ t.createdAt = asked[e]
    BY <2>2 DEF Aged
  <2> QED BY <2>1, <2>3 DEF Aged
<1>11. CASE Tick
  BY <1>0, <1>11 DEF Tick, Aged
<1>12. CASE Restart
  BY <1>12 DEF Restart, Aged, Idle
<1>13. CASE UNCHANGED vars
  BY <1>13 DEF vars, Aged
<1> QED
  BY <1>1, <1>2, <1>3, <1>4, <1>5, <1>6, <1>7, <1>8, <1>9, <1>10, <1>11, <1>12, <1>13
  DEF Next

\* A second link in the same minute is only for who used the first, for any number
\* of addresses, as long as requests do not cross and none is sent again.
THEOREM RateIsLimited == Spec => RateLimit
<1> DEFINE Waits == \A h \in Handlers :
       /\ req[h].pc = "create" /\ req'[h].pc = "mail"
       /\ {"cross", "repeat"} \cap events = {}
       => now - asked[req[h].email] >= Minute
       Inv == Numbered /\ AloneInv /\ AgedInv
<1>1. Init => Inv
  <2>1. Init => \A e \in Emails : now - asked[e] >= Minute
    <3> SUFFICES ASSUME Init, NEW e \in Emails PROVE now - asked[e] >= Minute
      OBVIOUS
    <3>1. now = 0 /\ asked[e] = -Hour - Minute /\ Hour \in Nat /\ Minute \in Nat
      BY TokensAssumption DEF Init, Never
    <3>2. 0 - (-Hour - Minute) >= Minute
      BY <3>1
    <3> QED BY <3>1, <3>2
  <2> QED BY <2>1, TokensAssumption
          DEF Init, Numbered, AloneInv, Alone, AgedInv, Aged, Idle
<1>2. TypeOK /\ TimedInv /\ Inv /\ [Next]_vars => Inv'
  BY NumberedKept, AloneKept, AgedKept
<1>3. TypeOK /\ Inv => [Waits]_vars
  <2> SUFFICES ASSUME Types, Inv, NEW h \in Handlers, req[h].pc = "create",
                      {"cross", "repeat"} \cap events = {}
               PROVE  now - asked[req[h].email] >= Minute
    BY DEF TypeOK
  <2>1. req[h].email \in Emails /\ \A t \in tokens : t.email # req[h].email
    BY Keys DEF AloneInv, Alone
  <2> QED BY <2>1 DEF AgedInv, Aged
<1> QED BY <1>1, <1>2, <1>3, TypeCorrect, TimersAgree, PTL DEF Spec, RateLimit

-----------------------------------------------------------------------------
\* Every step keeps the account of what was used.
LEMMA SpentKept ==
  TypeOK /\ Numbered /\ AloneInv /\ SpentInv /\ [Next]_vars => SpentInv'
<1> SUFFICES ASSUME Types, Numbered, Alone, Spent, [Next]_vars,
                    {"cross", "restart", "thrown"} \cap events' = {}
             PROVE  Spent'
  BY Remembered DEF AloneInv, SpentInv, TypeOK
<1> USE TokensAssumption
<1>0. \A t \in tokens : t.id \in Ids
  BY Keys
<1>1. ASSUME NEW h \in Handlers, NEW e \in Emails, Ask(h, e) PROVE Spent'
  BY <1>1, BeginsAlone DEF Ask, Spent, Idle
<1>2. ASSUME NEW h \in Handlers, NEW e \in Emails, AskAgain(h, e) PROVE Spent'
  <2>1. PICK t \in tokens : Begin(h, [pc |-> "find", email |-> e, again |-> t], {"repeat"})
    BY <1>2 DEF AskAgain
  <2>2. \A s \in tokens : used[s.id] = 0
    BY <2>1, BeginsAlone DEF Spent, Idle
  <2> QED BY <1>2, <2>1, <2>2, BeginsAlone DEF AskAgain, Spent, Idle
<1>3. ASSUME NEW h \in Handlers, Find(h) PROVE Spent'
  <2>1. /\ \A g \in Handlers \ {h} : req'[g] = req[g]
        /\ \/ req'[h] = Idle
           \/ req'[h] = [pc |-> "create", email |-> req[h].email, again |-> req[h].again]
           \/ \E i : req'[h] = [pc |-> "drop", email |-> req[h].email,
                                again |-> req[h].again, id |-> i]
    BY <1>3 DEF Find, Go, Types
  <2>2. CASE req'[h] = Idle
    BY <1>3, <2>1, <2>2 DEF Find, Spent, Idle
  <2>3. CASE req'[h] = [pc |-> "create", email |-> req[h].email, again |-> req[h].again]
    BY <1>3, <2>1, <2>3 DEF Find, Spent
  <2>4. ASSUME NEW i, req'[h] = [pc |-> "drop", email |-> req[h].email,
                                 again |-> req[h].again, id |-> i]
        PROVE  Spent'
    BY <1>3, <2>1, <2>4 DEF Find, Spent
  <2> QED BY <2>1, <2>2, <2>3, <2>4
<1>4. ASSUME NEW h \in Handlers, Drop(h) PROVE Spent'
  BY <1>4 DEF Drop, Go, Types, Spent, Without, Idle
<1>5. ASSUME NEW h \in Handlers, Create(h) PROVE Spent'
  <2>1. /\ req'[h].pc \in {"idle", "mail"}
        /\ \A g \in Handlers \ {h} : req'[g] = req[g]
        /\ used' = used
    BY <1>5 DEF Create, Go, Types, Idle
  <2>2. \A t \in tokens' : t \in tokens \/ used[t.id] = 0
    <3>1. CASE req[h].again = NoRow
      <4>1. nextId \in Ids /\ NewRow(req[h].email).id = nextId
        BY <1>5, <3>1 DEF Create, NewRow, Ids, Types
      <4>2. used[nextId] = 0
        BY <4>1 DEF Numbered, Ids
      <4> HIDE DEF NewRow
      <4> QED BY <1>5, <3>1, <4>1, <4>2 DEF Create
    <3>2. CASE req[h].again # NoRow
      BY <1>5, <3>2 DEF Create, Spent
    <3> QED BY <3>1, <3>2
  <2>3. \A t \in tokens' : used'[t.id] # 0 =>
          \E g \in Handlers : req'[g].pc = "delete" /\ req'[g].id = t.id
    BY <1>5, <2>1, <2>2 DEF Create, Spent
  <2> QED BY <2>1, <2>3 DEF Spent
<1>6. ASSUME NEW h \in Handlers, Mail(h) PROVE Spent'
  BY <1>6 DEF Mail, Go, Types, Spent, Idle
<1>7. ASSUME NEW h \in Handlers, NEW id \in Ids, BeginUse(h, id) PROVE Spent'
  <2>1. used[id] = 0
    BY <1>7, BeginsAlone DEF BeginUse, Exists, Spent, Idle
  <2> QED BY <1>7, <2>1, BeginsAlone DEF BeginUse, Spent, Idle
<1>8. ASSUME NEW h \in Handlers, SetPassword(h) PROVE Spent'
  <2>1. \A g \in Handlers \ {h} : req'[g] = Idle /\ req[g] = Idle
    BY <1>8, OnlyOne DEF SetPassword, Go, Types, Idle
  <2>2. req[h].id \in Ids /\ used[req[h].id] = 0
    BY <1>8, Keys DEF SetPassword, Spent
  <2>3. CASE used' = used /\ req'[h] = Idle
    BY <1>8, <2>1, <2>3 DEF SetPassword, Spent, Idle
  <2>4. CASE /\ used' = [used EXCEPT ![req[h].id] = 1]
             /\ req'[h] = [pc |-> "delete", id |-> req[h].id]
    <3>1. \A i \in Ids : used'[i] = IF i = req[h].id THEN 1 ELSE used[i]
      BY <2>2, <2>4 DEF Types
    <3>2. \A t \in tokens : used'[t.id] # 0 => t.id = req[h].id
      BY <1>0, <1>8, <2>1, <3>1 DEF SetPassword, Spent, Idle
    <3> QED BY <1>8, <2>1, <2>4, <3>1, <3>2 DEF SetPassword, Spent, Idle
  <2>5. "thrown" \notin events'
    OBVIOUS
  <2> QED BY <1>8, <2>2, <2>3, <2>4, <2>5 DEF SetPassword, Effect, Go, Types
<1>9. ASSUME NEW h \in Handlers, Delete(h) PROVE Spent'
  BY <1>9 DEF Delete, Go, Types, Spent, AfterUse, Without, Idle
<1>10. ASSUME NEW r \in timers, Fire(r) PROVE Spent'
  BY <1>10 DEF Fire, Spent, Without
<1>11. CASE Tick
  BY <1>11 DEF Tick, Spent
<1>12. CASE Restart
  BY <1>12 DEF Restart
<1>13. CASE UNCHANGED vars
  BY <1>13 DEF vars, Spent
<1> QED
  BY <1>1, <1>2, <1>3, <1>4, <1>5, <1>6, <1>7, <1>8, <1>9, <1>10, <1>11, <1>12, <1>13
  DEF Next

\* A link has its effect once, links that are sent again included, as long as
\* requests do not cross, the process does not restart in the middle of one and no use
\* ends by an exception after its effect.
THEOREM OneUseEach == Spec => []OneUse
<1> DEFINE Inv == Numbered /\ AloneInv /\ SpentInv
<1>1. Init => Inv
  BY TokensAssumption DEF Init, Numbered, AloneInv, Alone, SpentInv, Spent, Idle
<1>2. TypeOK /\ Inv /\ [Next]_vars => Inv'
  BY NumberedKept, AloneKept, SpentKept
<1>3. Inv => OneUse
  BY DEF SpentInv, Spent, OneUse
<1> QED BY <1>1, <1>2, <1>3, TypeCorrect, PTL DEF Spec
=============================================================================
