-------------------------- MODULE Selective_proofs ---------------------------
(***************************************************************************)
(* What a student has chosen is of his group and no more than its amount,  *)
(* moves make no discipline twice, and the page offers what the endpoint   *)
(* accepts: proved for any number of students, groups, disciplines and     *)
(* requests, in the circumstances each theorem names.                      *)
(***************************************************************************)
EXTENDS Selective, FiniteSetTheorems, TLAPS

Typed == TypeOK /\ Known

\* A discipline that is there stays as it is.
LEMMA Stays ==
  ASSUME Typed, [Next]_vars
  PROVE  \A i \in Ids : Exists(i) => discipline'[i] = discipline[i]
<1>1. ASSUME NEW h \in Handlers, Create(h)
      PROVE  \A i \in Ids : Exists(i) => discipline'[i] = discipline[i]
  BY <1>1 DEF Create, Exists, Typed, TypeOK
<1>2. CASE UNCHANGED discipline
  BY <1>2
<1> QED BY <1>1, <1>2 DEF Next, vars, Ask, ChangeGroup, Approve, Continue, ReadGroup, ReadChosen,
       Attach, Detach, ReadNew, Clear, Move, Put, Leave, RequestNewGroup

\* A request that has begun is a record.
LEMMA IsAsked ==
  ASSUME TypeOK, NEW h \in Handlers
  PROVE  /\ Busy(h) => req[h] \in Asked
         /\ req[h].pc # "idle" => Busy(h)
         /\ req[h] \in Request
BY DEF TypeOK, Request, Busy, Idle

\* The tables are typed after a step when the new request is and the others stay.
LEMMA StepTyped ==
  ASSUME Typed, NEW h \in Handlers, NEW r \in Request, Go(h, r),
         r # Idle => \A i \in r.ids : Exists(i),
         \A i \in Ids : Exists(i) => discipline'[i] = discipline[i],
         discipline' \in [Ids -> Rows \cup {None}],
         chosen' \in [Students -> SUBSET {i \in Ids : Exists(i)}],
         member' \in [Students -> [group : Groups, state : States]],
         events' \in [Students -> SUBSET {"cross", "moved", "file"}]
  PROVE  Typed'
<1> USE SelectiveAssumption
<1>1. \A i \in Ids : Exists(i) => Exists(i)'
  BY DEF Exists
<1>2. chosen' \in [Students -> SUBSET {i \in Ids : Exists(i)'}]
  BY <1>1
<1>3. req' \in [Handlers -> Request]
  BY DEF Typed, TypeOK, Go
<1>4. Known'
  <2> SUFFICES ASSUME NEW g \in Handlers, Busy(g)', NEW i \in req'[g].ids PROVE Exists(i)'
    BY DEF Known
  <2>0. i \in Ids
    BY <1>3 DEF Request, Asked, Busy
  <2>1. CASE g = h
    BY <2>0, <2>1, <1>1 DEF Go, Busy, Typed, TypeOK
  <2>2. CASE g # h
    BY <2>0, <2>2, <1>1 DEF Go, Busy, Typed, TypeOK, Known
  <2> QED BY <2>1, <2>2
<1> QED BY <1>2, <1>3, <1>4 DEF Typed, TypeOK, Exists

\* The same when only the request changes.
LEMMA FrameTyped ==
  ASSUME Typed, NEW h \in Handlers, NEW r \in Request, Go(h, r),
         r # Idle => \A i \in r.ids : Exists(i),
         UNCHANGED <<discipline, chosen, member, events>>
  PROVE  Typed'
BY StepTyped DEF Typed, TypeOK

\* A beginning keeps the types.
LEMMA BeginTyped ==
  ASSUME Typed, NEW h \in Handlers, NEW r \in Asked, \A i \in r.ids : Exists(i),
         Begin(h, r),
         UNCHANGED <<discipline, chosen>>,
         member' \in [Students -> [group : Groups, state : States]]
  PROVE  Typed'
<1>2. r \in Request /\ Go(h, r)
  BY DEF Begin, Request
<1>3. events' \in [Students -> SUBSET {"cross", "moved", "file"}]
  BY DEF Begin, Typed, TypeOK
<1> QED BY <1>2, <1>3, StepTyped DEF Typed, TypeOK

\* Every step keeps the types.
LEMMA TypesKept == Typed /\ [Next]_vars => Typed'
<1> SUFFICES ASSUME Typed, [Next]_vars PROVE Typed'
  OBVIOUS
<1> USE SelectiveAssumption
<1>t. /\ discipline \in [Ids -> Rows \cup {None}]
      /\ chosen \in [Students -> SUBSET {i \in Ids : Exists(i)}]
      /\ member \in [Students -> [group : Groups, state : States]]
      /\ events \in [Students -> SUBSET {"cross", "moved", "file"}]
      /\ TypeOK
  BY DEF Typed, TypeOK
<1>a. ASSUME NEW h \in Handlers, NEW pc, At(h, pc), pc # "idle"
      PROVE  /\ req[h] \in Asked /\ req[h].pc = pc /\ req[h].s \in Students
             /\ \A i \in req[h].ids : Exists(i)
             /\ req[h] \in Request
  BY <1>a, <1>t, IsAsked DEF At, Asked, Typed, Known
<1>i. Idle \in Request
  BY DEF Request
<1>1. ASSUME NEW h \in Handlers, NEW s \in Students, NEW op \in {"select", "deselect"},
             NEW ids \in SUBSET Ids, Ask(h, op, s, ids)
      PROVE  Typed'
  <2> DEFINE r == [op |-> op, pc |-> "group?", s |-> s, g |-> Home[s], ids |-> ids,
                   todo |-> {}, bot |-> FALSE]
  <2>1. r \in Asked
    BY DEF Asked
  <2>2. /\ Begin(h, r)
        /\ \A i \in r.ids : Exists(i)
        /\ UNCHANGED <<discipline, chosen, member>>
    BY <1>1 DEF Ask
  <2> HIDE DEF r
  <2> QED BY <2>1, <2>2, <1>t, BeginTyped
<1>2. ASSUME NEW h \in Handlers, NEW s \in Students, NEW g \in Groups, ChangeGroup(h, s, g)
      PROVE  Typed'
  <2> DEFINE r == [op |-> "change", pc |-> "chosen?", s |-> s, g |-> g, ids |-> {},
                   todo |-> {}, bot |-> FALSE]
  <2>1. r \in Asked
    BY DEF Asked
  <2>2. /\ Begin(h, r)
        /\ \A i \in r.ids : Exists(i)
        /\ UNCHANGED <<discipline, chosen, member>>
    BY <1>2 DEF ChangeGroup
  <2> HIDE DEF r
  <2> QED BY <2>1, <2>2, <1>t, BeginTyped
<1>3. ASSUME NEW h \in Handlers, NEW s \in Students, NEW bot \in BOOLEAN, Approve(h, s, bot)
      PROVE  Typed'
  <2> DEFINE r == [op |-> "put", pc |-> "group?", s |-> s, g |-> Home[s], ids |-> {},
                   todo |-> {}, bot |-> bot]
  <2>1. r \in Asked
    BY DEF Asked
  <2>2. /\ Begin(h, r)
        /\ \A i \in r.ids : Exists(i)
        /\ UNCHANGED <<discipline, chosen>>
    BY <1>3 DEF Approve
  <2>3. member' \in [Students -> [group : Groups, state : States]]
    BY <1>3, <1>t DEF Approve, States
  <2> HIDE DEF r
  <2> QED BY <2>1, <2>2, <2>3, BeginTyped
<1>4. ASSUME NEW h \in Handlers, ReadGroup(h) PROVE Typed'
  <2>a. req[h] \in Asked /\ req[h].s \in Students /\ \A i \in req[h].ids : Exists(i)
    BY <1>4, <1>a DEF ReadGroup
  <2> DEFINE g == member[req[h].s].group
             todo == {Row(g, f[1], f[2], TRUE) : f \in Files[req[h].s]}
  <2>g. g \in Groups
    BY <2>a, <1>t
  <2>f. \A f \in Files[req[h].s] : f[1] \in Subjects /\ f[2] \in Periods
    BY <2>a
  <2>e. \A f \in Files[req[h].s] : Row(g, f[1], f[2], TRUE) \in Rows
    BY <2>f, <2>g DEF Row, Rows
  <2>1. todo \in SUBSET Rows
    BY <2>e
  <2>2. ASSUME NEW r \in Asked, r.ids = req[h].ids, Go(h, r) PROVE Typed'
    BY <1>4, <2>2, <2>a, FrameTyped DEF ReadGroup, Request
  <2>3. /\ [req[h] EXCEPT !.pc = "put", !.todo = todo] \in Asked
        /\ [req[h] EXCEPT !.pc = "put", !.todo = todo].ids = req[h].ids
    BY <2>a, <2>1 DEF Asked
  <2>4. /\ [req[h] EXCEPT !.pc = "chosen?", !.g = g] \in Asked
        /\ [req[h] EXCEPT !.pc = "chosen?", !.g = g].ids = req[h].ids
    BY <2>a, <2>g DEF Asked
  <2>5. CASE Go(h, Idle)
    BY <1>4, <2>5, <1>i, FrameTyped DEF ReadGroup
  <2> QED BY <1>4, <2>2, <2>3, <2>4, <2>5 DEF ReadGroup
<1>5. ASSUME NEW h \in Handlers, ReadChosen(h) PROVE Typed'
  <2>a. req[h] \in Asked /\ req[h].s \in Students /\ \A i \in req[h].ids : Exists(i)
    BY <1>5, <1>a DEF ReadChosen
  <2>1. ASSUME NEW r \in Asked, \A i \in r.ids : Exists(i), Go(h, r) PROVE Typed'
    BY <1>5, <2>1, FrameTyped DEF ReadChosen, Request
  <2>2. /\ [req[h] EXCEPT !.pc = "attach"] \in Asked
        /\ [req[h] EXCEPT !.pc = "attach"].ids = req[h].ids
        /\ [req[h] EXCEPT !.pc = "detach"] \in Asked
        /\ [req[h] EXCEPT !.pc = "detach"].ids = req[h].ids
    BY <2>a DEF Asked
  <2>3. /\ [req[h] EXCEPT !.pc = "new?", !.ids = chosen[req[h].s]] \in Asked
        /\ \A i \in [req[h] EXCEPT !.pc = "new?", !.ids = chosen[req[h].s]].ids : Exists(i)
    BY <2>a, <1>t DEF Asked
  <2>4. CASE Go(h, Idle)
    BY <1>5, <2>4, <1>i, FrameTyped DEF ReadChosen
  <2> QED BY <1>5, <2>a, <2>1, <2>2, <2>3, <2>4 DEF ReadChosen
<1>6. ASSUME NEW h \in Handlers, Attach(h) PROVE Typed'
  <2>1. chosen' \in [Students -> SUBSET {i \in Ids : Exists(i)}]
    BY <1>6, <1>a, <1>t DEF Attach, Asked
  <2> QED BY <1>6, <1>i, <2>1, <1>t, StepTyped DEF Attach, Done
<1>7. ASSUME NEW h \in Handlers, Detach(h) PROVE Typed'
  <2>1. chosen' \in [Students -> SUBSET {i \in Ids : Exists(i)}]
    BY <1>7, <1>a, <1>t DEF Detach
  <2> QED BY <1>7, <1>i, <2>1, <1>t, StepTyped DEF Detach, Done
<1>8. ASSUME NEW h \in Handlers, ReadNew(h) PROVE Typed'
  <2>a. req[h] \in Asked /\ \A i \in req[h].ids : i \in Ids /\ discipline[i] \in Rows
    BY <1>8, <1>a, <1>t DEF ReadNew, Exists, Asked
  <2>1. Missing(req[h].ids, req[h].g) \in SUBSET Rows
    <3>1. req[h].g \in Groups
      BY <2>a DEF Asked
    <3>2. \A i \in req[h].ids : Row(req[h].g, discipline[i].subject, discipline[i].period, TRUE) \in Rows
      BY <2>a, <3>1 DEF Row, Rows
    <3> QED BY <3>2 DEF Missing
  <2>2. /\ [req[h] EXCEPT !.pc = "clear", !.todo = Missing(req[h].ids, req[h].g), !.ids = {}] \in Asked
        /\ [req[h] EXCEPT !.pc = "clear", !.todo = Missing(req[h].ids, req[h].g), !.ids = {}].ids = {}
    BY <2>a, <2>1 DEF Asked
  <2> QED BY <1>8, <2>2, FrameTyped DEF ReadNew, Request
<1>9. ASSUME NEW h \in Handlers, Clear(h) PROVE Typed'
  <2>1. chosen' \in [Students -> SUBSET {i \in Ids : Exists(i)}]
    BY <1>9, <1>a, <1>t DEF Clear
  <2>2. /\ [req[h] EXCEPT !.pc = "create"] \in Request
        /\ \A i \in [req[h] EXCEPT !.pc = "create"].ids : Exists(i)
    BY <1>9, <1>a, ZenonT(60) DEF Clear, Asked, Request
  <2> QED BY <1>9, <2>1, <2>2, <1>t, StepTyped DEF Clear
<1>10. ASSUME NEW h \in Handlers, Create(h) PROVE Typed'
  <2>a. req[h] \in Asked /\ \A i \in req[h].ids : Exists(i)
    BY <1>10, <1>a DEF Create
  <2>1. /\ [req[h] EXCEPT !.pc = "move"] \in Request
        /\ \A i \in [req[h] EXCEPT !.pc = "move"].ids : Exists(i)
    BY <2>a DEF Asked, Request
  <2>2. ASSUME NEW row \in req[h].todo
        PROVE  /\ row \in Rows
               /\ [req[h] EXCEPT !.todo = @ \ {row}] \in Request
               /\ \A i \in [req[h] EXCEPT !.todo = @ \ {row}].ids : Exists(i)
    BY <2>a DEF Asked, Request
  <2>3. discipline' \in [Ids -> Rows \cup {None}]
    BY <1>10, <2>2, <1>t DEF Create
  <2>4. \A i \in Ids : Exists(i) => discipline'[i] = discipline[i]
    BY Stays
  <2> QED BY <1>10, <2>1, <2>2, <2>3, <2>4, <1>t, StepTyped DEF Create
<1>11. ASSUME NEW h \in Handlers, Move(h) PROVE Typed'
  <2>1. member' \in [Students -> [group : Groups, state : States]]
    <3>1. req[h].s \in Students /\ req[h].g \in Groups
      BY <1>11, <1>a DEF Move, Asked
    <3>2. member[req[h].s] \in [group : Groups, state : States]
      BY <3>1, <1>t
    <3>3. [member[req[h].s] EXCEPT !.group = req[h].g] \in [group : Groups, state : States]
      BY <3>1, <3>2
    <3> QED BY <1>11, <3>1, <3>3, <1>t DEF Move
  <2> QED BY <1>11, <1>i, <2>1, <1>t, StepTyped DEF Move, Done
<1>12. ASSUME NEW h \in Handlers, Put(h) PROVE Typed'
  <2>a. req[h] \in Asked /\ req[h].s \in Students /\ \A i \in req[h].ids : Exists(i)
    BY <1>12, <1>a DEF Put
  <2>1. member' \in [Students -> [group : Groups, state : States]]
    <3>1. [member[req[h].s] EXCEPT !.state = "APPROVED"] \in [group : Groups, state : States]
      BY <2>a, <1>t, ZenonT(60) DEF States
    <3> QED BY <1>12, <2>a, <3>1, <1>t DEF Put
  <2>2. ASSUME NEW row \in req[h].todo
        PROVE  /\ row \in Rows
               /\ [req[h] EXCEPT !.todo = @ \ {row}] \in Request
               /\ \A i \in [req[h] EXCEPT !.todo = @ \ {row}].ids : Exists(i)
    BY <2>a DEF Asked, Request
  <2>3. ASSUME NEW row \in Rows, NEW i \in Ids, discipline[i] = row PROVE Exists(i)
    BY <2>3 DEF Exists
  <2>b. \/ UNCHANGED <<chosen, events>>
        \/ \E row \in req[h].todo, i \in Ids :
             /\ discipline[i] = row
             /\ chosen' = [chosen EXCEPT ![req[h].s] = @ \cup {i}]
             /\ events' = [events EXCEPT ![req[h].s] = @ \cup {"file"}]
    BY <1>12 DEF Put
  <2>4. chosen' \in [Students -> SUBSET {i \in Ids : Exists(i)}]
    <3>1. ASSUME NEW i \in Ids, Exists(i), chosen' = [chosen EXCEPT ![req[h].s] = @ \cup {i}]
          PROVE  chosen' \in [Students -> SUBSET {j \in Ids : Exists(j)}]
      BY <2>a, <3>1, <1>t
    <3> QED BY <2>b, <2>2, <2>3, <3>1, <1>t
  <2>5. events' \in [Students -> SUBSET {"cross", "moved", "file"}]
    <3>1. CASE events' = [events EXCEPT ![req[h].s] = @ \cup {"file"}]
      BY <2>a, <3>1, <1>t
    <3> QED BY <2>b, <3>1, <1>t
  <2>6. PICK r \in Request : Go(h, r) /\ (r # Idle => \A i \in r.ids : Exists(i))
    BY <1>12, <1>i, <2>2 DEF Put, Done
  <2>7. UNCHANGED discipline
    BY <1>12 DEF Put
  <2> QED BY <2>1, <2>4, <2>5, <2>6, <2>7, <1>t, StepTyped
<1>13. ASSUME NEW s \in Students, Leave(s) PROVE Typed'
  BY <1>13, <1>t DEF Leave, Typed, TypeOK, Known, Busy, Exists, States
<1>14. ASSUME NEW s \in Students, NEW g \in Groups, RequestNewGroup(s, g) PROVE Typed'
  BY <1>14, <1>t DEF RequestNewGroup, Typed, TypeOK, Known, Busy, Exists, States
<1>15. CASE UNCHANGED vars
  BY <1>15 DEF vars, Typed, TypeOK, Known, Busy, Exists
<1> QED BY <1>1, <1>2, <1>3, <1>4, <1>5, <1>6, <1>7, <1>8, <1>9, <1>10, <1>11, <1>12,
           <1>13, <1>14, <1>15 DEF Next, Continue

\* A request's own step: only what its student has and where he is may change, and
\* unless he is disturbed that stays in his group and the next step is ready.
LEMMA StepChoice ==
  ASSUME Typed, ChoiceInv, Typed', NEW h \in Handlers, Busy(h),
         NEW s \in Students, req[h].s = s,
         NEW r \in Request, Go(h, r), r # Idle => r.s = s,
         \A i \in Ids : Exists(i) => discipline'[i] = discipline[i],
         \A t \in Students : events[t] \subseteq events'[t],
         \A t \in Students \ {s} :
           chosen'[t] = chosen[t] /\ member'[t].group = member[t].group,
         Undisturbed(s)' =>
           /\ \A i \in chosen'[s] : discipline'[i].group = member'[s].group
           /\ r # Idle => Ready(r)'
  PROVE  ChoiceInv'
<1>t. /\ \A g \in Handlers : Busy(g) => req[g] \in Asked /\ req[g].s \in Students
      /\ \A t \in Students : chosen[t] \in SUBSET {i \in Ids : Exists(i)}
      /\ req \in [Handlers -> Request] /\ req'[h] = r
      /\ \A g \in Handlers \ {h} : req'[g] = req[g] /\ (Busy(g)' <=> Busy(g))
      /\ Busy(h)' <=> r # Idle
  BY IsAsked DEF Typed, TypeOK, Asked, Go, Busy
<1>u. \A t \in Students : Undisturbed(t)' => Undisturbed(t)
  BY DEF Undisturbed
<1>1. OwnGroup'
  <2> SUFFICES ASSUME NEW t \in Students, Undisturbed(t)', NEW i \in chosen'[t]
               PROVE  discipline'[i].group = member'[t].group
    BY DEF OwnGroup
  <2>1. CASE t = s
    BY <2>1
  <2>2. CASE t # s
    <3>1. chosen'[t] = chosen[t] /\ member'[t].group = member[t].group /\ Undisturbed(t)
      BY <2>2, <1>u
    <3>2. i \in Ids /\ Exists(i) /\ discipline[i].group = member[t].group
      BY <3>1, <1>t DEF ChoiceInv, OwnGroup
    <3> QED BY <3>1, <3>2
  <2> QED BY <2>1, <2>2
<1>2. Alone'
  <2> SUFFICES ASSUME NEW f \in Handlers, NEW g \in Handlers, f # g,
                      Busy(f)', Busy(g)', req'[f].s = req'[g].s
               PROVE  "cross" \in events'[req'[g].s]
    BY DEF Alone
  <2>1. Busy(f) /\ Busy(g) /\ req[f].s = req'[f].s /\ req[g].s = req'[g].s
    BY <1>t
  <2>2. "cross" \in events[req[g].s] /\ req[g].s \in Students
    BY <2>1, <1>t DEF ChoiceInv, Alone
  <2> QED BY <2>1, <2>2
<1>3. InHand'
  <2> SUFFICES ASSUME NEW g \in Handlers, Busy(g)', Undisturbed(req[g].s)' PROVE Ready(req[g])'
    BY DEF InHand
  <2>1. CASE g = h
    BY <2>1, <1>t DEF Ready, Belong, Undisturbed
  <2>2. CASE g # h
    <3>1. Busy(g) /\ req'[g] = req[g] /\ req[g] \in Asked /\ req[g].s \in Students
      BY <2>2, <1>t
    <3>2. Undisturbed(req[g].s) /\ "cross" \notin events[req[g].s]
      BY <3>1, <1>u DEF Undisturbed
    <3>3. req[g].s # s
      BY <2>2, <3>1, <3>2 DEF ChoiceInv, Alone
    <3>4. Ready(req[g]) /\ \A i \in req[g].ids : i \in Ids /\ Exists(i)
      BY <3>1, <3>2 DEF ChoiceInv, InHand, Typed, Known, Asked
    <3> QED BY <3>1, <3>3, <3>4 DEF Ready, Belong
  <2> QED BY <2>1, <2>2
<1> QED BY <1>1, <1>2, <1>3 DEF ChoiceInv, Typed

\* The same with the tables as they are.
LEMMA FrameChoice ==
  ASSUME Typed, ChoiceInv, Typed', NEW h \in Handlers, Busy(h),
         NEW s \in Students, req[h].s = s,
         NEW r \in Request, Go(h, r), r # Idle => r.s = s,
         Undisturbed(s) /\ r # Idle => Ready(r),
         UNCHANGED <<discipline, chosen, member, events>>
  PROVE  ChoiceInv'
<1>2. Undisturbed(s)' =>
        /\ \A i \in chosen'[s] : discipline'[i].group = member'[s].group
        /\ r # Idle => Ready(r)'
  BY DEF ChoiceInv, OwnGroup, Undisturbed, Ready, Belong
<1> QED BY <1>2, StepChoice

\* A beginning either crosses nothing or is remembered.
LEMMA BeginChoice ==
  ASSUME Typed, ChoiceInv, NEW h \in Handlers, NEW r \in Asked, Begin(h, r), Typed',
         r.pc = "group?" \/ (r.pc = "chosen?" /\ r.op = "change"),
         UNCHANGED <<discipline, chosen>>,
         \A s \in Students : member'[s].group = member[s].group
  PROVE  ChoiceInv'
<1>t. /\ events \in [Students -> SUBSET {"cross", "moved", "file"}]
      /\ \A g \in Handlers : Busy(g) => req[g] \in Asked /\ req[g].s \in Students
      /\ r.s \in Students
  BY IsAsked DEF Typed, TypeOK, Asked
<1>1. \A s \in Students : Undisturbed(s)' => Undisturbed(s)
  BY <1>t DEF Begin, Undisturbed
<1>2. OwnGroup'
  BY <1>1, <1>t DEF ChoiceInv, OwnGroup, Typed, TypeOK
<1>3. Alone'
  <2> SUFFICES ASSUME NEW f \in Handlers, NEW g \in Handlers, f # g,
                      Busy(f)', Busy(g)', req'[f].s = req'[g].s
               PROVE  "cross" \in events'[req'[g].s]
    BY DEF Alone
  <2>1. CASE f # h /\ g # h
    <3>1. Busy(f) /\ Busy(g) /\ req[f].s = req[g].s /\ req'[g] = req[g]
      BY <2>1 DEF Begin, Go, Busy, Typed, TypeOK
    <3>2. "cross" \in events[req[g].s]
      BY <3>1 DEF ChoiceInv, Alone
    <3> QED BY <3>1, <3>2, <1>t DEF Begin
  <2>2. ASSUME NEW e \in Handlers, e # h, Busy(e)', req'[e].s = r.s
        PROVE  "cross" \in events'[r.s]
    <3>1. Busy(e) /\ req[e].s = r.s
      BY <2>2 DEF Begin, Go, Busy, Typed, TypeOK
    <3>2. r.s \in Crossed(r.op, r.s)
      BY <3>1, <1>t DEF Crossed
    <3> QED BY <3>2, <1>t DEF Begin
  <2>3. req'[h] = r
    BY DEF Begin, Go, Typed, TypeOK
  <2> QED BY <2>1, <2>2, <2>3
<1>4. InHand'
  <2> SUFFICES ASSUME NEW g \in Handlers, Busy(g)', Undisturbed(req[g].s)' PROVE Ready(req[g])'
    BY DEF InHand
  <2>1. CASE g = h
    BY <2>1 DEF Begin, Go, Ready, Typed, TypeOK
  <2>2. CASE g # h
    <3>1. Busy(g) /\ req'[g] = req[g] /\ req[g].s \in Students
      BY <2>2, <1>t DEF Begin, Go, Busy, Typed, TypeOK
    <3>2. Ready(req[g])
      BY <3>1, <1>1 DEF ChoiceInv, InHand
    <3> QED BY <3>1, <3>2 DEF Ready, Belong
  <2> QED BY <2>1, <2>2
<1> QED BY <1>2, <1>3, <1>4 DEF ChoiceInv, Typed

\* Every step keeps what is chosen in the group.
LEMMA ChoiceKept == Typed /\ Typed' /\ ChoiceInv /\ [Next]_vars => ChoiceInv'
<1> SUFFICES ASSUME Typed, Typed', ChoiceInv, [Next]_vars PROVE ChoiceInv'
  OBVIOUS
<1>t. /\ chosen \in [Students -> SUBSET {i \in Ids : Exists(i)}]
      /\ member \in [Students -> [group : Groups, state : States]]
      /\ events \in [Students -> SUBSET {"cross", "moved", "file"}]
      /\ TypeOK
  BY DEF Typed, TypeOK
<1>a. ASSUME NEW h \in Handlers, NEW pc, At(h, pc), pc # "idle"
      PROVE  /\ Busy(h) /\ req[h] \in Asked /\ req[h].pc = pc /\ req[h].s \in Students
             /\ Undisturbed(req[h].s) => Ready(req[h])
             /\ \A i \in req[h].ids : i \in Ids /\ Exists(i)
  BY <1>a, <1>t, IsAsked DEF At, Asked, ChoiceInv, InHand, Typed, Known
<1>s. \A i \in Ids : Exists(i) => discipline'[i] = discipline[i]
  BY Stays
<1>i. Idle \in Request
  BY DEF Request
<1>f. ASSUME NEW h \in Handlers, NEW pc, At(h, pc), pc # "idle",
             NEW r \in Asked, r.s = req[h].s, Go(h, r), Undisturbed(req[h].s) => Ready(r),
             UNCHANGED <<discipline, chosen, member, events>>
      PROVE  ChoiceInv'
  <2> DEFINE s == req[h].s
  <2>1. s \in Students /\ Busy(h) /\ r \in Request
    BY <1>a, <1>f DEF Request
  <2> QED BY <1>f, <2>1, FrameChoice
<1>g. ASSUME NEW h \in Handlers, NEW pc, At(h, pc), pc # "idle", Go(h, Idle),
             UNCHANGED <<discipline, chosen, member, events>>
      PROVE  ChoiceInv'
  BY <1>a, <1>g, <1>i, FrameChoice
<1>1. ASSUME NEW h \in Handlers, NEW s \in Students, NEW op \in {"select", "deselect"},
             NEW ids \in SUBSET Ids, Ask(h, op, s, ids)
      PROVE  ChoiceInv'
  <2> DEFINE r == [op |-> op, pc |-> "group?", s |-> s, g |-> Home[s], ids |-> ids,
                   todo |-> {}, bot |-> FALSE]
  <2>1. r \in Asked /\ r.pc = "group?"
    BY SelectiveAssumption DEF Asked
  <2>2. Begin(h, r) /\ UNCHANGED <<discipline, chosen, member>>
    BY <1>1 DEF Ask
  <2> HIDE DEF r
  <2> QED BY <2>1, <2>2, BeginChoice
<1>2. ASSUME NEW h \in Handlers, NEW s \in Students, NEW g \in Groups, ChangeGroup(h, s, g)
      PROVE  ChoiceInv'
  <2> DEFINE r == [op |-> "change", pc |-> "chosen?", s |-> s, g |-> g, ids |-> {},
                   todo |-> {}, bot |-> FALSE]
  <2>1. r \in Asked /\ r.pc = "chosen?" /\ r.op = "change"
    BY DEF Asked
  <2>2. Begin(h, r) /\ UNCHANGED <<discipline, chosen, member>>
    BY <1>2 DEF ChangeGroup
  <2> HIDE DEF r
  <2> QED BY <2>1, <2>2, BeginChoice
<1>3. ASSUME NEW h \in Handlers, NEW s \in Students, NEW bot \in BOOLEAN, Approve(h, s, bot)
      PROVE  ChoiceInv'
  <2> DEFINE r == [op |-> "put", pc |-> "group?", s |-> s, g |-> Home[s], ids |-> {},
                   todo |-> {}, bot |-> bot]
  <2>1. r \in Asked /\ r.pc = "group?"
    BY SelectiveAssumption DEF Asked
  <2>2. Begin(h, r) /\ UNCHANGED <<discipline, chosen>>
    BY <1>3 DEF Approve
  <2>3. \A t \in Students : member'[t].group = member[t].group
    BY <1>3, <1>t DEF Approve
  <2> HIDE DEF r
  <2> QED BY <2>1, <2>2, <2>3, BeginChoice
<1>4. ASSUME NEW h \in Handlers, ReadGroup(h) PROVE ChoiceInv'
  <2>a. At(h, "group?") /\ req[h] \in Asked /\ req[h].s \in Students
    BY <1>4, <1>a DEF ReadGroup
  <2> DEFINE g == member[req[h].s].group
             put == [req[h] EXCEPT !.pc = "put",
                       !.todo = {Row(g, f[1], f[2], TRUE) : f \in Files[req[h].s]}]
             ask == [req[h] EXCEPT !.pc = "chosen?", !.g = g]
  <2>1. CASE Go(h, Idle)
    BY <1>4, <2>1, <2>a, <1>g DEF ReadGroup
  <2>2. CASE Go(h, put)
    <3>1. put \in Asked
      <4>1. g \in Groups /\ \A f \in Files[req[h].s] : f[1] \in Subjects /\ f[2] \in Periods
        BY <2>a, <1>t, SelectiveAssumption
      <4>2. \A f \in Files[req[h].s] : Row(g, f[1], f[2], TRUE) \in Rows
        BY <4>1 DEF Row, Rows
      <4>3. {Row(g, f[1], f[2], TRUE) : f \in Files[req[h].s]} \in SUBSET Rows
        BY <4>2
      <4> QED BY <2>a, <4>3 DEF Asked
    <3>2. put.s = req[h].s /\ put.pc = "put"
          /\ put.todo = {Row(g, f[1], f[2], TRUE) : f \in Files[req[h].s]}
      BY <2>a DEF Asked
    <3>3. Ready(put)
      BY <3>2 DEF Ready, Row
    <3> QED BY <1>4, <2>2, <2>a, <3>1, <3>2, <3>3, <1>f DEF ReadGroup
  <2>3. CASE Go(h, ask) /\ Belong(req[h].ids, g)
    <3>1. ask \in Asked /\ ask.s = req[h].s /\ ask.pc = "chosen?" /\ ask.ids = req[h].ids
      BY <2>a, <1>t DEF Asked
    <3>2. Ready(ask)
      BY <3>1, <2>3 DEF Ready
    <3> QED BY <1>4, <2>3, <2>a, <3>1, <3>2, <1>f DEF ReadGroup
  <2> QED BY <1>4, <2>1, <2>2, <2>3 DEF ReadGroup
<1>5. ASSUME NEW h \in Handlers, ReadChosen(h) PROVE ChoiceInv'
  <2>a. /\ At(h, "chosen?") /\ req[h] \in Asked /\ req[h].s \in Students /\ req[h].pc = "chosen?"
        /\ Undisturbed(req[h].s) => Ready(req[h])
    BY <1>5, <1>a DEF ReadChosen
  <2> DEFINE attach == [req[h] EXCEPT !.pc = "attach"]
             detach == [req[h] EXCEPT !.pc = "detach"]
             move == [req[h] EXCEPT !.pc = "new?", !.ids = chosen[req[h].s]]
  <2>1. CASE Go(h, Idle)
    BY <1>5, <2>1, <2>a, <1>g DEF ReadChosen
  <2>2. CASE Go(h, attach) /\ req[h].op = "select"
    <3>1. attach \in Asked /\ attach.s = req[h].s /\ attach.pc = "attach" /\ attach.ids = req[h].ids
      BY <2>a DEF Asked
    <3>2. Undisturbed(req[h].s) => Ready(attach)
      BY <2>a, <2>2, <3>1 DEF Ready
    <3> QED BY <1>5, <2>2, <2>a, <3>1, <3>2, <1>f DEF ReadChosen
  <2>3. CASE Go(h, detach)
    <3>1. detach \in Asked /\ detach.s = req[h].s /\ detach.pc = "detach"
      BY <2>a DEF Asked
    <3> QED BY <1>5, <2>3, <2>a, <3>1, <1>f DEF ReadChosen, Ready
  <2>4. CASE Go(h, move)
    <3>1. move \in Asked /\ move.s = req[h].s /\ move.pc = "new?"
      BY <2>a, <1>t DEF Asked
    <3> QED BY <1>5, <2>4, <2>a, <3>1, <1>f DEF ReadChosen, Ready
  <2> QED BY <1>5, <2>1, <2>2, <2>3, <2>4 DEF ReadChosen
<1>6. ASSUME NEW h \in Handlers, Attach(h) PROVE ChoiceInv'
  <2>a. /\ Busy(h) /\ UNCHANGED <<discipline, member, events>> /\ Go(h, Idle)
    BY <1>6, <1>a DEF Attach, Done
  <2>s. PICK s \in Students :
          s = req[h].s /\ (Undisturbed(s) => \A i \in req[h].ids : discipline[i].group = member[s].group)
    BY <1>6, <1>a DEF Attach, Ready, Belong
  <2>1. /\ \A t \in Students \ {s} : chosen'[t] = chosen[t]
        /\ chosen'[s] \subseteq chosen[s] \cup req[h].ids
    BY <1>6, <2>s, <1>t DEF Attach
  <2>2. Undisturbed(s)' => \A i \in chosen'[s] : discipline'[i].group = member'[s].group
    BY <2>a, <2>s, <2>1 DEF ChoiceInv, OwnGroup, Undisturbed
  <2> QED BY <2>a, <2>s, <2>1, <2>2, <1>i, <1>t, StepChoice
<1>7. ASSUME NEW h \in Handlers, Detach(h) PROVE ChoiceInv'
  <2>a. /\ Busy(h) /\ UNCHANGED <<discipline, member, events>> /\ Go(h, Idle)
    BY <1>7, <1>a DEF Detach, Done
  <2>s. PICK s \in Students : s = req[h].s
    BY <1>7, <1>a DEF Detach
  <2>1. /\ \A t \in Students \ {s} : chosen'[t] = chosen[t]
        /\ chosen'[s] \subseteq chosen[s]
    BY <1>7, <2>s, <1>t DEF Detach
  <2>2. Undisturbed(s)' => \A i \in chosen'[s] : discipline'[i].group = member'[s].group
    BY <2>a, <2>s, <2>1 DEF ChoiceInv, OwnGroup, Undisturbed
  <2> QED BY <2>a, <2>s, <2>1, <2>2, <1>i, <1>t, StepChoice
<1>8. ASSUME NEW h \in Handlers, ReadNew(h) PROVE ChoiceInv'
  <2> DEFINE r == [req[h] EXCEPT !.pc = "clear", !.todo = Missing(req[h].ids, req[h].g), !.ids = {}]
  <2>a. At(h, "new?") /\ req[h] \in Asked /\ Go(h, r) /\ UNCHANGED <<discipline, chosen, member, events>>
    BY <1>8, <1>a DEF ReadNew
  <2>1. r.s = req[h].s /\ r.pc = "clear"
    BY <2>a DEF Asked
  <2>2. r \in Asked
    <3>1. r \in Request
      BY <2>a DEF Typed, TypeOK, Go
    <3> QED BY <3>1, <2>1 DEF Request, Idle
  <2>3. Ready(r)
    BY <2>1 DEF Ready
  <2> HIDE DEF r
  <2> QED BY <2>a, <2>1, <2>2, <2>3, <1>f
<1>9. ASSUME NEW h \in Handlers, Clear(h) PROVE ChoiceInv'
  <2>a. Busy(h) /\ req[h] \in Asked /\ UNCHANGED <<discipline, member, events>>
    BY <1>9, <1>a DEF Clear
  <2>r. PICK r : Go(h, r) /\ r = [req[h] EXCEPT !.pc = "create"]
    BY <1>9 DEF Clear
  <2>s. PICK s \in Students : s = req[h].s
    BY <1>9, <1>a DEF Clear
  <2>1. chosen'[s] = {} /\ \A t \in Students \ {s} : chosen'[t] = chosen[t]
    BY <1>9, <2>s, <1>t DEF Clear
  <2>2. r \in Request /\ r.s = s /\ r.pc = "create"
    BY <2>a, <2>s, <2>r DEF Asked, Request
  <2>3. Ready(r)'
    BY <2>1, <2>2 DEF Ready
  <2> QED BY <2>a, <2>s, <2>r, <2>1, <2>2, <2>3, <1>t, StepChoice
<1>10. ASSUME NEW h \in Handlers, Create(h) PROVE ChoiceInv'
  <2>a. /\ Busy(h) /\ req[h] \in Asked /\ req[h].pc = "create" /\ UNCHANGED <<chosen, member, events>>
    BY <1>10, <1>a DEF Create
  <2>s. PICK s \in Students : s = req[h].s /\ (Undisturbed(s) => chosen[s] = {})
    BY <1>10, <1>a DEF Create, Ready
  <2>1. PICK r : Go(h, r) /\ (\/ r = [req[h] EXCEPT !.pc = "move"]
                              \/ \E row \in req[h].todo : r = [req[h] EXCEPT !.todo = @ \ {row}])
    BY <1>10 DEF Create
  <2>2. r \in Asked /\ r.s = s /\ r.pc \in {"create", "move"}
    BY <2>a, <2>s, <2>1 DEF Asked
  <2>3. Undisturbed(s)' => chosen'[s] = {}
    BY <2>a, <2>s DEF Undisturbed
  <2>4. Undisturbed(s)' => Ready(r)'
    BY <2>2, <2>3 DEF Ready
  <2>5. r \in Request
    BY <2>2 DEF Request
  <2> QED BY <2>a, <2>s, <2>1, <2>2, <2>3, <2>4, <2>5, <1>s, <1>t, StepChoice
<1>11. ASSUME NEW h \in Handlers, Move(h) PROVE ChoiceInv'
  <2>a. /\ Busy(h) /\ UNCHANGED <<discipline, chosen, events>> /\ Go(h, Idle)
    BY <1>11, <1>a DEF Move, Done
  <2>s. PICK s \in Students : s = req[h].s /\ (Undisturbed(s) => chosen[s] = {})
    BY <1>11, <1>a DEF Move, Ready
  <2>1. \A t \in Students \ {s} : member'[t] = member[t]
    BY <1>11, <2>s, <1>t DEF Move
  <2>2. Undisturbed(s)' => \A i \in chosen'[s] : discipline'[i].group = member'[s].group
    BY <2>a, <2>s DEF Undisturbed
  <2> QED BY <2>a, <2>s, <2>1, <2>2, <1>i, <1>t, StepChoice
<1>12. ASSUME NEW h \in Handlers, Put(h) PROVE ChoiceInv'
  <2>a. /\ Busy(h) /\ req[h] \in Asked /\ req[h].pc = "put" /\ UNCHANGED discipline
    BY <1>12, <1>a DEF Put
  <2>s. PICK s \in Students :
          /\ s = req[h].s
          /\ Undisturbed(s) => \A row \in req[h].todo : row.group = member[s].group
    BY <1>12, <1>a DEF Put, Ready
  <2>m. /\ \A t \in Students : member'[t].group = member[t].group
    <3>1. CASE member' = [member EXCEPT ![s].state = "APPROVED"]
      BY <3>1, <1>t
    <3>2. CASE UNCHANGED member
      BY <3>2
    <3> QED BY <1>12, <2>s, <3>1, <3>2 DEF Put
  <2>1. CASE req[h].todo = {} /\ Go(h, Idle) /\ UNCHANGED <<chosen, events>>
    <3>1. Undisturbed(s)' => \A i \in chosen'[s] : discipline'[i].group = member'[s].group
      BY <2>1, <2>a, <2>m DEF ChoiceInv, OwnGroup, Undisturbed
    <3> QED BY <2>1, <2>a, <2>s, <2>m, <3>1, <1>i, <1>t, StepChoice
  <2>2. ASSUME NEW row \in req[h].todo, Go(h, [req[h] EXCEPT !.todo = @ \ {row}]),
               \/ UNCHANGED <<chosen, events>>
               \/ \E i \in Ids : /\ discipline[i] = row
                                 /\ chosen' = [chosen EXCEPT ![s] = @ \cup {i}]
                                 /\ events' = [events EXCEPT ![s] = @ \cup {"file"}]
        PROVE  ChoiceInv'
    <3>r. PICK r : Go(h, r) /\ r = [req[h] EXCEPT !.todo = @ \ {row}]
      BY <2>2
    <3>0. PICK todo : todo = req[h].todo
      OBVIOUS
    <3>1. r \in Asked /\ r.s = s /\ r.pc = "put" /\ r.todo = todo \ {row}
      BY <2>a, <2>s, <3>r, <3>0 DEF Asked
    <3>2. /\ \A t \in Students : events[t] \subseteq events'[t]
          /\ Undisturbed(s)' => Undisturbed(s)
          /\ \A t \in Students \ {s} : chosen'[t] = chosen[t]
          /\ \A i \in chosen'[s] : i \in chosen[s] \/ discipline[i] = row
      BY <2>2, <1>t DEF Undisturbed
    <3>3. Undisturbed(s)' => \A i \in chosen'[s] : discipline'[i].group = member'[s].group
      BY <2>a, <2>s, <2>m, <3>2 DEF ChoiceInv, OwnGroup
    <3>4. Undisturbed(s)' => Ready(r)'
      BY <3>0, <3>1, <3>2, <2>s, <2>m DEF Ready
    <3>5. r \in Request /\ Go(h, r)
      BY <3>r, <3>1 DEF Request
    <3> QED BY <2>a, <2>s, <2>m, <3>1, <3>2, <3>3, <3>4, <3>5, <1>s, StepChoice
  <2> QED BY <1>12, <2>1, <2>2, <2>s DEF Put, Done
<1>13. ASSUME NEW s \in Students, Leave(s) PROVE ChoiceInv'
  <2>1. /\ \A t \in Students : member'[t].group = member[t].group
        /\ UNCHANGED <<discipline, chosen, req, events>>
    BY <1>13, <1>t DEF Leave
  <2>2. \A h \in Handlers : Busy(h) => req[h].s \in Students
    BY <1>t, IsAsked DEF Asked
  <2> QED BY <2>1, <2>2 DEF ChoiceInv, OwnGroup, Known, Alone, InHand, Ready, Belong,
                         Undisturbed, Busy, Exists
<1>14. ASSUME NEW s \in Students, NEW g \in Groups, RequestNewGroup(s, g) PROVE ChoiceInv'
  <2>1. /\ \A t \in Students \ {s} : member'[t] = member[t] /\ events'[t] = events[t]
        /\ events[s] \subseteq events'[s]
        /\ UNCHANGED <<discipline, chosen, req>>
    BY <1>14, <1>t DEF RequestNewGroup
  <2>2. \A h \in Handlers : Busy(h) => req[h].s \in Students
    BY <1>t, IsAsked DEF Asked
  <2>3. Undisturbed(s)' => chosen[s] = {} /\ \A h \in Handlers : Busy(h) => req[h].s # s
    <3>1. ASSUME NEW h \in Handlers, Busy(h), req[h].s = s PROVE s \in Crossed("request", s)
      BY <3>1 DEF Crossed
    <3> QED BY <1>14, <1>t, <3>1 DEF RequestNewGroup, Undisturbed
  <2>4. OwnGroup' /\ Known' /\ Alone'
    BY <2>1, <2>2, <2>3 DEF ChoiceInv, OwnGroup, Known, Alone, Undisturbed, Busy, Exists
  <2>5. InHand'
    BY <2>1, <2>2, <2>3 DEF ChoiceInv, InHand, Ready, Belong, Undisturbed, Busy
  <2> QED BY <2>4, <2>5 DEF ChoiceInv
<1>15. CASE UNCHANGED vars
  BY <1>15 DEF vars, ChoiceInv, OwnGroup, Known, Alone, InHand, Ready, Belong, Undisturbed, Busy, Exists
<1> QED BY <1>1, <1>2, <1>3, <1>4, <1>5, <1>6, <1>7, <1>8, <1>9, <1>10, <1>11, <1>12,
           <1>13, <1>14, <1>15 DEF Next, Continue

LEMMA Start == Init => Typed /\ ChoiceInv
<1> SUFFICES ASSUME Init PROVE Typed /\ ChoiceInv
  OBVIOUS
<1> USE SelectiveAssumption
<1>1. \A h \in Handlers : ~Busy(h)
  BY DEF Init, Busy
<1>2. TypeOK
  BY DEF Init, TypeOK, Request, States
<1>3. ChoiceInv
  BY <1>1 DEF Init, ChoiceInv, OwnGroup, Known, Alone, InHand
<1> QED BY <1>2, <1>3 DEF Typed, ChoiceInv

\* Types of the tables and of the requests in progress, for any instance: what a
\* request of selectDisciplines, changeGroup or putSelective stores exists.
THEOREM TypeCorrect == Spec => []TypeOK
<1>1. Typed /\ [Next]_vars => Typed'
  BY TypesKept
<1>2. Spec => []Typed
  BY Start, <1>1, PTL DEF Spec
<1>3. Typed => TypeOK
  BY DEF Typed
<1> QED BY <1>2, <1>3, PTL

\* The inductive invariant: requests that do not cross work on what is of the
\* student's group, from the check of checkDisciplinesBelongToGroup to the write.
THEOREM ChoiceInvariant == Spec => []ChoiceInv
<1>1. Typed /\ ChoiceInv /\ [Next]_vars => (Typed /\ ChoiceInv)'
  BY TypesKept, ChoiceKept
<1>2. Spec => [](Typed /\ ChoiceInv)
  BY Start, <1>1, PTL DEF Spec
<1> QED BY <1>2, PTL

\* Unless requests for a student crossed or he asked for another group with
\* disciplines chosen, everything he has chosen is of his group.
THEOREM ChosenOfOwnGroup == Spec => []OwnGroup
<1>1. ChoiceInv => OwnGroup
  BY DEF ChoiceInv
<1> QED BY <1>1, ChoiceInvariant, PTL

-----------------------------------------------------------------------------
(* What the page offers and what the endpoint accepts                      *)

\* Sets of ids have a size.
LEMMA Sizes ==
  ASSUME NEW ids \in SUBSET Ids, NEW p
  PROVE  /\ IsFiniteSet(ids) /\ Cardinality(ids) \in Nat
         /\ IsFiniteSet(InPeriod(ids, p)) /\ Cardinality(InPeriod(ids, p)) \in Nat
<1>1. IsFiniteSet(ids)
  BY SelectiveAssumption, FS_Subset
<1>2. InPeriod(ids, p) \subseteq ids
  BY DEF InPeriod
<1> QED BY <1>1, <1>2, FS_Subset, FS_CardinalityType

\* Whatever happened before, a set of disciplines of one period is accepted by
\* checkDisciplinesBelongToGroup, the check of what is chosen already and
\* checkExcessiveSelectiveDisciplines just when getRemainingSelective offers all of
\* them and has as many places left.
THEOREM OfferIsAccepted == Spec => []OfferedAccepted
<1>1. ASSUME TypeOK PROVE OfferedAccepted
  <2> SUFFICES ASSUME NEW s \in Students, NEW p \in Periods,
                      NEW ids \in SUBSET InPeriod({i \in Ids : Exists(i) /\ discipline[i].selective}, p),
                      ids # {}
               PROVE  (Belong(ids, member[s].group) /\ Accepts(member[s].group, chosen[s], ids))
                      <=> (ids \subseteq Remaining(s, p) /\ Cardinality(ids) <= Available(s, p))
    BY DEF OfferedAccepted
  <2> DEFINE g == member[s].group
  <2>t. g \in Groups /\ chosen[s] \in SUBSET Ids
    BY <1>1 DEF TypeOK
  <2>1. /\ ids \in SUBSET Ids
        /\ \A i \in ids : Exists(i) /\ discipline[i].selective /\ discipline[i].period = p
    BY DEF InPeriod
  <2>2. InPeriod(ids, p) = ids /\ \A q \in Periods \ {p} : InPeriod(ids, q) = {}
    BY <2>1 DEF InPeriod
  <2>3. /\ Cardinality(ids) \in Nat /\ Cardinality(InPeriod(chosen[s], p)) \in Nat
        /\ Amount[g][p] \in Nat
    <3>1. Amount[g][p] \in Nat
      BY <2>t, SelectiveAssumption
    <3> QED BY <3>1, <2>t, <2>1, Sizes
  <2>4. Fits(g, chosen[s], ids)
        <=> Cardinality(ids) + Cardinality(InPeriod(chosen[s], p)) <= Amount[g][p]
    BY <2>1, <2>2 DEF Fits
  <2>5. Fits(g, chosen[s], ids) <=> Cardinality(ids) <= Available(s, p)
    BY <2>3, <2>4 DEF Available
  <2>6. (Belong(ids, g) /\ ids \cap chosen[s] = {}) <=> ids \subseteq Remaining(s, p)
    BY <2>1 DEF Belong, Remaining, InPeriod, SelectiveOf
  <2> QED BY <2>5, <2>6 DEF Accepts
<1> QED BY <1>1, TypeCorrect, PTL

-----------------------------------------------------------------------------
(* No more than the amount of the group                                    *)

\* What a request of selectDisciplines has read is so still, as long as nobody crossed
\* it: the group when it has the disciplines, and that they fit when it stores them.
Weighed(r) ==
  /\ r.pc = "attach" \/ (r.pc = "chosen?" /\ r.op # "change") => r.g = member[r.s].group
  /\ r.pc = "attach" => Fits(r.g, chosen[r.s], r.ids)

\* Why a student has no more than the amount: besides, what a request read is so.
AmountInv ==
  /\ WithinAmount
  /\ \A h \in Handlers : Busy(h) /\ events[req[h].s] = {} => Weighed(req[h])

\* The amount for a student alone.
Within(s) ==
  \A p \in Periods : Cardinality(InPeriod(chosen[s], p)) <= Amount[member[s].group][p]

\* A request's own step, as StepChoice.
LEMMA StepAmount ==
  ASSUME Typed, ChoiceInv, AmountInv, Typed', NEW h \in Handlers, Busy(h),
         NEW s \in Students, req[h].s = s,
         NEW r \in Request, Go(h, r), r # Idle => r.s = s,
         \A i \in Ids : Exists(i) => discipline'[i] = discipline[i],
         \A t \in Students : events[t] \subseteq events'[t],
         \A t \in Students \ {s} :
           chosen'[t] = chosen[t] /\ member'[t].group = member[t].group,
         events'[s] = {} => Within(s)' /\ (r # Idle => Weighed(r)')
  PROVE  AmountInv'
<1>t. /\ \A g \in Handlers : Busy(g) => req[g] \in Asked /\ req[g].s \in Students
      /\ \A t \in Students : chosen[t] \in SUBSET {i \in Ids : Exists(i)}
      /\ req \in [Handlers -> Request] /\ req'[h] = r
      /\ \A g \in Handlers \ {h} : req'[g] = req[g] /\ (Busy(g)' <=> Busy(g))
      /\ Busy(h)' <=> r # Idle
  BY IsAsked DEF Typed, TypeOK, Asked, Go, Busy
<1>p. ASSUME NEW ids \in SUBSET {i \in Ids : Exists(i)}, NEW q
      PROVE  InPeriod(ids, q)' = InPeriod(ids, q)
  BY DEF InPeriod
<1>1. WithinAmount'
  <2> SUFFICES ASSUME NEW t \in Students, NEW p \in Periods, events'[t] = {}
               PROVE  (Cardinality(InPeriod(chosen[t], p)) <= Amount[member[t].group][p])'
    BY DEF WithinAmount
  <2>1. CASE t = s
    BY <2>1 DEF Within
  <2>2. CASE t # s
    <3>1. chosen'[t] = chosen[t] /\ member'[t].group = member[t].group /\ events[t] = {}
      BY <2>2
    <3>2. InPeriod(chosen[t], p)' = InPeriod(chosen[t], p)
      BY <3>1, <1>t DEF InPeriod
    <3>3. Cardinality(InPeriod(chosen[t], p)) <= Amount[member[t].group][p]
      BY <3>1 DEF AmountInv, WithinAmount
    <3> QED BY <3>1, <3>2, <3>3
  <2> QED BY <2>1, <2>2
<1>2. ASSUME NEW g \in Handlers, Busy(g)', events'[req'[g].s] = {} PROVE Weighed(req[g])'
  <2>1. CASE g = h
    BY <2>1, <1>2, <1>t DEF Weighed, Fits, InPeriod
  <2>2. CASE g # h
    <3>1. Busy(g) /\ req'[g] = req[g] /\ req[g] \in Asked /\ req[g].s \in Students
      BY <2>2, <1>2, <1>t
    <3>2. events[req[g].s] = {}
      BY <3>1, <1>2
    <3>3. req[g].s # s
      BY <2>2, <3>1, <3>2 DEF ChoiceInv, Alone
    <3>4. Weighed(req[g]) /\ req[g].ids \in SUBSET {i \in Ids : Exists(i)}
      BY <3>1, <3>2 DEF AmountInv, Typed, Known, Asked
    <3>5. \A q : InPeriod(req[g].ids, q)' = InPeriod(req[g].ids, q)
      BY <3>1, <3>4 DEF InPeriod
    <3>6. \A q : InPeriod(chosen[req[g].s], q)' = InPeriod(chosen[req[g].s], q)
      BY <3>1, <3>3, <1>t DEF InPeriod
    <3> QED BY <3>1, <3>3, <3>4, <3>5, <3>6 DEF Weighed, Fits
  <2> QED BY <2>1, <2>2
<1> QED BY <1>1, <1>2 DEF AmountInv

\* The same with the tables as they are.
LEMMA FrameAmount ==
  ASSUME Typed, ChoiceInv, AmountInv, Typed', NEW h \in Handlers, Busy(h),
         NEW s \in Students, req[h].s = s,
         NEW r \in Request, Go(h, r), r # Idle => r.s = s,
         events[s] = {} /\ r # Idle => Weighed(r),
         UNCHANGED <<discipline, chosen, member, events>>
  PROVE  AmountInv'
<1>1. events'[s] = {} => Within(s)'
  BY DEF AmountInv, WithinAmount, Within, InPeriod
<1>2. events'[s] = {} => (r # Idle => Weighed(r)')
  BY DEF Weighed, Fits, InPeriod
<1> QED BY <1>1, <1>2, StepAmount

\* A beginning has weighed nothing yet.
LEMMA BeginAmount ==
  ASSUME Typed, AmountInv, NEW h \in Handlers, NEW r \in Asked, Begin(h, r), Typed',
         r.pc = "group?" \/ (r.pc = "chosen?" /\ r.op = "change"),
         UNCHANGED <<discipline, chosen>>,
         \A s \in Students : member'[s].group = member[s].group
  PROVE  AmountInv'
<1>t. /\ events \in [Students -> SUBSET {"cross", "moved", "file"}]
      /\ \A g \in Handlers : Busy(g) => req[g] \in Asked /\ req[g].s \in Students
      /\ r.s \in Students
  BY IsAsked DEF Typed, TypeOK, Asked
<1>1. \A s \in Students : events'[s] = {} => events[s] = {}
  BY <1>t DEF Begin
<1>2. WithinAmount'
  <2> SUFFICES ASSUME NEW t \in Students, NEW p \in Periods, events'[t] = {}
               PROVE  (Cardinality(InPeriod(chosen[t], p)) <= Amount[member[t].group][p])'
    BY DEF WithinAmount
  <2>1. Cardinality(InPeriod(chosen[t], p)) <= Amount[member[t].group][p]
    BY <1>1 DEF AmountInv, WithinAmount
  <2>2. InPeriod(chosen[t], p)' = InPeriod(chosen[t], p)
    BY DEF InPeriod
  <2> QED BY <2>1, <2>2
<1>3. ASSUME NEW g \in Handlers, Busy(g)', events'[req'[g].s] = {} PROVE Weighed(req[g])'
  <2>1. CASE g = h
    BY <2>1 DEF Begin, Go, Weighed, Typed, TypeOK
  <2>2. CASE g # h
    <3>1. Busy(g) /\ req'[g] = req[g] /\ req[g].s \in Students
      BY <1>3, <2>2, <1>t DEF Begin, Go, Busy, Typed, TypeOK
    <3>2. Weighed(req[g])
      BY <3>1, <1>1, <1>3 DEF AmountInv
    <3> QED BY <3>1, <3>2 DEF Weighed, Fits, InPeriod
  <2> QED BY <2>1, <2>2
<1> QED BY <1>2, <1>3 DEF AmountInv

\* Storing what fits leaves no more than the amount.
LEMMA FittingFits ==
  ASSUME Typed, NEW g \in Groups, NEW old \in SUBSET Ids, NEW ids \in SUBSET Ids,
         Fits(g, old, ids), NEW p \in Periods, Cardinality(InPeriod(old, p)) <= Amount[g][p]
  PROVE  Cardinality(InPeriod(old \cup ids, p)) <= Amount[g][p]
<1>1. InPeriod(old \cup ids, p) = InPeriod(old, p) \cup InPeriod(ids, p)
  BY DEF InPeriod
<1>2. CASE InPeriod(ids, p) = {}
  BY <1>1, <1>2
<1>3. CASE InPeriod(ids, p) # {}
  <2> DEFINE new == InPeriod(ids, p)
             had == InPeriod(old, p)
  <2>1. Cardinality(new) + Cardinality(had) <= Amount[g][p]
    BY <1>3 DEF Fits
  <2>2. IsFiniteSet(new) /\ IsFiniteSet(had) /\ Cardinality(new) \in Nat /\ Cardinality(had) \in Nat
    BY Sizes
  <2>3. Amount[g][p] \in Nat
    BY SelectiveAssumption
  <2> HIDE DEF new, had
  <2>4. IsFiniteSet(had \cap new)
    BY <2>2, FS_Intersection
  <2>5. Cardinality(had \cap new) \in Nat
    BY <2>4, FS_CardinalityType
  <2>6. Cardinality(had \cup new) = Cardinality(had) + Cardinality(new) - Cardinality(had \cap new)
    BY <2>2, FS_Union
  <2>7. Cardinality(had \cup new) <= Amount[g][p]
    BY <2>1, <2>2, <2>3, <2>5, <2>6
  <2> QED BY <1>1, <2>7 DEF new, had
<1> QED BY <1>2, <1>3

\* Every step keeps the amount.
LEMMA AmountKept == Typed /\ Typed' /\ ChoiceInv /\ AmountInv /\ [Next]_vars => AmountInv'
<1> SUFFICES ASSUME Typed, Typed', ChoiceInv, AmountInv, [Next]_vars PROVE AmountInv'
  OBVIOUS
<1>t. /\ chosen \in [Students -> SUBSET {i \in Ids : Exists(i)}]
      /\ member \in [Students -> [group : Groups, state : States]]
      /\ events \in [Students -> SUBSET {"cross", "moved", "file"}]
      /\ TypeOK
  BY DEF Typed, TypeOK
<1>a. ASSUME NEW h \in Handlers, NEW pc, At(h, pc), pc # "idle"
      PROVE  /\ Busy(h) /\ req[h] \in Asked /\ req[h].pc = pc /\ req[h].s \in Students
             /\ events[req[h].s] = {} => Ready(req[h]) /\ Weighed(req[h])
             /\ \A i \in req[h].ids : i \in Ids /\ Exists(i)
  BY <1>a, <1>t, IsAsked DEF At, Asked, ChoiceInv, AmountInv, InHand, Typed, Known, Undisturbed
<1>s. \A i \in Ids : Exists(i) => discipline'[i] = discipline[i]
  BY Stays
<1>i. Idle \in Request
  BY DEF Request
<1>w. ASSUME NEW s \in Students, events[s] = {} PROVE Within(s)
  BY <1>w DEF AmountInv, WithinAmount, Within
<1>n. ASSUME NEW s \in Students, chosen'[s] = {}, Typed' PROVE Within(s)'
  <2>1. \A p : InPeriod(chosen[s], p)' = {}
    BY <1>n DEF InPeriod
  <2>2. \A p \in Periods : Amount[member'[s].group][p] \in Nat
    BY SelectiveAssumption DEF Typed, TypeOK
  <2> QED BY <2>1, <2>2, FS_EmptySet DEF Within
<1>f. ASSUME NEW h \in Handlers, NEW pc, At(h, pc), pc # "idle",
             NEW r \in Asked, r.s = req[h].s, Go(h, r), events[req[h].s] = {} => Weighed(r),
             UNCHANGED <<discipline, chosen, member, events>>
      PROVE  AmountInv'
  <2> DEFINE s == req[h].s
  <2>1. s \in Students /\ Busy(h) /\ r \in Request
    BY <1>a, <1>f DEF Request
  <2> QED BY <1>f, <2>1, FrameAmount
<1>g. ASSUME NEW h \in Handlers, NEW pc, At(h, pc), pc # "idle", Go(h, Idle),
             UNCHANGED <<discipline, chosen, member, events>>
      PROVE  AmountInv'
  BY <1>a, <1>g, <1>i, FrameAmount
<1>1. ASSUME NEW h \in Handlers, NEW s \in Students, NEW op \in {"select", "deselect"},
             NEW ids \in SUBSET Ids, Ask(h, op, s, ids)
      PROVE  AmountInv'
  <2> DEFINE r == [op |-> op, pc |-> "group?", s |-> s, g |-> Home[s], ids |-> ids,
                   todo |-> {}, bot |-> FALSE]
  <2>1. r \in Asked /\ r.pc = "group?"
    BY SelectiveAssumption DEF Asked
  <2>2. Begin(h, r) /\ UNCHANGED <<discipline, chosen, member>>
    BY <1>1 DEF Ask
  <2> HIDE DEF r
  <2> QED BY <2>1, <2>2, BeginAmount
<1>2. ASSUME NEW h \in Handlers, NEW s \in Students, NEW g \in Groups, ChangeGroup(h, s, g)
      PROVE  AmountInv'
  <2> DEFINE r == [op |-> "change", pc |-> "chosen?", s |-> s, g |-> g, ids |-> {},
                   todo |-> {}, bot |-> FALSE]
  <2>1. r \in Asked /\ r.pc = "chosen?" /\ r.op = "change"
    BY DEF Asked
  <2>2. Begin(h, r) /\ UNCHANGED <<discipline, chosen, member>>
    BY <1>2 DEF ChangeGroup
  <2> HIDE DEF r
  <2> QED BY <2>1, <2>2, BeginAmount
<1>3. ASSUME NEW h \in Handlers, NEW s \in Students, NEW bot \in BOOLEAN, Approve(h, s, bot)
      PROVE  AmountInv'
  <2> DEFINE r == [op |-> "put", pc |-> "group?", s |-> s, g |-> Home[s], ids |-> {},
                   todo |-> {}, bot |-> bot]
  <2>1. r \in Asked /\ r.pc = "group?"
    BY SelectiveAssumption DEF Asked
  <2>2. Begin(h, r) /\ UNCHANGED <<discipline, chosen>>
    BY <1>3 DEF Approve
  <2>3. \A t \in Students : member'[t].group = member[t].group
    BY <1>3, <1>t DEF Approve
  <2> HIDE DEF r
  <2> QED BY <2>1, <2>2, <2>3, BeginAmount
<1>4. ASSUME NEW h \in Handlers, ReadGroup(h) PROVE AmountInv'
  <2>a. At(h, "group?") /\ req[h] \in Asked /\ req[h].s \in Students
    BY <1>4, <1>a DEF ReadGroup
  <2> DEFINE g == member[req[h].s].group
             todo == {Row(g, f[1], f[2], TRUE) : f \in Files[req[h].s]}
             put == [req[h] EXCEPT !.pc = "put", !.todo = todo]
             ask == [req[h] EXCEPT !.pc = "chosen?", !.g = g]
  <2>1. CASE Go(h, Idle)
    BY <1>4, <2>1, <2>a, <1>g DEF ReadGroup
  <2>2. CASE Go(h, put)
    <3>1. put.s = req[h].s /\ put.pc = "put"
      BY <2>a DEF Asked
    <3>2. put \in Asked
      <4>1. put \in Request
        BY <2>2 DEF Typed, TypeOK, Go
      <4> QED BY <4>1, <3>1 DEF Request, Idle
    <3>3. Weighed(put)
      BY <3>1 DEF Weighed
    <3> QED BY <1>4, <2>2, <2>a, <3>1, <3>2, <3>3, <1>f DEF ReadGroup
  <2>3. CASE Go(h, ask)
    <3>1. ask \in Asked /\ ask.s = req[h].s /\ ask.pc = "chosen?" /\ ask.g = g
      BY <2>a, <1>t DEF Asked
    <3>2. Weighed(ask)
      BY <3>1 DEF Weighed
    <3> QED BY <1>4, <2>3, <2>a, <3>1, <3>2, <1>f DEF ReadGroup
  <2> QED BY <1>4, <2>1, <2>2, <2>3 DEF ReadGroup
<1>5. ASSUME NEW h \in Handlers, ReadChosen(h) PROVE AmountInv'
  <2>a. /\ At(h, "chosen?") /\ req[h] \in Asked /\ req[h].s \in Students /\ req[h].pc = "chosen?"
        /\ events[req[h].s] = {} => Weighed(req[h])
    BY <1>5, <1>a DEF ReadChosen
  <2> DEFINE attach == [req[h] EXCEPT !.pc = "attach"]
             detach == [req[h] EXCEPT !.pc = "detach"]
             move == [req[h] EXCEPT !.pc = "new?", !.ids = chosen[req[h].s]]
  <2>1. CASE Go(h, Idle)
    BY <1>5, <2>1, <2>a, <1>g DEF ReadChosen
  <2>2. CASE Go(h, attach) /\ req[h].op = "select" /\ Accepts(req[h].g, chosen[req[h].s], req[h].ids)
    <3>1. /\ attach \in Asked /\ attach.s = req[h].s /\ attach.pc = "attach"
          /\ attach.ids = req[h].ids /\ attach.g = req[h].g
      BY <2>a DEF Asked
    <3>2. events[req[h].s] = {} => Weighed(attach)
      BY <2>a, <2>2, <3>1 DEF Weighed, Accepts
    <3> QED BY <1>5, <2>2, <2>a, <3>1, <3>2, <1>f DEF ReadChosen
  <2>3. CASE Go(h, detach)
    <3>1. detach \in Asked /\ detach.s = req[h].s /\ detach.pc = "detach"
      BY <2>a DEF Asked
    <3> QED BY <1>5, <2>3, <2>a, <3>1, <1>f DEF ReadChosen, Weighed
  <2>4. CASE Go(h, move)
    <3>1. move \in Asked /\ move.s = req[h].s /\ move.pc = "new?"
      BY <2>a, <1>t DEF Asked
    <3> QED BY <1>5, <2>4, <2>a, <3>1, <1>f DEF ReadChosen, Weighed
  <2> QED BY <1>5, <2>1, <2>2, <2>3, <2>4 DEF ReadChosen
<1>6. ASSUME NEW h \in Handlers, Attach(h) PROVE AmountInv'
  <2>a. /\ Busy(h) /\ UNCHANGED <<discipline, member, events>> /\ Go(h, Idle)
        /\ req[h].ids \in SUBSET Ids
    BY <1>6, <1>a DEF Attach, Done
  <2>s. PICK s \in Students :
          /\ s = req[h].s
          /\ events[s] = {} => /\ req[h].g = member[s].group
                               /\ Fits(req[h].g, chosen[s], req[h].ids)
    BY <1>6, <1>a DEF Attach, Weighed
  <2>1. /\ \A t \in Students \ {s} : chosen'[t] = chosen[t]
        /\ chosen'[s] = chosen[s] \/ chosen'[s] = chosen[s] \cup req[h].ids
    BY <1>6, <2>s, <1>t DEF Attach
  <2>2. events'[s] = {} => Within(s)'
    <3> SUFFICES ASSUME events[s] = {} PROVE Within(s)'
      BY <2>a
    <3>1. Within(s)
      BY <1>w
    <3>2. CASE chosen'[s] = chosen[s]
      BY <3>1, <3>2, <2>a DEF Within, InPeriod
    <3>3. CASE chosen'[s] = chosen[s] \cup req[h].ids
      <4>1. member[s].group \in Groups /\ chosen[s] \in SUBSET Ids
        BY <1>t
      <4>2. \A p \in Periods : Cardinality(InPeriod(chosen[s] \cup req[h].ids, p)) <= Amount[member[s].group][p]
        BY <4>1, <2>a, <2>s, <3>1, FittingFits DEF Within
      <4> QED BY <4>2, <3>3, <2>a DEF Within, InPeriod
    <3> QED BY <2>1, <3>2, <3>3
  <2> QED BY <2>a, <2>s, <2>1, <2>2, <1>i, <1>t, StepAmount
<1>7. ASSUME NEW h \in Handlers, Detach(h) PROVE AmountInv'
  <2>a. /\ Busy(h) /\ UNCHANGED <<discipline, member, events>> /\ Go(h, Idle)
    BY <1>7, <1>a DEF Detach, Done
  <2>s. PICK s \in Students : s = req[h].s
    BY <1>7, <1>a DEF Detach
  <2>1. /\ \A t \in Students \ {s} : chosen'[t] = chosen[t]
        /\ chosen'[s] \subseteq chosen[s]
    BY <1>7, <2>s, <1>t DEF Detach
  <2>2. events'[s] = {} => Within(s)'
    <3> SUFFICES ASSUME events[s] = {} PROVE Within(s)'
      BY <2>a
    <3> SUFFICES ASSUME NEW p \in Periods
                 PROVE  Cardinality(InPeriod(chosen'[s], p)) <= Amount[member[s].group][p]
      BY <2>a DEF Within, InPeriod
    <3>1. Cardinality(InPeriod(chosen[s], p)) <= Amount[member[s].group][p]
      BY <1>w DEF Within
    <3>2. InPeriod(chosen'[s], p) \in SUBSET InPeriod(chosen[s], p)
      BY <2>1 DEF InPeriod
    <3>3. chosen[s] \in SUBSET Ids /\ chosen'[s] \in SUBSET Ids
      BY <1>t, <2>1
    <3>4. /\ IsFiniteSet(InPeriod(chosen[s], p))
          /\ Cardinality(InPeriod(chosen[s], p)) \in Nat /\ Cardinality(InPeriod(chosen'[s], p)) \in Nat
      BY <3>3, Sizes
    <3>5. Cardinality(InPeriod(chosen'[s], p)) <= Cardinality(InPeriod(chosen[s], p))
      BY <3>2, <3>4, FS_Subset
    <3>6. Amount[member[s].group][p] \in Nat
      BY <1>t, SelectiveAssumption
    <3> QED BY <3>1, <3>4, <3>5, <3>6
  <2> QED BY <2>a, <2>s, <2>1, <2>2, <1>i, <1>t, StepAmount
<1>8. ASSUME NEW h \in Handlers, ReadNew(h) PROVE AmountInv'
  <2> DEFINE r == [req[h] EXCEPT !.pc = "clear", !.todo = Missing(req[h].ids, req[h].g), !.ids = {}]
  <2>a. At(h, "new?") /\ req[h] \in Asked /\ Go(h, r) /\ UNCHANGED <<discipline, chosen, member, events>>
    BY <1>8, <1>a DEF ReadNew
  <2>1. r.s = req[h].s /\ r.pc = "clear"
    BY <2>a DEF Asked
  <2>2. r \in Asked
    <3>1. r \in Request
      BY <2>a DEF Typed, TypeOK, Go
    <3> QED BY <3>1, <2>1 DEF Request, Idle
  <2>3. Weighed(r)
    BY <2>1 DEF Weighed
  <2> HIDE DEF r
  <2> QED BY <2>a, <2>1, <2>2, <2>3, <1>f
<1>9. ASSUME NEW h \in Handlers, Clear(h) PROVE AmountInv'
  <2>a. Busy(h) /\ req[h] \in Asked /\ UNCHANGED <<discipline, member, events>>
    BY <1>9, <1>a DEF Clear
  <2>r. PICK r : Go(h, r) /\ r = [req[h] EXCEPT !.pc = "create"]
    BY <1>9 DEF Clear
  <2>s. PICK s \in Students : s = req[h].s
    BY <1>9, <1>a DEF Clear
  <2>1. chosen'[s] = {} /\ \A t \in Students \ {s} : chosen'[t] = chosen[t]
    BY <1>9, <2>s, <1>t DEF Clear
  <2>2. r \in Request /\ r.s = s /\ r.pc = "create"
    BY <2>a, <2>s, <2>r DEF Asked, Request
  <2>3. Weighed(r)' /\ Within(s)'
    BY <2>1, <2>2, <1>n DEF Weighed
  <2> QED BY <2>a, <2>s, <2>r, <2>1, <2>2, <2>3, <1>t, StepAmount
<1>10. ASSUME NEW h \in Handlers, Create(h) PROVE AmountInv'
  <2>a. /\ Busy(h) /\ req[h] \in Asked /\ req[h].pc = "create" /\ UNCHANGED <<chosen, member, events>>
    BY <1>10, <1>a DEF Create
  <2>s. PICK s \in Students : s = req[h].s /\ (events[s] = {} => chosen[s] = {})
    BY <1>10, <1>a DEF Create, Ready
  <2>1. PICK r : Go(h, r) /\ (\/ r = [req[h] EXCEPT !.pc = "move"]
                              \/ \E row \in req[h].todo : r = [req[h] EXCEPT !.todo = @ \ {row}])
    BY <1>10 DEF Create
  <2>2. r \in Asked /\ r.s = s /\ r.pc \in {"create", "move"}
    BY <2>a, <2>s, <2>1 DEF Asked
  <2>3. events'[s] = {} => Within(s)'
    BY <2>a, <2>s, <1>n
  <2>4. Weighed(r)'
    BY <2>2 DEF Weighed
  <2>5. r \in Request
    BY <2>2 DEF Request
  <2> QED BY <2>a, <2>s, <2>1, <2>2, <2>3, <2>4, <2>5, <1>s, <1>t, StepAmount
<1>11. ASSUME NEW h \in Handlers, Move(h) PROVE AmountInv'
  <2>a. /\ Busy(h) /\ UNCHANGED <<discipline, chosen, events>> /\ Go(h, Idle)
    BY <1>11, <1>a DEF Move, Done
  <2>s. PICK s \in Students : s = req[h].s /\ (events[s] = {} => chosen[s] = {})
    BY <1>11, <1>a DEF Move, Ready
  <2>1. \A t \in Students \ {s} : member'[t] = member[t]
    BY <1>11, <2>s, <1>t DEF Move
  <2>2. events'[s] = {} => Within(s)'
    BY <2>a, <2>s, <1>n
  <2> QED BY <2>a, <2>s, <2>1, <2>2, <1>i, <1>t, StepAmount
<1>12. ASSUME NEW h \in Handlers, Put(h) PROVE AmountInv'
  <2>a. /\ Busy(h) /\ req[h] \in Asked /\ req[h].pc = "put" /\ UNCHANGED discipline
    BY <1>12, <1>a DEF Put
  <2>s. PICK s \in Students : s = req[h].s
    BY <1>12, <1>a DEF Put
  <2>m. /\ \A t \in Students : member'[t].group = member[t].group
    <3>1. CASE member' = [member EXCEPT ![s].state = "APPROVED"]
      BY <3>1, <1>t
    <3>2. CASE UNCHANGED member
      BY <3>2
    <3> QED BY <1>12, <2>s, <3>1, <3>2 DEF Put
  <2>w. ASSUME UNCHANGED <<chosen, events>> PROVE events'[s] = {} => Within(s)'
    BY <2>w, <1>w, <2>a, <2>m DEF Within, InPeriod
  <2>1. CASE req[h].todo = {} /\ Go(h, Idle) /\ UNCHANGED <<chosen, events>>
    BY <2>1, <2>a, <2>s, <2>m, <2>w, <1>i, <1>t, StepAmount
  <2>2. ASSUME NEW row \in req[h].todo, Go(h, [req[h] EXCEPT !.todo = @ \ {row}]),
               \/ UNCHANGED <<chosen, events>>
               \/ \E i \in Ids : /\ discipline[i] = row
                                 /\ chosen' = [chosen EXCEPT ![s] = @ \cup {i}]
                                 /\ events' = [events EXCEPT ![s] = @ \cup {"file"}]
        PROVE  AmountInv'
    <3>r. PICK r : Go(h, r) /\ r = [req[h] EXCEPT !.todo = @ \ {row}]
      BY <2>2
    <3>1. r \in Asked /\ r.s = s /\ r.pc = "put"
      BY <2>a, <2>s, <3>r DEF Asked
    <3>2. /\ \A t \in Students : events[t] \subseteq events'[t]
          /\ \A t \in Students \ {s} : chosen'[t] = chosen[t]
          /\ events'[s] = {} => UNCHANGED <<chosen, events>>
      BY <2>2, <1>t, ZenonT(60)
    <3>3. events'[s] = {} => Within(s)'
      BY <3>2, <2>w
    <3>4. Weighed(r)'
      BY <3>1 DEF Weighed
    <3>5. r \in Request /\ Go(h, r)
      BY <3>r, <3>1 DEF Request
    <3> QED BY <2>a, <2>s, <2>m, <3>1, <3>2, <3>3, <3>4, <3>5, <1>s, StepAmount
  <2> QED BY <1>12, <2>1, <2>2, <2>s DEF Put, Done
<1>13. ASSUME NEW s \in Students, Leave(s) PROVE AmountInv'
  <2>1. /\ \A t \in Students : member'[t].group = member[t].group
        /\ UNCHANGED <<discipline, chosen, req, events>>
    BY <1>13, <1>t DEF Leave
  <2>2. \A h \in Handlers : Busy(h) => req[h].s \in Students
    BY <1>t, IsAsked DEF Asked
  <2>3. WithinAmount'
    BY <2>1 DEF AmountInv, WithinAmount, InPeriod
  <2> QED BY <2>1, <2>2, <2>3 DEF AmountInv, Weighed, Fits, InPeriod, Busy
<1>14. ASSUME NEW s \in Students, NEW g \in Groups, RequestNewGroup(s, g) PROVE AmountInv'
  <2>1. /\ \A t \in Students \ {s} : member'[t] = member[t] /\ events'[t] = events[t]
        /\ events[s] \subseteq events'[s]
        /\ UNCHANGED <<discipline, chosen, req>>
    BY <1>14, <1>t DEF RequestNewGroup
  <2>2. \A h \in Handlers : Busy(h) => req[h].s \in Students
    BY <1>t, IsAsked DEF Asked
  <2>3. events'[s] = {} => chosen[s] = {} /\ \A h \in Handlers : Busy(h) => req[h].s # s
    <3>1. ASSUME NEW h \in Handlers, Busy(h), req[h].s = s PROVE s \in Crossed("request", s)
      BY <3>1 DEF Crossed
    <3> QED BY <1>14, <1>t, <3>1 DEF RequestNewGroup
  <2>4. WithinAmount'
    <3> SUFFICES ASSUME NEW t \in Students, events'[t] = {} PROVE Within(t)'
      BY DEF WithinAmount, Within
    <3>1. CASE t = s
      BY <3>1, <2>1, <2>3, <1>n
    <3>2. CASE t # s
      BY <3>2, <2>1, <1>w DEF Within, InPeriod
    <3> QED BY <3>1, <3>2
  <2>5. ASSUME NEW h \in Handlers, Busy(h)', events'[req'[h].s] = {} PROVE Weighed(req[h])'
    BY <2>1, <2>2, <2>3, <2>5 DEF AmountInv, Weighed, Fits, InPeriod, Busy
  <2> QED BY <2>4, <2>5 DEF AmountInv
<1>15. CASE UNCHANGED vars
  <2>1. WithinAmount'
    BY <1>15 DEF vars, AmountInv, WithinAmount, InPeriod
  <2> QED BY <1>15, <2>1 DEF vars, AmountInv, Weighed, Fits, InPeriod, Busy
<1> QED BY <1>1, <1>2, <1>3, <1>4, <1>5, <1>6, <1>7, <1>8, <1>9, <1>10, <1>11, <1>12,
           <1>13, <1>14, <1>15 DEF Next, Continue

\* A student with whom nothing crossed, who asked for no other group and got nothing
\* from a file has, in every period, no more than the amount of his group: what
\* checkExcessiveSelectiveDisciplines counted is so when createMany stores it.
THEOREM NoMoreThanAmount == Spec => []WithinAmount
<1>1. Init => AmountInv
  <2> SUFFICES ASSUME Init PROVE AmountInv
    OBVIOUS
  <2>1. \A h \in Handlers : ~Busy(h)
    BY DEF Init, Busy
  <2>2. ASSUME NEW s \in Students, NEW p \in Periods
        PROVE  Cardinality(InPeriod(chosen[s], p)) <= Amount[member[s].group][p]
    <3>1. InPeriod(chosen[s], p) = {}
      BY DEF Init, InPeriod
    <3>2. Amount[member[s].group][p] \in Nat
      BY SelectiveAssumption DEF Init
    <3> QED BY <3>1, <3>2, FS_EmptySet
  <2> QED BY <2>1, <2>2 DEF AmountInv, WithinAmount
<1>2. Typed /\ ChoiceInv /\ AmountInv /\ [Next]_vars => (Typed /\ ChoiceInv /\ AmountInv)'
  BY TypesKept, ChoiceKept, AmountKept
<1>3. Spec => [](Typed /\ ChoiceInv /\ AmountInv)
  BY <1>1, <1>2, Start, PTL DEF Spec
<1>4. AmountInv => WithinAmount
  BY DEF AmountInv
<1> QED BY <1>3, <1>4, PTL

-----------------------------------------------------------------------------
(* No discipline twice                                                     *)

\* The catalogue has no discipline twice to begin with; no index of the schema says so.
DistinctCatalogue ==
  \A i, j \in Ids : Catalogue[i] # None /\ Catalogue[i] = Catalogue[j] => i = j

Distinct == \A i, j \in Ids : Exists(i) /\ discipline[i] = discipline[j] => i = j

\* Only changeGroup creates disciplines.
Moving(r) == r.pc \in {"new?", "clear", "create", "move"} => r.op = "change"

\* At most one student moves at a time.
OneMove ==
  \A f, g \in Handlers :
    Busy(f) /\ Busy(g) /\ req[f].op = "change" /\ req[g].op = "change" => f = g

\* What a move is about to create is not there.
Unmade(r) == r.pc \in {"clear", "create"} => \A row \in r.todo, i \in Ids : discipline[i] # row

Calm == \A s \in Students : Undisturbed(s)

\* Why moves make no twins: they follow one another, and each creates what the one
\* before left missing.
TwinsInv ==
  /\ \A h \in Handlers : Busy(h) => Moving(req[h])
  /\ Calm => /\ Distinct
             /\ OneMove
             /\ \A h \in Handlers : Busy(h) => Unmade(req[h])

\* A request goes on, or ends, and creates nothing.
LEMMA StepTwins ==
  ASSUME Typed, TwinsInv, Typed', NEW h \in Handlers, Busy(h),
         NEW r \in Request, Go(h, r), r # Idle => r.op = req[h].op /\ Moving(r) /\ Unmade(r),
         \A t \in Students : events[t] \subseteq events'[t],
         UNCHANGED discipline
  PROVE  TwinsInv'
<1>t. /\ req \in [Handlers -> Request] /\ req'[h] = r
      /\ \A g \in Handlers \ {h} : req'[g] = req[g] /\ (Busy(g)' <=> Busy(g))
      /\ Busy(h)' <=> r # Idle
  BY DEF Typed, TypeOK, Go, Busy
<1>1. Calm' => Calm
  BY DEF Calm, Undisturbed
<1>2. \A g \in Handlers : Busy(g)' => Busy(g) /\ req'[g].op = req[g].op
  BY <1>t
<1>3. \A g \in Handlers : Busy(g)' => Moving(req[g])'
  BY <1>t DEF TwinsInv, Moving
<1>4. Calm' => Distinct' /\ OneMove'
  BY <1>1, <1>2 DEF TwinsInv, Distinct, Exists, OneMove
<1>5. Calm' => \A g \in Handlers : Busy(g)' => Unmade(req[g])'
  BY <1>1, <1>t DEF TwinsInv, Unmade
<1> QED BY <1>3, <1>4, <1>5 DEF TwinsInv

\* A beginning: a move that meets another one is remembered.
LEMMA BeginTwins ==
  ASSUME Typed, TwinsInv, Typed', NEW h \in Handlers, NEW r \in Asked, Begin(h, r),
         r.pc \in {"group?", "chosen?"}, UNCHANGED discipline
  PROVE  TwinsInv'
<1>t. /\ req \in [Handlers -> Request] /\ req'[h] = r /\ ~Busy(h)
      /\ \A g \in Handlers \ {h} : req'[g] = req[g] /\ (Busy(g)' <=> Busy(g))
      /\ events' = [t \in Students |-> events[t] \cup
                       (IF t \in Crossed(r.op, r.s) THEN {"cross"} ELSE {})]
      /\ r.s \in Students
  BY DEF Typed, TypeOK, Begin, Go, Busy, Asked
<1>1. Calm' => Calm
  BY <1>t DEF Calm, Undisturbed
<1>2. \A g \in Handlers : Busy(g)' => Moving(req[g])'
  BY <1>t DEF TwinsInv, Moving
<1>3. ASSUME Calm', NEW g \in Handlers, Busy(g), req[g].op = "change", r.op = "change"
      PROVE  FALSE
  <2>1. r.s \in Crossed(r.op, r.s)
    BY <1>3, <1>t DEF Crossed
  <2> QED BY <2>1, <1>3, <1>t DEF Calm, Undisturbed
<1>4. Calm' => OneMove'
  <2> SUFFICES ASSUME Calm', NEW f \in Handlers, NEW g \in Handlers, Busy(f)', Busy(g)',
                      req'[f].op = "change", req'[g].op = "change"
               PROVE  f = g
    BY DEF OneMove
  <2>1. CASE f # h /\ g # h
    BY <2>1, <1>1, <1>t DEF TwinsInv, OneMove
  <2>2. CASE f = h /\ g # h
    BY <2>2, <1>3, <1>t
  <2>3. CASE f # h /\ g = h
    BY <2>3, <1>3, <1>t
  <2> QED BY <2>1, <2>2, <2>3
<1>5. Calm' => Distinct'
  BY <1>1 DEF TwinsInv, Distinct, Exists
<1>6. Calm' => \A g \in Handlers : Busy(g)' => Unmade(req[g])'
  BY <1>1, <1>t DEF TwinsInv, Unmade
<1> QED BY <1>2, <1>4, <1>5, <1>6 DEF TwinsInv

\* createSelective stores what is missing, and nobody else creates anything.
LEMMA CreateTwins ==
  ASSUME Typed, TwinsInv, Typed', NEW h \in Handlers, Busy(h), req[h] \in Asked,
         req[h].pc = "create", NEW row \in req[h].todo, NEW i \in Ids, ~Exists(i),
         discipline' = [discipline EXCEPT ![i] = row],
         Go(h, [req[h] EXCEPT !.todo = @ \ {row}]), UNCHANGED events
  PROVE  TwinsInv'
<1>r. PICK r : r = [req[h] EXCEPT !.todo = @ \ {row}]
  OBVIOUS
<1>d. PICK todo : todo = req[h].todo
  OBVIOUS
<1>1. r \in Asked /\ r.pc = "create" /\ r.op = req[h].op /\ r.todo = todo \ {row}
  BY <1>r, <1>d DEF Asked
<1>t. /\ req \in [Handlers -> Request] /\ req'[h] = r
      /\ \A g \in Handlers \ {h} : req'[g] = req[g] /\ (Busy(g)' <=> Busy(g))
      /\ discipline \in [Ids -> Rows \cup {None}]
  BY <1>r DEF Typed, TypeOK, Go, Busy
<1>2. req[h].op = "change"
  BY DEF TwinsInv, Moving
<1>3. \A g \in Handlers : Busy(g)' => Busy(g) /\ req'[g].op = req[g].op
  BY <1>1, <1>t
<1>4. \A g \in Handlers : Busy(g)' => Moving(req[g])'
  BY <1>1, <1>2, <1>t DEF TwinsInv, Moving
<1>5. ASSUME Calm PROVE Distinct' /\ OneMove' /\ \A g \in Handlers : Busy(g)' => Unmade(req[g])'
  <2>0. OneMove /\ Distinct /\ \A j \in Ids : discipline[j] # row
    BY <1>5 DEF TwinsInv, Unmade
  <2>1. Distinct'
    BY <2>0, <1>t DEF Distinct, Exists
  <2>2. OneMove'
    BY <2>0, <1>3 DEF OneMove
  <2>3. ASSUME NEW g \in Handlers, Busy(g)' PROVE Unmade(req[g])'
    <3>1. CASE g = h
      <4>1. \A q \in todo, j \in Ids : discipline[j] # q
        BY <1>5, <1>d DEF TwinsInv, Unmade
      <4> QED BY <3>1, <4>1, <1>1, <1>t DEF Unmade
    <3>2. CASE g # h
      <4>1. Busy(g) /\ req'[g] = req[g] /\ req[g].op # "change"
        BY <2>0, <2>3, <3>2, <1>2, <1>t DEF OneMove
      <4> QED BY <4>1 DEF TwinsInv, Moving, Unmade
    <3> QED BY <3>1, <3>2
  <2> QED BY <2>1, <2>2, <2>3
<1> QED BY <1>4, <1>5 DEF TwinsInv, Calm, Undisturbed

\* What getNewSelective finds missing is not there.
LEMMA MissingIsUnmade ==
  ASSUME Typed, NEW ids \in SUBSET {i \in Ids : Exists(i)}, NEW g \in Groups,
         NEW row \in Missing(ids, g), NEW i \in Ids
  PROVE  discipline[i] # row
<1> SUFFICES ASSUME discipline[i] = row PROVE FALSE
  OBVIOUS
<1>1. PICK j \in ids :
        /\ row = Row(g, discipline[j].subject, discipline[j].period, TRUE)
        /\ \A k \in SelectiveOf(g) : discipline[k].subject # discipline[j].subject
  BY DEF Missing
<1>2. row.group = g /\ row.subject = discipline[j].subject /\ row.selective
  BY <1>1 DEF Row
<1>3. row \in Rows
  <2>1. discipline[j] \in Rows
    BY DEF Typed, TypeOK, Exists
  <2> QED BY <1>1, <2>1 DEF Row, Rows
<1>4. i \in SelectiveOf(g)
  BY <1>2, <1>3, SelectiveAssumption DEF SelectiveOf, Exists
<1> QED BY <1>1, <1>2, <1>4

\* Every step keeps disciplines apart.
LEMMA TwinsKept == Typed /\ Typed' /\ TwinsInv /\ [Next]_vars => TwinsInv'
<1> SUFFICES ASSUME Typed, Typed', TwinsInv, [Next]_vars PROVE TwinsInv'
  OBVIOUS
<1>t. /\ TypeOK
      /\ events \in [Students -> SUBSET {"cross", "moved", "file"}]
      /\ req \in [Handlers -> Request]
  BY DEF Typed, TypeOK
<1>a. ASSUME NEW h \in Handlers, NEW pc, At(h, pc), pc # "idle"
      PROVE  /\ Busy(h) /\ req[h] \in Asked /\ req[h].pc = pc /\ Moving(req[h])
             /\ \A i \in req[h].ids : i \in Ids /\ Exists(i)
  BY <1>a, <1>t, IsAsked DEF At, Asked, TwinsInv, Typed, Known
<1>i. Idle \in Request
  BY DEF Request
<1>f. ASSUME NEW h \in Handlers, NEW pc, At(h, pc), pc # "idle",
             NEW r, Go(h, r), r = Idle \/ (r.op = req[h].op /\ Moving(r) /\ Unmade(r)),
             \A t \in Students : events[t] \subseteq events'[t],
             UNCHANGED discipline
      PROVE  TwinsInv'
  <2>1. r \in Request
    BY <1>f DEF Typed, TypeOK, Go
  <2> QED BY <1>a, <1>f, <2>1, StepTwins
<1>1. ASSUME NEW h \in Handlers, NEW s \in Students, NEW op \in {"select", "deselect"},
             NEW ids \in SUBSET Ids, Ask(h, op, s, ids)
      PROVE  TwinsInv'
  <2> DEFINE r == [op |-> op, pc |-> "group?", s |-> s, g |-> Home[s], ids |-> ids,
                   todo |-> {}, bot |-> FALSE]
  <2>1. r \in Asked /\ r.pc = "group?"
    BY SelectiveAssumption DEF Asked
  <2>2. Begin(h, r) /\ UNCHANGED discipline
    BY <1>1 DEF Ask
  <2> HIDE DEF r
  <2> QED BY <2>1, <2>2, BeginTwins
<1>2. ASSUME NEW h \in Handlers, NEW s \in Students, NEW g \in Groups, ChangeGroup(h, s, g)
      PROVE  TwinsInv'
  <2> DEFINE r == [op |-> "change", pc |-> "chosen?", s |-> s, g |-> g, ids |-> {},
                   todo |-> {}, bot |-> FALSE]
  <2>1. r \in Asked /\ r.pc = "chosen?"
    BY DEF Asked
  <2>2. Begin(h, r) /\ UNCHANGED discipline
    BY <1>2 DEF ChangeGroup
  <2> HIDE DEF r
  <2> QED BY <2>1, <2>2, BeginTwins
<1>3. ASSUME NEW h \in Handlers, NEW s \in Students, NEW bot \in BOOLEAN, Approve(h, s, bot)
      PROVE  TwinsInv'
  <2> DEFINE r == [op |-> "put", pc |-> "group?", s |-> s, g |-> Home[s], ids |-> {},
                   todo |-> {}, bot |-> bot]
  <2>1. r \in Asked /\ r.pc = "group?"
    BY SelectiveAssumption DEF Asked
  <2>2. Begin(h, r) /\ UNCHANGED discipline
    BY <1>3 DEF Approve
  <2> HIDE DEF r
  <2> QED BY <2>1, <2>2, BeginTwins
<1>4. ASSUME NEW h \in Handlers, ReadGroup(h) PROVE TwinsInv'
  <2>a. At(h, "group?") /\ req[h] \in Asked /\ UNCHANGED <<discipline, events>>
    BY <1>4, <1>a DEF ReadGroup
  <2>1. ASSUME NEW todo, Go(h, [req[h] EXCEPT !.pc = "put", !.todo = todo]) PROVE TwinsInv'
    BY <2>1, <2>a, <1>f DEF Asked, Moving, Unmade
  <2>2. ASSUME NEW g, Go(h, [req[h] EXCEPT !.pc = "chosen?", !.g = g]) PROVE TwinsInv'
    BY <2>2, <2>a, <1>f DEF Asked, Moving, Unmade
  <2>3. CASE Go(h, Idle)
    BY <2>3, <2>a, <1>f
  <2> QED BY <1>4, <2>1, <2>2, <2>3 DEF ReadGroup
<1>5. ASSUME NEW h \in Handlers, ReadChosen(h) PROVE TwinsInv'
  <2>a. At(h, "chosen?") /\ req[h] \in Asked /\ UNCHANGED <<discipline, events>>
    BY <1>5, <1>a DEF ReadChosen
  <2>1. CASE Go(h, [req[h] EXCEPT !.pc = "attach"])
    BY <2>1, <2>a, <1>f DEF Asked, Moving, Unmade
  <2>2. CASE Go(h, [req[h] EXCEPT !.pc = "detach"])
    BY <2>2, <2>a, <1>f DEF Asked, Moving, Unmade
  <2>3. CASE req[h].op = "change" /\ Go(h, [req[h] EXCEPT !.pc = "new?", !.ids = chosen[req[h].s]])
    BY <2>3, <2>a, <1>f DEF Asked, Moving, Unmade
  <2>4. CASE Go(h, Idle)
    BY <2>4, <2>a, <1>f
  <2> QED BY <1>5, <2>1, <2>2, <2>3, <2>4 DEF ReadChosen
<1>6. ASSUME NEW h \in Handlers, Attach(h) PROVE TwinsInv'
  BY <1>6, <1>f DEF Attach, Done
<1>7. ASSUME NEW h \in Handlers, Detach(h) PROVE TwinsInv'
  BY <1>7, <1>f DEF Detach, Done
<1>8. ASSUME NEW h \in Handlers, ReadNew(h) PROVE TwinsInv'
  <2>a. /\ At(h, "new?") /\ req[h] \in Asked /\ req[h].op = "change" /\ req[h].g \in Groups
        /\ req[h].ids \in SUBSET {i \in Ids : Exists(i)} /\ UNCHANGED <<discipline, events>>
    BY <1>8, <1>a DEF ReadNew, Asked, Moving
  <2>1. PICK todo : todo = Missing(req[h].ids, req[h].g)
    OBVIOUS
  <2>2. \A row \in todo, i \in Ids : discipline[i] # row
    BY <2>a, <2>1, MissingIsUnmade
  <2>3. PICK r : Go(h, r) /\ r = [req[h] EXCEPT !.pc = "clear", !.todo = todo, !.ids = {}]
    BY <1>8, <2>1 DEF ReadNew
  <2>4. r.pc = "clear" /\ r.op = "change" /\ r.todo = todo
    BY <2>a, <2>3 DEF Asked
  <2>5. Moving(r) /\ Unmade(r) /\ r.op = req[h].op
    BY <2>a, <2>2, <2>4 DEF Moving, Unmade
  <2> QED BY <2>a, <2>3, <2>5, <1>f
<1>9. ASSUME NEW h \in Handlers, Clear(h) PROVE TwinsInv'
  <2>a. /\ Busy(h) /\ req[h] \in Asked /\ req[h].pc = "clear" /\ req[h].op = "change"
        /\ UNCHANGED <<discipline, events>>
    BY <1>9, <1>a DEF Clear, Moving
  <2>1. PICK r \in Request : Go(h, r) /\ r = [req[h] EXCEPT !.pc = "create"]
    BY <1>9, <2>a DEF Clear, Asked, Request
  <2>2. r.pc = "create" /\ r.op = "change" /\ r.todo = req[h].todo
    BY <2>a, <2>1 DEF Asked
  <2>3. CASE Calm
    <3>1. Unmade(r) /\ Moving(r)
      BY <2>3, <2>a, <2>2 DEF TwinsInv, Unmade, Moving
    <3> QED BY <2>a, <2>1, <2>2, <3>1, StepTwins
  <2>4. CASE ~Calm
    <3>1. ~Calm'
      BY <2>4, <2>a DEF Calm, Undisturbed
    <3>2. \A g \in Handlers : Busy(g)' => Moving(req[g])'
      BY <2>1, <2>2, <1>t DEF TwinsInv, Moving, Go, Busy
    <3> QED BY <3>1, <3>2 DEF TwinsInv
  <2> QED BY <2>3, <2>4
<1>10. ASSUME NEW h \in Handlers, Create(h) PROVE TwinsInv'
  <2>a. /\ At(h, "create") /\ Busy(h) /\ req[h] \in Asked /\ req[h].pc = "create"
        /\ req[h].op = "change" /\ UNCHANGED events
    BY <1>10, <1>a DEF Create, Moving
  <2>1. CASE Go(h, [req[h] EXCEPT !.pc = "move"]) /\ UNCHANGED discipline
    BY <2>1, <2>a, <1>f DEF Asked, Moving, Unmade
  <2>2. ASSUME NEW row \in req[h].todo, NEW i \in Ids, ~Exists(i),
               discipline' = [discipline EXCEPT ![i] = row],
               Go(h, [req[h] EXCEPT !.todo = @ \ {row}])
        PROVE  TwinsInv'
    BY <2>2, <2>a, CreateTwins
  <2> QED BY <1>10, <2>1, <2>2 DEF Create
<1>11. ASSUME NEW h \in Handlers, Move(h) PROVE TwinsInv'
  BY <1>11, <1>f DEF Move, Done
<1>12. ASSUME NEW h \in Handlers, Put(h) PROVE TwinsInv'
  <2>a. At(h, "put") /\ req[h] \in Asked /\ req[h].s \in Students /\ UNCHANGED discipline
    BY <1>12, <1>a DEF Put, Asked
  <2>1. \A t \in Students : events[t] \subseteq events'[t]
    <3>1. UNCHANGED events \/ events' = [events EXCEPT ![req[h].s] = @ \cup {"file"}]
      BY <1>12 DEF Put
    <3> QED BY <3>1, <2>a, <1>t
  <2>2. CASE Go(h, Idle)
    BY <2>2, <2>a, <2>1, <1>f
  <2>3. ASSUME NEW row, Go(h, [req[h] EXCEPT !.todo = @ \ {row}]) PROVE TwinsInv'
    <3>1. req[h].pc = "put"
      BY <2>a DEF At
    <3> QED BY <3>1, <2>3, <2>a, <2>1, <1>f DEF Asked, Moving, Unmade
  <2> QED BY <1>12, <2>2, <2>3 DEF Put, Done
<1>13. ASSUME UNCHANGED <<discipline, req>>, \A t \in Students : events[t] \subseteq events'[t]
       PROVE  TwinsInv'
  BY <1>13 DEF TwinsInv, Calm, Undisturbed, Distinct, Exists, OneMove, Moving, Unmade, Busy
<1>14. ASSUME NEW s \in Students, Leave(s) PROVE TwinsInv'
  BY <1>14, <1>13 DEF Leave
<1>15. ASSUME NEW s \in Students, NEW g \in Groups, RequestNewGroup(s, g) PROVE TwinsInv'
  BY <1>15, <1>13, <1>t DEF RequestNewGroup
<1>16. CASE UNCHANGED vars
  BY <1>16, <1>13 DEF vars
<1> QED BY <1>1, <1>2, <1>3, <1>4, <1>5, <1>6, <1>7, <1>8, <1>9, <1>10, <1>11, <1>12,
           <1>14, <1>15, <1>16 DEF Next, Continue

\* As long as no student is disturbed, moving students gives no group a discipline
\* twice: createSelective creates what the group did not have when the one move in
\* progress looked, and nobody else creates any.
THEOREM MovesMakeNoTwins == ASSUME DistinctCatalogue PROVE Spec => []NoTwins
<1>1. Init => TwinsInv
  BY DistinctCatalogue DEF DistinctCatalogue, Init, TwinsInv, Distinct, Exists, OneMove, Busy
<1>2. Typed /\ TwinsInv /\ [Next]_vars => (Typed /\ TwinsInv)'
  BY TypesKept, TwinsKept
<1>3. Spec => [](Typed /\ TwinsInv)
  BY <1>1, <1>2, Start, PTL DEF Spec
<1>4. TwinsInv => NoTwins
  BY DEF TwinsInv, Calm, Distinct, NoTwins
<1> QED BY <1>3, <1>4, PTL
=============================================================================
