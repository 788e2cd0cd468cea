-------------------------- MODULE Schedule_proofs ---------------------------
(***************************************************************************)
(* The rows that events leave behind: types, teachers and their roles in a *)
(* discipline keep what they refer to, whatever requests cross and         *)
(* wherever one stops; requests that do not cross make none of them twice, *)
(* and take no teacher out of a discipline who has something left there.   *)
(* Then the dates of events: each occurrence has its info, and the pages   *)
(* of weeks, days and events agree about it.                               *)
(***************************************************************************)
EXTENDS Schedule, FiniteSetTheorems, WellFoundedInduction, TLAPS

-----------------------------------------------------------------------------
(* Numbers and sequences *)

LEMMA LeastOfNumbers ==
  ASSUME NEW S, S # {}, S \subseteq Nat
  PROVE  \E n \in S : \A m \in S : n <= m
<1>1. PICK n \in S : \A m \in S : ~(<<m, n>> \in OpToRel(<, Nat))
  BY NatLessThanWellFounded, WFMin
<1>2. \A m \in S : ~(m < n)
  BY <1>1 DEF OpToRel
<1> QED BY <1>2

LEMMA SemesterIsOne == semester \in SemesterDates
<1> DEFINE now == CHOOSE m \in Moments : TRUE
           begun == getAllPreviousSemesters(now)
           ages == {n \in Nat : \E s \in begun : n = now - s.startDate}
<1>1. now \in Nat /\ HasSemester(now)
  BY ScheduleAssumption
<1>2. begun # {} /\ begun \subseteq SemesterDates /\ \A s \in begun : s.startDate \in Nat /\ s.startDate <= now
  BY <1>1, SemesterDatesAssumption DEF HasSemester, getAllPreviousSemesters
<1> HIDE DEF now, begun
<1>3. \A s \in begun : now - s.startDate \in ages
  BY <1>1, <1>2
<1> HIDE DEF ages
<1>4. ages # {} /\ ages \subseteq Nat
  BY <1>2, <1>3 DEF ages
<1>5. PICK n \in ages : \A m \in ages : n <= m
  BY ONLY <1>4, LeastOfNumbers
<1>6. PICK s \in begun : n = now - s.startDate
  BY DEF ages
<1>7. \A t \in begun : t.startDate <= s.startDate
  <2> SUFFICES ASSUME NEW t \in begun PROVE t.startDate <= s.startDate
    OBVIOUS
  <2>1. n <= now - t.startDate
    BY <1>3, <1>5
  <2> QED BY <1>1, <1>2, <1>6, <2>1
<1>8. \E t \in begun : \A q \in begun : q.startDate <= t.startDate
  BY <1>7
<1>9. Newest(begun) \in begun
  BY <1>8 DEF Newest
<1>10. semester = Newest(begun)
  BY DEF semester, getCurrentSemester, begun, now
<1> QED BY <1>2, <1>9, <1>10

LEMMA CeilWhole == ASSUME NEW n \in Int, NEW d \in Nat \ {0} PROVE Ceil(n, d) \in Int
  BY DEF Ceil

LEMMA SequenceOf ==
  ASSUME NEW S, IsFiniteSet(S)
  PROVE  /\ SetToSeq(S) \in Seq(S)
         /\ \A i \in DOMAIN SetToSeq(S) : SetToSeq(S)[i] \in S
<1> DEFINE n == Cardinality(S)
<1>1. n \in Nat /\ \E f \in [1..n -> S] : IsInjective(f)
  BY FS_CardinalityType DEF ExistsBijection, Bijection, Injection
<1>2. SetToSeq(S) \in [1..n -> S]
  BY <1>1 DEF SetToSeq
<1> QED BY <1>1, <1>2

LEMMA WiderSequence == ASSUME NEW S, NEW T, S \subseteq T, NEW s \in Seq(S) PROVE s \in Seq(T)
  OBVIOUS

-----------------------------------------------------------------------------
(* What the tables hold *)

TypeRow == [id : 1..made, discipline : Disciplines, name : TypeNames]
TeacherRow == [id : 1..made, teacher : Teachers, discipline : Disciplines]
RowsInv ==
  /\ made \in Nat
  /\ types \subseteq TypeRow /\ teachers \subseteq TeacherRow
  /\ IsFiniteSet(teachers)
  /\ \A s, t \in types : s.id = t.id => s = t
  /\ \A s, t \in teachers : s.id = t.id => s = t
  /\ \A r \in roles : \E s \in types, t \in teachers :
       s.discipline = t.discipline /\ r = [dt |-> t.id, type |-> s.id, role |-> RoleOf(s.name)]

EventRow(v) ==
  /\ v \in [period : Periods, start : Int, end : Int, infos : SUBSET Nat, lessons : SUBSET Nat]
  /\ IsFiniteSet(v.infos)
EventsInv ==
  /\ DOMAIN events \subseteq EventIds
  /\ \A e \in DOMAIN events : EventRow(events[e]) /\ \A id \in events[e].lessons : Exists(id)

\* Rows only come with new ids.
Later ==
  /\ made' \in Nat /\ made <= made'
  /\ \A t \in types' : t \in types \/ t.id > made
  /\ \A t \in teachers' : t \in teachers \/ t.id > made

LEMMA InitTables == Init => RowsInv /\ EventsInv
<1> SUFFICES ASSUME Init PROVE RowsInv /\ EventsInv
  OBVIOUS
<1> USE ScheduleAssumption DEF Init
<1>1. RowsInv
  BY DEF RowsInv, TypeRow, TeacherRow
<1>2. ASSUME NEW e \in DOMAIN events
      PROVE  EventRow(events[e]) /\ \A id \in events[e].lessons : Exists(id)
  <2> DEFINE v == FirstEvents[e]
             ids == {t.id : t \in FirstTypes}
  <2>1. /\ v \in [period : Periods, start : Nat, end : Nat, infos : SUBSET Nat, lessons : SUBSET ids]
        /\ IsFiniteSet(v.infos)
    OBVIOUS
  <2>2. ids \subseteq Nat /\ \A id \in ids : \E t \in types : t.id = id
    OBVIOUS
  <2>3. v \in [period : Periods, start : Int, end : Int, infos : SUBSET Nat, lessons : SUBSET Nat]
    BY <2>1, <2>2
  <2> QED BY <2>1, <2>2, <2>3 DEF EventRow, Exists
<1> QED BY <1>1, <1>2 DEF EventsInv

LEMMA SameTables ==
  ASSUME RowsInv, EventsInv, UNCHANGED <<events, rows>>
  PROVE  RowsInv' /\ EventsInv' /\ Later
<1> USE DEF rows
<1>1. RowsInv'
  BY DEF RowsInv, TypeRow, TeacherRow
<1>2. EventsInv'
  BY DEF EventsInv, EventRow, Exists
<1> QED BY <1>1, <1>2 DEF Later, RowsInv

\* Rows that go take with them what refers to them.
LEMMA GoneKeeps ==
  ASSUME RowsInv, EventsInv, NEW A, NEW B, Gone(A, B)
  PROVE  RowsInv' /\ EventsInv' /\ Later
<1>1. RowsInv'
  <2>1. IsFiniteSet(teachers')
    BY FS_Subset DEF RowsInv, Gone
  <2>2. \A r \in roles' : \E s \in types', t \in teachers' :
          s.discipline = t.discipline /\ r = [dt |-> t.id, type |-> s.id, role |-> RoleOf(s.name)]
    <3> TAKE r \in roles'
    <3>1. r \in roles /\ r.type \notin A /\ r.dt \notin B
      BY DEF Gone
    <3>2. PICK s \in types, t \in teachers :
            s.discipline = t.discipline /\ r = [dt |-> t.id, type |-> s.id, role |-> RoleOf(s.name)]
      BY <3>1 DEF RowsInv
    <3>3. s \in types' /\ t \in teachers'
      BY <3>1, <3>2 DEF Gone
    <3> QED BY <3>2, <3>3
  <2> QED BY <2>1, <2>2 DEF RowsInv, Gone, TypeRow, TeacherRow
<1>2. EventsInv'
  <2>1. DOMAIN events' = DOMAIN events
    BY DEF Gone
  <2>2. ASSUME NEW e \in DOMAIN events
        PROVE  EventRow(events'[e]) /\ \A id \in events'[e].lessons : Exists(id)'
    <3>1. events'[e] = [events[e] EXCEPT !.lessons = @ \ A]
      BY DEF Gone
    <3>2. EventRow(events[e])
      BY DEF EventsInv
    <3>3. EventRow(events'[e])
      BY <3>1, <3>2 DEF EventRow
    <3>4. \A id \in events'[e].lessons : id \in events[e].lessons \ A
      BY <3>1, <3>2 DEF EventRow
    <3>5. \A id \in events'[e].lessons : Exists(id)'
      BY <3>4 DEF EventsInv, Exists, Gone
    <3> QED BY <3>3, <3>5
  <2> QED BY <2>1, <2>2 DEF EventsInv
<1> QED BY <1>1, <1>2 DEF Later, Gone, RowsInv

LEMMA TypeIsMade ==
  ASSUME RowsInv, EventsInv,
         NEW t \in [id : {made + 1}, discipline : Disciplines, name : TypeNames],
         Makes({t}, {}, {})
  PROVE  RowsInv' /\ EventsInv' /\ Later
<1>1. types' = types \cup {t} /\ teachers' = teachers /\ roles' = roles /\ made' = made + 1 /\ events' = events
  BY DEF Makes
<1>2. \A s \in types : s.id \in 1..made
  BY DEF RowsInv, TypeRow
<1>3. made \in Nat
  BY DEF RowsInv
<1>4. types' \subseteq TypeRow' /\ teachers' \subseteq TeacherRow'
  BY <1>1, <1>3 DEF RowsInv, TypeRow, TeacherRow
<1>5. \A q, s \in types' : q.id = s.id => q = s
  BY <1>1, <1>2, <1>3 DEF RowsInv
<1>6. RowsInv'
  BY <1>1, <1>3, <1>4, <1>5 DEF RowsInv
<1>7. EventsInv'
  BY <1>1 DEF EventsInv, EventRow, Exists
<1> QED BY <1>1, <1>3, <1>6, <1>7 DEF Later

LEMMA TeacherIsMade ==
  ASSUME RowsInv, EventsInv,
         NEW t \in [id : {made + 1}, teacher : Teachers, discipline : Disciplines],
         types' = types, teachers' = teachers \cup {t}, roles' = roles, made' = made + 1, events' = events
  PROVE  RowsInv' /\ EventsInv' /\ Later
<1>2. \A s \in teachers : s.id \in 1..made
  BY DEF RowsInv, TeacherRow
<1>3. made \in Nat
  BY DEF RowsInv
<1>4. types' \subseteq TypeRow' /\ teachers' \subseteq TeacherRow'
  BY <1>3 DEF RowsInv, TypeRow, TeacherRow
<1>5. \A q, s \in teachers' : q.id = s.id => q = s
  BY <1>2, <1>3 DEF RowsInv
<1>6. IsFiniteSet(teachers')
  BY FS_AddElement DEF RowsInv
<1>7. RowsInv'
  BY <1>3, <1>4, <1>5, <1>6 DEF RowsInv
<1>8. EventsInv'
  BY DEF EventsInv, EventRow, Exists
<1> QED BY <1>3, <1>7, <1>8 DEF Later

\* A role of a type and a teacher of one discipline.
LEMMA RolesAreGiven ==
  ASSUME RowsInv, EventsInv, NEW given, NEW gone,
         \A r \in given : \E s \in types, t \in teachers :
           s.discipline = t.discipline /\ r = [dt |-> t.id, type |-> s.id, role |-> RoleOf(s.name)],
         roles' = (roles \ gone) \cup given, UNCHANGED <<types, teachers, made, events>>
  PROVE  RowsInv' /\ EventsInv' /\ Later
<1>1. RowsInv'
  BY DEF RowsInv, TypeRow, TeacherRow
<1>2. EventsInv'
  BY DEF EventsInv, EventRow, Exists
<1> QED BY <1>1, <1>2 DEF Later, RowsInv

-----------------------------------------------------------------------------
(* What the requests in progress know *)

Fields == {"step", "kind", "event", "body", "old", "discipline", "type", "present", "seen",
           "removing", "adding", "dt"}

\* A type, or a teacher, that was there when it was read: who has its id now is it.
Kept(p) == p \in TypeRow /\ \A s \in types : s.id = p.id => s = p
OfType(r) ==
  r.type \in 1..made /\ \A s \in types : s.id = r.type => s.discipline = r.discipline /\ s.name = TypeName(r)
OfTeacher(r) ==
  r.dt \in 1..made /\ \A t \in teachers : t.id = r.dt => t.discipline = r.discipline
GivenRight(r) ==
  \A g \in r.present : \E id \in 1..made, name \in TypeNames :
    /\ g = <<id, RoleOf(name)>>
    /\ \A s \in types : s.id = id => s.discipline = r.discipline /\ s.name = name

Updating(r) ==
  r.kind = "update" /\ r.step = "update" /\ r.body \in UpdateBodies /\ EventRow(r.old)
Teaching(r) ==
  /\ r.kind \in {"create", "update"}
  /\ r.step \in {"count", "ready", "clear", "find", "type", "remove", "teachers", "join", "role", "lesson"}
  /\ r.discipline \in Disciplines /\ TypeName(r) \in TypeNames /\ r.adding \in Seq(Teachers)
  /\ r.step \in {"count", "ready", "clear"} => Kept(r.present)
  /\ r.step \in {"remove", "teachers", "join", "role"} => OfType(r)
  /\ r.step \in {"join", "role"} => r.adding # << >>
  /\ r.step = "role" => OfTeacher(r)
Leaving(r) ==
  /\ r.kind = "delete" /\ r.step \in {"target", "read", "remove", "untype"}
  /\ Kept(r.present) /\ r.discipline = r.present.discipline
ByHand(r) ==
  /\ r.kind = "hand" /\ r.step \in {"staff", "put", "name"}
  /\ r.discipline \in Disciplines /\ r.adding \in Seq(TypeNames)
  /\ r.step = "staff" => OfTeacher(r)
  /\ r.step = "put" => r.body \in Teachers
  /\ r.step \in {"staff", "put"} => r.present = {}
  /\ r.step = "name" =>
       /\ (r.dt = 0 /\ r.body \in Teachers) \/ OfTeacher(r)
       /\ GivenRight(r)
       /\ \A t \in r.seen.types : Kept(t) /\ t.discipline = r.discipline
Asked(r) ==
  DOMAIN r = Fields /\ (r.step = "idle" \/ Updating(r) \/ Teaching(r) \/ Leaving(r) \/ ByHand(r))
ReqInv == DOMAIN req = Handlers /\ \A h \in Handlers : Asked(req[h])

TypedInv == RowsInv /\ EventsInv /\ ReqInv

LEMMA KeptStays == ASSUME RowsInv, Later, NEW p, Kept(p) PROVE Kept(p)'
<1>1. made \in Nat /\ made' \in Nat /\ made <= made' /\ p.id \in 1..made
  BY DEF RowsInv, Later, Kept, TypeRow
<1>2. p \in TypeRow'
  BY <1>1 DEF Kept, TypeRow
<1>3. \A s \in types' : s.id = p.id => s = p
  BY <1>1 DEF Later, Kept
<1> QED BY <1>2, <1>3 DEF Kept

LEMMA OfTypeStays == ASSUME RowsInv, Later, NEW r, OfType(r) PROVE OfType(r)'
  BY DEF RowsInv, Later, OfType, TypeName, Or

LEMMA OfTeacherStays == ASSUME RowsInv, Later, NEW r, OfTeacher(r) PROVE OfTeacher(r)'
  BY DEF RowsInv, Later, OfTeacher

LEMMA GivenStays == ASSUME RowsInv, Later, NEW r, GivenRight(r) PROVE GivenRight(r)'
<1> SUFFICES ASSUME NEW g \in r.present
             PROVE  \E id \in 1..made', name \in TypeNames :
                      /\ g = <<id, RoleOf(name)>>
                      /\ \A s \in types' : s.id = id => s.discipline = r.discipline /\ s.name = name
  BY DEF GivenRight
<1>1. PICK id \in 1..made, name \in TypeNames :
        /\ g = <<id, RoleOf(name)>>
        /\ \A s \in types : s.id = id => s.discipline = r.discipline /\ s.name = name
  BY DEF GivenRight
<1>2. id \in 1..made' /\ \A s \in types' : s.id = id => s \in types
  BY DEF RowsInv, Later
<1> QED BY <1>1, <1>2

LEMMA AskedStays == ASSUME RowsInv, Later, NEW r, Asked(r) PROVE Asked(r)'
<1>1. Updating(r) => Updating(r)'
  BY DEF Updating, EventRow
<1>2. Teaching(r) => Teaching(r)'
  BY KeptStays, OfTypeStays, OfTeacherStays DEF Teaching, TypeName
<1>3. Leaving(r) => Leaving(r)'
  BY KeptStays DEF Leaving
<1>4. ByHand(r) => ByHand(r)'
  BY KeptStays, OfTeacherStays, GivenStays DEF ByHand
<1> QED BY <1>1, <1>2, <1>3, <1>4 DEF Asked

LEMMA IdleAsked == Asked(Idle)
  BY DEF Asked, Idle, Fields

\* A request goes on as one that is asked, and the others stay what they were.
LEMMA GoesTyped ==
  ASSUME RowsInv, ReqInv, Later, NEW h \in Handlers, NEW r, Goes(h, r), Asked(r)'
  PROVE  ReqInv'
<1>1. DOMAIN req' = Handlers /\ req'[h] = r /\ \A g \in Handlers : g # h => req'[g] = req[g]
  BY DEF Goes, ReqInv
<1>2. \A g \in Handlers : Asked(req[g])'
  <2> TAKE g \in Handlers
  <2>1. CASE g = h
    BY <1>1, <2>1
  <2>2. CASE g # h
    <3>1. PICK q : q = req[g]
      OBVIOUS
    <3>2. Asked(q)'
      BY <3>1, AskedStays DEF ReqInv
    <3> QED BY <1>1, <2>2, <3>1, <3>2
  <2> QED BY <2>1, <2>2
<1> QED BY <1>1, <1>2 DEF ReqInv

LEMMA EndsTyped ==
  ASSUME RowsInv, ReqInv, Later, NEW h \in Handlers, Goes(h, Idle)
  PROVE  ReqInv'
<1>1. Asked(Idle)'
  BY DEF Asked, Idle, Fields
<1> QED BY <1>1, GoesTyped

LEMMA FailsTyped == ASSUME TypedInv, NEW h \in Handlers, Fails(h) PROVE TypedInv'
  BY SameTables, EndsTyped DEF TypedInv, Fails

\* A step that changes no row.
LEMMA ReadsTyped ==
  ASSUME TypedInv, NEW h \in Handlers, NEW r, Goes(h, r), UNCHANGED <<events, rows>>, Asked(r)
  PROVE  TypedInv'
<1>1. RowsInv' /\ EventsInv' /\ Later
  BY SameTables DEF TypedInv
<1>2. Asked(r)'
  BY <1>1, AskedStays DEF TypedInv
<1> QED BY <1>1, <1>2, GoesTyped DEF TypedInv

-----------------------------------------------------------------------------
(* Events *)

LEMMA LastIsWhole ==
  ASSUME NEW period \in Periods, NEW start \in Int, NEW end \in Int
  PROVE  getEndIndex(start, end, period) \in Int /\ getLastEndDate(end, period) \in Int
<1>1. Divider(period) \in Nat \ {0} /\ Divider(period) \div DAY \in Nat \ {0}
  BY DEF Divider, WEEK, FORTNITE, DAY
<1>2. getEndIndex(start, end, period) \in Int
  BY <1>1, CeilWhole DEF getEndIndex
<1>3. semester.endDate \in Int
  BY SemesterIsOne, SemesterDatesAssumption
<1>4. PICK days \in Nat \ {0} : days = Divider(period) \div DAY
  BY <1>1
<1>5. PICK difference \in Int : difference = Ceil(semester.endDate - FORTNITE - end, DAY)
  BY <1>3, CeilWhole DEF FORTNITE, WEEK, DAY
<1>6. PICK n \in Int : n = difference \div days
  OBVIOUS
<1>7. end + n * days * DAY \in Int
  BY DEF DAY
<1>8. getLastEndDate(end, period) = end + n * days * DAY
  BY <1>4, <1>5, <1>6 DEF getLastEndDate
<1> QED BY <1>2, <1>7, <1>8

\* A row of lessons, and the type its lesson is of.
LEMMA LessonIsKept ==
  ASSUME RowsInv, EventsInv, NEW id \in DOMAIN events, NEW lesson \in First(events[id].lessons),
         lesson # 0
  PROVE  Kept(Row(lesson)) /\ Row(lesson).id = lesson
<1>1. lesson \in events[id].lessons
  BY DEF First
<1>2. \E t \in types : t.id = lesson
  BY <1>1 DEF EventsInv, Exists
<1>3. Row(lesson) \in types /\ Row(lesson).id = lesson
  BY <1>2 DEF Row
<1> QED BY <1>3 DEF Kept, RowsInv

LEMMA CreateTyped ==
  ASSUME TypedInv, NEW h \in Handlers, NEW id \in EventIds, NEW body \in CreateBodies,
         createGroupEvent(h, id, body)
  PROVE  TypedInv'
<1> DEFINE end == IF body.period = "NO_PERIOD" THEN body.end ELSE getLastEndDate(body.end, body.period)
           last == getEndIndex(body.start, end, body.period)
           new == [period |-> body.period, start |-> body.start, end |-> end,
                   infos |-> 0..last, lessons |-> {}]
<1>1. /\ body.period \in Periods /\ body.start \in Int /\ body.end \in Int
      /\ body.discipline \in Disciplines \cup {NONE} /\ body.type \in TypeNames \cup {NONE}
      /\ body.teachers \in SUBSET Teachers
      /\ body.discipline # NONE => body.type # NONE
  BY ScheduleAssumption
<1>2. end \in Int /\ last \in Int
  BY <1>1, LastIsWhole
<1>3. UNCHANGED rows /\ events' = [e \in DOMAIN events \cup {id} |-> IF e # id THEN events[e] ELSE new]
  BY DEF createGroupEvent
<1>4. EventRow(new)
  <2>1. IsFiniteSet(0..last) /\ 0..last \subseteq Nat
    BY <1>2, FS_Interval
  <2> HIDE DEF end, last
  <2> QED BY <1>1, <1>2, <2>1 DEF EventRow
<1>5. RowsInv' /\ Later
  BY <1>3 DEF TypedInv, RowsInv, TypeRow, TeacherRow, rows, Later
<1>6. EventsInv'
  <2> HIDE DEF new
  <2>1. DOMAIN events' \subseteq EventIds
    BY <1>3 DEF TypedInv, EventsInv
  <2>2. ASSUME NEW e \in DOMAIN events'
        PROVE  EventRow(events'[e]) /\ \A i \in events'[e].lessons : Exists(i)'
    <3>1. CASE e = id
      BY <1>3, <1>4, <3>1 DEF new
    <3>2. CASE e # id
      <4>1. e \in DOMAIN events /\ events'[e] = events[e]
        BY <1>3, <3>2
      <4> QED BY <1>3, <4>1 DEF TypedInv, EventsInv, Exists, rows
    <3> QED BY <3>1, <3>2
  <2> QED BY <2>1, <2>2 DEF EventsInv, EventRow
<1>7. ReqInv'
  <2>1. CASE body.discipline = NONE
    BY <1>5, <2>1, EndsTyped DEF createGroupEvent, TypedInv
  <2>2. CASE body.discipline # NONE
    <3>1. PICK r : Goes(h, r) /\ r = [Idle EXCEPT !.step = "find", !.kind = "create", !.event = id,
                 !.body = body, !.discipline = body.discipline, !.adding = SetToSeq(body.teachers)]
      BY <2>2 DEF createGroupEvent
    <3>2. /\ DOMAIN r = Fields /\ r.step = "find" /\ r.kind = "create" /\ r.body = body
          /\ r.discipline = body.discipline /\ r.adding = SetToSeq(body.teachers)
      BY <3>1 DEF Idle, Fields
    <3>3. IsFiniteSet(body.teachers)
      BY <1>1, ScheduleAssumption, FS_Subset
    <3>4. SetToSeq(body.teachers) \in Seq(body.teachers)
      BY <3>3, SequenceOf
    <3>5. r.adding \in Seq(Teachers)
      BY <1>1, <3>2, <3>4
    <3>6. TypeName(r) \in TypeNames
      BY <1>1, <2>2, <3>2 DEF TypeName
    <3>7. Teaching(r)
      BY <1>1, <2>2, <3>2, <3>5, <3>6 DEF Teaching
    <3>8. Asked(r)
      BY <3>2, <3>7 DEF Asked
    <3>9. Asked(r)'
      BY <1>5, <3>8, AskedStays DEF TypedInv
    <3> QED BY <1>5, <3>1, <3>9, GoesTyped DEF TypedInv
  <2> QED BY <2>1, <2>2
<1> QED BY <1>5, <1>6, <1>7 DEF TypedInv

LEMMA DeleteTyped ==
  ASSUME TypedInv, NEW h \in Handlers, NEW id \in DOMAIN events, deleteEvent(h, id)
  PROVE  TypedInv'
<1>1. events' = [e \in DOMAIN events \ {id} |-> events[e]] /\ UNCHANGED rows
  BY DEF deleteEvent
<1>2. RowsInv' /\ Later
  BY <1>1 DEF TypedInv, RowsInv, TypeRow, TeacherRow, rows, Later
<1>3. EventsInv'
  BY <1>1 DEF TypedInv, EventsInv, EventRow, Exists, rows
<1>4. PICK lesson \in First(events[id].lessons) :
        Goes(h, IF lesson = 0 THEN Idle
                ELSE [Idle EXCEPT !.step = "target", !.kind = "delete", !.event = id,
                      !.present = Row(lesson), !.discipline = Row(lesson).discipline])
  BY DEF deleteEvent
<1>5. CASE lesson = 0
  BY <1>2, <1>3, <1>4, <1>5, EndsTyped DEF TypedInv
<1>6. CASE lesson # 0
  <2>1. PICK r : Goes(h, r) /\ r = [Idle EXCEPT !.step = "target", !.kind = "delete", !.event = id,
                      !.present = Row(lesson), !.discipline = Row(lesson).discipline]
    BY <1>4, <1>6
  <2>2. /\ DOMAIN r = Fields /\ r.step = "target" /\ r.kind = "delete"
        /\ r.present = Row(lesson) /\ r.discipline = r.present.discipline
    BY <2>1 DEF Idle, Fields
  <2>3. Kept(r.present)
    BY <1>6, <2>2, LessonIsKept DEF TypedInv
  <2>4. Asked(r)
    BY <2>2, <2>3 DEF Asked, Leaving
  <2>5. Asked(r)'
    BY <1>2, <2>4, AskedStays DEF TypedInv
  <2> QED BY <1>2, <1>3, <2>1, <2>5, GoesTyped DEF TypedInv
<1> QED BY <1>5, <1>6

LEMMA UpdateTyped ==
  ASSUME TypedInv, NEW h \in Handlers, NEW id \in DOMAIN events, NEW body \in UpdateBodies,
         updateEvent(h, id, body)
  PROVE  TypedInv'
<1>1. PICK r : Goes(h, r) /\ r = [Idle EXCEPT !.step = "update", !.kind = "update", !.event = id, !.body = body,
                                  !.old = events[id]]
  BY DEF updateEvent
<1>2. DOMAIN r = Fields /\ r.step = "update" /\ r.kind = "update" /\ r.body = body /\ r.old = events[id]
  BY <1>1 DEF Idle, Fields
<1>3. Asked(r)
  BY <1>2 DEF Asked, Updating, TypedInv, EventsInv
<1> QED BY <1>1, <1>3, ReadsTyped DEF updateEvent

LEMMA NewTimes ==
  ASSUME NEW body \in UpdateBodies, NEW old, EventRow(old)
  PROVE  /\ NewPeriod(old, body) \in Periods
         /\ NewStart(old, body) \in Int
         /\ \A kept \in Int : NewEnd(old, body, kept) \in Int
         /\ AddedInfos(old, body) \in SUBSET Nat /\ IsFiniteSet(AddedInfos(old, body))
<1>1. /\ body.period \in Periods \cup {NONE} /\ body.start \in Nat \cup {NONE}
      /\ body.end \in Nat \cup {NONE}
  BY ScheduleAssumption
<1>2. /\ old.period \in Periods /\ old.start \in Int /\ old.end \in Int
      /\ Cardinality(old.infos) \in Nat
  BY FS_CardinalityType DEF EventRow
<1>3. PICK period \in Periods : period = NewPeriod(old, body)
  BY <1>1, <1>2 DEF NewPeriod, Or
<1>4. \A a, b \in Int : AtHour(a, b) \in Int
  BY DEF AtHour, DAY
<1>5. PICK start \in Int : start = NewStart(old, body)
  <2>1. ASSUME body.start # NONE PROVE body.start \in Int /\ AtHour(old.start, body.start) \in Int
    <3>1. body.start \in Int
      BY <1>1, <2>1
    <3>2. old.start \in Int
      BY <1>2
    <3> QED BY <1>4, <3>1, <3>2
  <2>2. NewStart(old, body) \in {old.start, body.start, AtHour(old.start, body.start)}
    BY DEF NewStart
  <2>3. body.start = NONE => NewStart(old, body) = old.start
    BY DEF NewStart
  <2>4. NewStart(old, body) \in Int
    BY <1>2, <2>1, <2>2, <2>3
  <2> QED BY <2>4
<1>6. \A kept \in Int : Or(body.end, kept) \in Int
  BY <1>1 DEF Or
<1>0. \A kept \in Int : NewEnd(old, body, kept) \in Int
  BY <1>2, <1>3, <1>6, LastIsWhole DEF NewEnd
<1>7. PICK end \in Int : end = NewEnd(old, body, old.end)
  BY <1>0, <1>2
<1>8. PICK last \in Int : last = LastIndex(old, body)
  BY <1>3, <1>5, <1>7, LastIsWhole DEF LastIndex
<1>9. PICK n \in Nat : n = Cardinality(old.infos)
  BY <1>2
<1>10. n..(last - 1) \in SUBSET Nat /\ IsFiniteSet(n..(last - 1))
  BY FS_Interval
<1>11. AddedInfos(old, body) \in {{}, n..(last - 1)}
  BY <1>8, <1>9 DEF AddedInfos
<1> QED BY <1>0, <1>3, <1>5, <1>10, <1>11, FS_EmptySet

LEMMA WriteTyped ==
  ASSUME TypedInv, NEW h \in Handlers, NEW moment \in Moments, WriteEvent(h, moment)
  PROVE  TypedInv'
<1>1. PICK id, body, old : id = req[h].event /\ body = req[h].body /\ old = req[h].old
  OBVIOUS
<1>2. req[h].step = "update"
  BY DEF WriteEvent
<1>3. Updating(req[h]) /\ DOMAIN req[h] = Fields
  BY <1>2 DEF TypedInv, ReqInv, Asked, Teaching, Leaving, ByHand
<1>4. body \in UpdateBodies /\ EventRow(old) /\ req[h].kind = "update"
  BY <1>1, <1>3 DEF Updating
<1>5. CASE Refuses(h)
  BY <1>5, IdleAsked, ReadsTyped DEF Refuses
<1>6. CASE ~Refuses(h)
  <2> DEFINE infos == {i \in events[id].infos : KeepsInfo(i, old, body)} \cup AddedInfos(old, body)
             new == [period |-> NewPeriod(old, body), start |-> NewStart(old, body),
                     end |-> NewEnd(old, body, events[id].end), lessons |-> events[id].lessons, infos |-> infos]
  <2>1. id \in DOMAIN events /\ UNCHANGED rows /\ events' = [events EXCEPT ![id] = new]
    BY <1>1, <1>6, ZenonT(60) DEF WriteEvent
  <2>2. EventRow(events[id])
    BY <2>1 DEF TypedInv, EventsInv
  <2>3. infos \in SUBSET Nat /\ IsFiniteSet(infos)
    <3>1. IsFiniteSet({i \in events[id].infos : KeepsInfo(i, old, body)})
      BY <2>2, FS_Subset DEF EventRow
    <3>2. AddedInfos(old, body) \in SUBSET Nat /\ IsFiniteSet(AddedInfos(old, body))
      BY <1>4, NewTimes
    <3> QED BY <2>2, <3>1, <3>2, FS_Union DEF EventRow
  <2>4. EventRow(new)
    <3> HIDE DEF infos
    <3>2. events[id].lessons \in SUBSET Nat /\ events[id].end \in Int
      BY <2>2 DEF EventRow
    <3>1. /\ NewPeriod(old, body) \in Periods /\ NewStart(old, body) \in Int
          /\ NewEnd(old, body, events[id].end) \in Int
      BY <1>4, <3>2, NewTimes
    <3> QED BY <2>3, <3>1, <3>2 DEF EventRow
  <2>5. RowsInv' /\ Later
    BY <2>1 DEF TypedInv, RowsInv, TypeRow, TeacherRow, rows, Later
  <2>6. EventsInv'
    <3>1. \A i \in new.lessons : Exists(i)'
      BY <2>1 DEF TypedInv, EventsInv, Exists, rows
    <3> HIDE DEF new
    <3>2. DOMAIN events' = DOMAIN events
      BY <2>1
    <3>3. ASSUME NEW e \in DOMAIN events
          PROVE  EventRow(events'[e]) /\ \A i \in events'[e].lessons : Exists(i)'
      <4>1. CASE e = id
        BY <2>1, <2>4, <3>1, <4>1
      <4>2. CASE e # id
        <5>1. events'[e] = events[e]
          BY <2>1, <4>2
        <5> QED BY <2>1, <5>1 DEF TypedInv, EventsInv, Exists, rows
      <4> QED BY <4>1, <4>2
    <3> QED BY <3>2, <3>3 DEF TypedInv, EventsInv, EventRow
  <2>7. ReqInv'
    <3>1. PICK lesson \in First(events[id].lessons) :
             Goes(h, IF ~WithLesson(body) \/ (lesson = 0 /\ NONE \in {body.discipline, body.type})
                     THEN Idle
                     ELSE [req[h] EXCEPT
                       !.step = IF lesson = 0 THEN "find" ELSE "count",
                       !.present = IF lesson = 0 THEN NONE ELSE Row(lesson),
                       !.discipline = IF body.discipline # NONE THEN body.discipline ELSE Row(lesson).discipline,
                       !.adding = IF body.teachers = NONE THEN << >> ELSE SetToSeq(body.teachers)])
      BY <1>1, <1>6 DEF WriteEvent
    <3>2. CASE ~WithLesson(body) \/ (lesson = 0 /\ NONE \in {body.discipline, body.type})
      BY <2>5, <3>1, <3>2, EndsTyped DEF TypedInv
    <3>3. CASE ~(~WithLesson(body) \/ (lesson = 0 /\ NONE \in {body.discipline, body.type}))
      <4>1. PICK r : Goes(h, r) /\ r = [req[h] EXCEPT
                       !.step = IF lesson = 0 THEN "find" ELSE "count",
                       !.present = IF lesson = 0 THEN NONE ELSE Row(lesson),
                       !.discipline = IF body.discipline # NONE THEN body.discipline ELSE Row(lesson).discipline,
                       !.adding = IF body.teachers = NONE THEN << >> ELSE SetToSeq(body.teachers)]
        BY <3>1, <3>3
      <4>2. /\ DOMAIN r = Fields /\ r.kind = "update" /\ r.body = body
            /\ r.step = IF lesson = 0 THEN "find" ELSE "count"
            /\ r.present = IF lesson = 0 THEN NONE ELSE Row(lesson)
            /\ r.discipline = IF body.discipline # NONE THEN body.discipline ELSE Row(lesson).discipline
            /\ r.adding = IF body.teachers = NONE THEN << >> ELSE SetToSeq(body.teachers)
        BY <1>1, <1>3, <1>4, <4>1 DEF Fields
      <4>3. /\ body.discipline \in Disciplines \cup {NONE} /\ body.type \in TypeNames \cup {NONE}
            /\ body.teachers \in (SUBSET Teachers) \cup {NONE}
        BY <1>4, ScheduleAssumption
      <4>4. lesson # 0 => Kept(Row(lesson))
        BY <2>1, LessonIsKept DEF TypedInv
      <4>5. lesson # 0 => Row(lesson).discipline \in Disciplines /\ Row(lesson).name \in TypeNames
        BY <4>4 DEF Kept, TypeRow
      <4>6. r.discipline \in Disciplines /\ TypeName(r) \in TypeNames
        BY <3>3, <4>2, <4>3, <4>5 DEF TypeName, Or
      <4>7. r.adding \in Seq(Teachers)
        <5>1. CASE body.teachers = NONE
          BY <4>2, <5>1
        <5>2. CASE body.teachers # NONE
          <6>1. body.teachers \in SUBSET Teachers /\ IsFiniteSet(body.teachers)
            BY <4>3, <5>2, ScheduleAssumption, FS_Subset
          <6>2. SetToSeq(body.teachers) \in Seq(body.teachers)
            BY <6>1, SequenceOf
          <6> QED BY <4>2, <5>2, <6>1, <6>2
        <5> QED BY <5>1, <5>2
      <4>8. Teaching(r)
        BY <4>2, <4>4, <4>6, <4>7 DEF Teaching
      <4>9. Asked(r)
        BY <4>2, <4>8 DEF Asked
      <4>10. Asked(r)'
        BY <2>5, <4>9, AskedStays DEF TypedInv
      <4> QED BY <2>5, <4>1, <4>10, GoesTyped DEF TypedInv
    <3> QED BY <3>2, <3>3
  <2> QED BY <2>5, <2>6, <2>7 DEF TypedInv
<1> QED BY <1>5, <1>6

-----------------------------------------------------------------------------
(* The discipline of an event *)

LEMMA WhoIsWhere ==
  ASSUME ReqInv, NEW h \in Handlers
  PROVE  /\ DOMAIN req[h] = Fields
         /\ req[h].step \in {"count", "ready", "clear", "find", "type", "teachers", "join", "role", "lesson"}
              => Teaching(req[h])
         /\ req[h].step = "remove" => Teaching(req[h]) \/ Leaving(req[h])
         /\ req[h].step \in {"target", "read", "untype"} => Leaving(req[h])
         /\ req[h].step \in {"staff", "put", "name"} => ByHand(req[h])
  BY DEF ReqInv, Asked, Teaching, Updating, Leaving, ByHand

\* A request that goes on with no field changed but its step and what it read.
LEMMA CountTyped ==
  ASSUME TypedInv, NEW h \in Handlers, CountEvents(h) \/ ReadToClear(h)
  PROVE  TypedInv'
<1>1. Teaching(req[h]) /\ DOMAIN req[h] = Fields /\ req[h].step \in {"count", "ready"}
  BY WhoIsWhere DEF TypedInv, CountEvents, ReadToClear
<1>2. PICK r : /\ Goes(h, r) /\ UNCHANGED <<events, rows>>
               /\ \/ r = [req[h] EXCEPT !.step =
                           IF Cardinality(Taught(req[h].present.id)) = 1 THEN "ready" ELSE "find"]
                  \/ r = [req[h] EXCEPT !.step = "clear", !.seen = Reading(req[h].present.discipline)]
  BY DEF CountEvents, ReadToClear, Reads
<1>3. /\ DOMAIN r = Fields /\ r.step \in {"ready", "find", "clear"}
      /\ r.kind = req[h].kind /\ r.discipline = req[h].discipline /\ r.present = req[h].present
      /\ r.body = req[h].body /\ r.adding = req[h].adding
  BY <1>1, <1>2 DEF Fields
<1>4. Teaching(r)
  BY <1>1, <1>3 DEF Teaching, TypeName
<1> QED BY <1>2, <1>3, <1>4, ReadsTyped DEF Asked

LEMMA ClearTyped == ASSUME TypedInv, NEW h \in Handlers, clearDiscipline(h) PROVE TypedInv'
<1>1. Teaching(req[h]) /\ DOMAIN req[h] = Fields /\ req[h].step = "clear"
  BY WhoIsWhere DEF TypedInv, clearDiscipline
<1>2. CASE Fails(h)
  BY <1>2, FailsTyped
<1>3. CASE ~Fails(h)
  <2>1. PICK A, B : Gone(A, B)
    BY <1>3 DEF clearDiscipline
  <2>2. PICK r : Goes(h, r) /\ r = [req[h] EXCEPT !.step = "find"]
    BY <1>3 DEF clearDiscipline
  <2>3. /\ DOMAIN r = Fields /\ r.step = "find"
        /\ r.kind = req[h].kind /\ r.discipline = req[h].discipline /\ r.present = req[h].present
        /\ r.body = req[h].body /\ r.adding = req[h].adding
    BY <1>1, <2>2 DEF Fields
  <2>4. Asked(r)
    BY <1>1, <2>3 DEF Asked, Teaching, TypeName
  <2>5. RowsInv' /\ EventsInv' /\ Later
    BY <2>1, GoneKeeps DEF TypedInv
  <2>6. Asked(r)'
    BY <2>4, <2>5, AskedStays DEF TypedInv
  <2> QED BY <2>2, <2>5, <2>6, GoesTyped DEF TypedInv
<1> QED BY <1>2, <1>3

\* What a request becomes once it has its type.
LEMMA WithTypeFields ==
  ASSUME NEW q, DOMAIN q = Fields, Teaching(q), NEW reading, NEW id
  PROVE  LET r == WithType(q, reading, id)
         IN /\ DOMAIN r = Fields /\ r.step = "remove" /\ r.kind = q.kind /\ r.type = id
            /\ r.discipline = q.discipline /\ r.present = q.present /\ r.body = q.body /\ r.adding = q.adding
            /\ r.removing = IF q.kind # "update" THEN << >>
                            ELSE SetToSeq(Removable(reading, id, Range(q.adding)))
            /\ TypeName(r) = TypeName(q) /\ r.event = q.event /\ r.seen = NONE
  BY DEF WithType, Fields, TypeName

LEMMA FindTypeTyped == ASSUME TypedInv, NEW h \in Handlers, FindType(h) PROVE TypedInv'
<1>1. PICK q : q = req[h]
  OBVIOUS
<1>2. Teaching(q) /\ DOMAIN q = Fields /\ q.step = "find"
  BY <1>1, WhoIsWhere DEF TypedInv, FindType
<1> DEFINE reading == Reading(q.discipline)
           found == Named(reading, TypeName(q))
<1>3. CASE found = {}
  <2>1. PICK r : Goes(h, r) /\ UNCHANGED <<events, rows>> /\ r = [q EXCEPT !.step = "type"]
    BY <1>1, <1>3 DEF FindType, Reads
  <2>2. /\ DOMAIN r = Fields /\ r.step = "type"
        /\ r.kind = q.kind /\ r.discipline = q.discipline /\ r.present = q.present
        /\ r.body = q.body /\ r.adding = q.adding
    BY <1>2, <2>1 DEF Fields
  <2>3. Asked(r)
    BY <1>2, <2>2 DEF Asked, Teaching, TypeName
  <2> QED BY <2>1, <2>3, ReadsTyped
<1>4. CASE found # {}
  <2>1. PICK t \in found : Goes(h, WithType(q, reading, t.id)) /\ UNCHANGED <<events, rows>>
    BY <1>1, <1>4 DEF FindType, Reads
  <2>2. PICK r : r = WithType(q, reading, t.id)
    OBVIOUS
  <2>3. t \in types /\ t.discipline = q.discipline /\ t.name = TypeName(q)
    BY <2>1 DEF Named, Reading, TypesOf
  <2>4. /\ DOMAIN r = Fields /\ r.step = "remove" /\ r.kind = q.kind /\ r.type = t.id
        /\ r.discipline = q.discipline /\ r.adding = q.adding /\ TypeName(r) = TypeName(q)
    BY <1>2, <2>2, WithTypeFields
  <2>5. OfType(r)
    BY <2>3, <2>4 DEF OfType, TypedInv, RowsInv, TypeRow
  <2>6. Asked(r)
    BY <1>2, <2>4, <2>5 DEF Asked, Teaching
  <2> QED BY <2>1, <2>2, <2>6, ReadsTyped
<1> QED BY <1>3, <1>4

LEMMA MakeTypeTyped == ASSUME TypedInv, NEW h \in Handlers, MakeType(h) PROVE TypedInv'
<1>1. PICK q : q = req[h]
  OBVIOUS
<1>2. Teaching(q) /\ DOMAIN q = Fields /\ q.step = "type"
  BY <1>1, WhoIsWhere DEF TypedInv, MakeType
<1>3. PICK new : new = [id |-> made + 1, discipline |-> q.discipline, name |-> TypeName(q)]
  OBVIOUS
<1>4. new \in [id : {made + 1}, discipline : Disciplines, name : TypeNames]
  BY <1>2, <1>3 DEF Teaching
<1>5. Makes({new}, {}, {})
  BY <1>1, <1>3 DEF MakeType
<1>6. RowsInv' /\ EventsInv' /\ Later
  BY <1>4, <1>5, TypeIsMade DEF TypedInv
<1>7. types' = types \cup {new}
  BY <1>5 DEF Makes
<1>8. PICK reading : reading = [Reading(q.discipline) EXCEPT !.types = @ \cup {new}]
  OBVIOUS
<1>9. reading.types = TypesOf(q.discipline) \cup {new}
  BY <1>8 DEF Reading
<1>10. PICK t \in Named(reading, new.name) : Goes(h, WithType(q, reading, t.id))
  BY <1>1, <1>3, <1>8 DEF MakeType
<1>11. PICK r : r = WithType(q, reading, t.id)
  OBVIOUS
<1>12. t \in types' /\ t.discipline = q.discipline /\ t.name = TypeName(q)
  BY <1>3, <1>7, <1>9, <1>10 DEF Named, TypesOf
<1>13. /\ DOMAIN r = Fields /\ r.step = "remove" /\ r.kind = q.kind /\ r.type = t.id
       /\ r.discipline = q.discipline /\ r.adding = q.adding /\ TypeName(r) = TypeName(q)
  BY <1>2, <1>11, WithTypeFields
<1>14. OfType(r)'
  <2>1. t.id \in 1..made'
    BY <1>6, <1>12 DEF RowsInv, TypeRow
  <2>2. \A s \in types' : s.id = t.id => s = t
    BY <1>6, <1>12 DEF RowsInv
  <2>3. \A s \in types' : s.id = r.type => s.discipline = r.discipline /\ s.name = TypeName(r)
    BY <1>12, <1>13, <2>2
  <2> QED BY <1>13, <2>1, <2>3 DEF OfType, TypeName
<1>15. Teaching(r)'
  BY <1>2, <1>13, <1>14 DEF Teaching, TypeName
<1>16. Asked(r)'
  BY <1>13, <1>15 DEF Asked
<1> QED BY <1>6, <1>10, <1>11, <1>16, GoesTyped DEF TypedInv

LEMMA RemoveTyped == ASSUME TypedInv, NEW h \in Handlers, removeTeacher(h) PROVE TypedInv'
<1>1. PICK q : q = req[h]
  OBVIOUS
<1>2. DOMAIN q = Fields /\ q.step = "remove" /\ (Teaching(q) \/ Leaving(q))
  BY <1>1, WhoIsWhere DEF TypedInv, removeTeacher
<1>3. CASE Fails(h)
  BY <1>3, FailsTyped
<1>4. CASE ~Fails(h)
  <2>1. PICK id : Gone({}, {id})
    BY <1>4 DEF removeTeacher
  <2>2. PICK r : Goes(h, r) /\ r = [q EXCEPT !.removing = Tail(@)]
    BY <1>1, <1>4 DEF removeTeacher
  <2>3. /\ DOMAIN r = Fields /\ r.step = q.step
        /\ r.kind = q.kind /\ r.discipline = q.discipline /\ r.present = q.present
        /\ r.body = q.body /\ r.adding = q.adding /\ r.type = q.type
    BY <1>2, <2>2 DEF Fields
  <2>4. Teaching(q) => Teaching(r)
    BY <1>2, <2>3 DEF Teaching, TypeName, OfType
  <2>5. Leaving(q) => Leaving(r)
    BY <2>3 DEF Leaving
  <2>6. RowsInv' /\ EventsInv' /\ Later
    BY <2>1, GoneKeeps DEF TypedInv
  <2>7. Asked(r)'
    BY <1>2, <2>3, <2>4, <2>5, <2>6, AskedStays DEF TypedInv, Asked
  <2> QED BY <2>2, <2>6, <2>7, GoesTyped DEF TypedInv
<1> QED BY <1>3, <1>4

LEMMA RemovedTyped == ASSUME TypedInv, NEW h \in Handlers, Removed(h) PROVE TypedInv'
<1>1. PICK q : q = req[h]
  OBVIOUS
<1>2. DOMAIN q = Fields /\ q.step = "remove" /\ (Teaching(q) \/ Leaving(q))
  BY <1>1, WhoIsWhere DEF TypedInv, Removed
<1>3. PICK r : /\ Goes(h, r) /\ UNCHANGED <<events, rows>>
               /\ r = [q EXCEPT !.step = IF q.kind = "delete" THEN "untype" ELSE "teachers"]
  BY <1>1 DEF Removed, Reads
<1>4. /\ DOMAIN r = Fields /\ r.step = IF q.kind = "delete" THEN "untype" ELSE "teachers"
      /\ r.kind = q.kind /\ r.discipline = q.discipline /\ r.present = q.present
      /\ r.body = q.body /\ r.adding = q.adding /\ r.type = q.type
  BY <1>2, <1>3 DEF Fields
<1>5. Teaching(q) => Teaching(r)
  BY <1>2, <1>4 DEF Teaching, TypeName, OfType
<1>6. Leaving(q) => Leaving(r)
  BY <1>4 DEF Leaving
<1>7. Asked(r)
  BY <1>2, <1>4, <1>5, <1>6 DEF Asked
<1> QED BY <1>3, <1>7, ReadsTyped

LEMMA ProceedFields ==
  ASSUME NEW q, DOMAIN q = Fields, Teaching(q), q.step \in {"teachers", "role"}, q.adding # << >>
  PROVE  LET r == Proceed(q)
         IN /\ Asked(r) /\ Teaching(r) /\ r.step = "teachers" /\ r.kind = q.kind
            /\ r.discipline = q.discipline /\ r.type = q.type /\ TypeName(r) = TypeName(q)
<1>1. PICK r : r = Proceed(q)
  OBVIOUS
<1>2. /\ DOMAIN r = Fields /\ r.step = "teachers" /\ r.kind = q.kind
      /\ r.discipline = q.discipline /\ r.type = q.type /\ TypeName(r) = TypeName(q)
      /\ r.adding = Tail(q.adding) /\ r.body = q.body /\ r.present = q.present
  BY <1>1 DEF Proceed, Fields, TypeName
<1>3. r.adding \in Seq(Teachers)
  BY <1>2 DEF Teaching
<1>4. Teaching(r)
  BY <1>2, <1>3 DEF Teaching, OfType
<1> QED BY <1>1, <1>2, <1>4 DEF Asked

LEMMA FindTeacherTyped == ASSUME TypedInv, NEW h \in Handlers, FindTeacher(h) PROVE TypedInv'
<1>1. PICK q : q = req[h]
  OBVIOUS
<1>2. DOMAIN q = Fields /\ q.step = "teachers" /\ Teaching(q) /\ q.adding # << >>
  BY <1>1, WhoIsWhere DEF TypedInv, FindTeacher
<1> DEFINE found == {t \in TeachersOf(q.discipline) : t.teacher = Head(q.adding)}
<1>3. CASE found = {}
  <2>1. PICK r : Goes(h, r) /\ UNCHANGED <<events, rows>> /\ r = [q EXCEPT !.step = "join"]
    BY <1>1, <1>3 DEF FindTeacher, Reads
  <2>2. /\ DOMAIN r = Fields /\ r.step = "join"
        /\ r.kind = q.kind /\ r.discipline = q.discipline /\ r.present = q.present
        /\ r.body = q.body /\ r.adding = q.adding /\ r.type = q.type
    BY <1>2, <2>1 DEF Fields
  <2>3. Asked(r)
    BY <1>2, <2>2 DEF Asked, Teaching, TypeName, OfType
  <2> QED BY <2>1, <2>3, ReadsTyped
<1>4. CASE found # {}
  <2>1. PICK t \in found :
          IF \E o \in RolesOf(t.id) : o.role = RoleOf(TypeName(q)) THEN Reads(h, Proceed(q))
          ELSE Reads(h, [q EXCEPT !.step = "role", !.dt = t.id])
    BY <1>1, <1>4 DEF FindTeacher
  <2>2. CASE Reads(h, Proceed(q))
    BY <1>2, <2>2, ProceedFields, ReadsTyped DEF Reads
  <2>3. CASE Reads(h, [q EXCEPT !.step = "role", !.dt = t.id])
    <3>1. PICK r : Goes(h, r) /\ UNCHANGED <<events, rows>> /\ r = [q EXCEPT !.step = "role", !.dt = t.id]
      BY <2>3 DEF Reads
    <3>2. /\ DOMAIN r = Fields /\ r.step = "role" /\ r.dt = t.id
          /\ r.kind = q.kind /\ r.discipline = q.discipline /\ r.present = q.present
          /\ r.body = q.body /\ r.adding = q.adding /\ r.type = q.type
      BY <1>2, <3>1 DEF Fields
    <3>3. OfTeacher(r)
      <4>1. t \in teachers /\ t.discipline = q.discipline
        BY <2>1 DEF TeachersOf
      <4> QED BY <3>2, <4>1 DEF OfTeacher, TypedInv, RowsInv, TeacherRow
    <3>4. Asked(r)
      BY <1>2, <3>2, <3>3 DEF Asked, Teaching, TypeName, OfType
    <3> QED BY <3>1, <3>4, ReadsTyped
  <2> QED BY <2>1, <2>2, <2>3
<1> QED BY <1>3, <1>4

LEMMA JoinTyped == ASSUME TypedInv, NEW h \in Handlers, JoinTeacher(h) PROVE TypedInv'
<1>1. PICK q : q = req[h]
  OBVIOUS
<1>2. DOMAIN q = Fields /\ q.step = "join" /\ Teaching(q) /\ q.adding # << >>
  BY <1>1, WhoIsWhere DEF TypedInv, JoinTeacher, Teaching
<1>3. PICK new : new = [id |-> made + 1, teacher |-> Head(q.adding), discipline |-> q.discipline]
  OBVIOUS
<1>4. Head(q.adding) \in Teachers
  BY <1>2 DEF Teaching
<1>5. new \in [id : {made + 1}, teacher : Teachers, discipline : Disciplines]
  BY <1>2, <1>3, <1>4 DEF Teaching
<1>6. /\ types' = types /\ teachers' = teachers \cup {new} /\ roles' = roles /\ made' = made + 1
      /\ events' = events
  BY <1>1, <1>3 DEF JoinTeacher, Makes
<1>7. RowsInv' /\ EventsInv' /\ Later
  BY <1>5, <1>6, TeacherIsMade DEF TypedInv
<1>8. PICK r : Goes(h, r) /\ r = [q EXCEPT !.step = "role", !.dt = made + 1]
  BY <1>1 DEF JoinTeacher
<1>9. /\ DOMAIN r = Fields /\ r.step = "role" /\ r.dt = new.id
      /\ r.kind = q.kind /\ r.discipline = new.discipline /\ r.discipline = q.discipline
      /\ r.present = q.present /\ r.body = q.body /\ r.adding = q.adding /\ r.type = q.type
  BY <1>2, <1>3, <1>8 DEF Fields
<1>10. OfType(r)'
  <2>1. OfType(r)
    BY <1>2, <1>9 DEF Teaching, OfType, TypeName
  <2> QED BY <1>7, <2>1, OfTypeStays DEF TypedInv
<1>11. OfTeacher(r)'
  <2>1. new \in teachers'
    BY <1>6
  <2>2. new.id \in 1..made' /\ \A s \in teachers' : s.id = new.id => s = new
    BY <1>7, <2>1 DEF RowsInv, TeacherRow
  <2> QED BY <1>9, <2>2 DEF OfTeacher
<1>12. Asked(r)'
  BY <1>2, <1>9, <1>10, <1>11 DEF Asked, Teaching, TypeName
<1> QED BY <1>7, <1>8, <1>12, GoesTyped DEF TypedInv

LEMMA GiveRoleTyped == ASSUME TypedInv, NEW h \in Handlers, GiveRole(h) PROVE TypedInv'
<1>1. PICK q : q = req[h]
  OBVIOUS
<1>2. DOMAIN q = Fields /\ q.step = "role" /\ Teaching(q) /\ q.adding # << >>
  BY <1>1, WhoIsWhere DEF TypedInv, GiveRole, Teaching
<1>3. CASE Fails(h)
  BY <1>3, FailsTyped
<1>4. CASE ~Fails(h)
  <2>1. PICK role : role = [dt |-> q.dt, type |-> q.type, role |-> RoleOf(TypeName(q))]
    OBVIOUS
  <2>2. /\ Exists(q.type) /\ \E t \in teachers : t.id = q.dt
        /\ Makes({}, {}, {role}) /\ Goes(h, Proceed(q))
    BY <1>1, <1>4, <2>1 DEF GiveRole
  <2>3. PICK s \in types : s.id = q.type
    BY <2>2 DEF Exists
  <2>4. PICK t \in teachers : t.id = q.dt
    BY <2>2
  <2>5. s.discipline = t.discipline /\ role = [dt |-> t.id, type |-> s.id, role |-> RoleOf(s.name)]
    BY <1>2, <2>1, <2>3, <2>4 DEF Teaching, OfType, OfTeacher
  <2>6. PICK given, gone : /\ given = {role} /\ roles' = (roles \ gone) \cup given
                           /\ UNCHANGED <<types, teachers, made, events>>
    <3>1. roles' = (roles \ {}) \cup {role} /\ UNCHANGED <<types, teachers, made, events>>
      BY <2>2 DEF Makes
    <3> QED BY <3>1
  <2>7. \A r \in given : \E a \in types, b \in teachers :
          a.discipline = b.discipline /\ r = [dt |-> b.id, type |-> a.id, role |-> RoleOf(a.name)]
    BY <2>5, <2>6
  <2>8. RowsInv' /\ EventsInv' /\ Later
    BY <2>6, <2>7, RolesAreGiven DEF TypedInv
  <2>9. PICK r : r = Proceed(q)
    OBVIOUS
  <2>10. Asked(r)
    BY <1>2, <2>9, ProceedFields
  <2>11. Asked(r)'
    BY <2>8, <2>10, AskedStays DEF TypedInv
  <2> QED BY <2>2, <2>8, <2>9, <2>11, GoesTyped DEF TypedInv
<1> QED BY <1>3, <1>4

LEMMA SetLessonsTyped ==
  ASSUME TypedInv, NEW h \in Handlers, NEW id, NEW others, SetLessons(h, id, others),
         others = {} \/ (req[h].event \in DOMAIN events /\ others = events[req[h].event].lessons)
  PROVE  TypedInv'
<1>1. CASE Fails(h)
  BY <1>1, FailsTyped
<1>2. CASE ~Fails(h)
  <2>1. PICK e : e = req[h].event
    OBVIOUS
  <2>2. /\ e \in DOMAIN events /\ Exists(id) /\ UNCHANGED rows /\ Goes(h, Idle)
        /\ events' = [events EXCEPT ![e] = [@ EXCEPT !.lessons = {id} \cup others]]
    BY <1>2, <2>1 DEF SetLessons
  <2>3. EventRow(events[e]) /\ \A i \in events[e].lessons : Exists(i)
    BY <2>2 DEF TypedInv, EventsInv
  <2>4. {id} \cup others \in SUBSET Nat /\ \A i \in {id} \cup others : Exists(i)
    <3>1. id \in Nat
      BY <2>2 DEF Exists, TypedInv, RowsInv, TypeRow
    <3> QED BY <2>1, <2>2, <2>3, <3>1 DEF EventRow
  <2>5. PICK new : new = [events[e] EXCEPT !.lessons = {id} \cup others]
    OBVIOUS
  <2>6. EventRow(new) /\ new.lessons = {id} \cup others
    BY <2>3, <2>4, <2>5 DEF EventRow
  <2>7. RowsInv' /\ Later
    BY <2>2 DEF TypedInv, RowsInv, TypeRow, TeacherRow, rows, Later
  <2>8. DOMAIN events' = DOMAIN events /\ \A k \in DOMAIN events : events'[k] = IF k = e THEN new ELSE events[k]
    BY <2>2, <2>5
  <2>9. EventsInv'
    <3>1. \A i : Exists(i)' <=> Exists(i)
      BY <2>2 DEF Exists, rows
    <3> QED BY <2>4, <2>6, <2>8, <3>1 DEF TypedInv, EventsInv
  <2> QED BY <2>2, <2>7, <2>9, EndsTyped DEF TypedInv
<1> QED BY <1>1, <1>2

LEMMA LessonTyped ==
  ASSUME TypedInv, NEW h \in Handlers, attachLesson(h) \/ updateDiscipline(h) \/ ReplaceLesson(h)
  PROVE  TypedInv'
<1>1. CASE attachLesson(h)
  BY <1>1, SetLessonsTyped DEF attachLesson
<1>2. CASE updateDiscipline(h)
  <2>1. PICK q : q = req[h]
    OBVIOUS
  <2>2. DOMAIN q = Fields /\ q.step = "teachers" /\ Teaching(q)
    BY <1>2, <2>1, WhoIsWhere DEF TypedInv, updateDiscipline
  <2>3. PICK r : /\ Goes(h, r) /\ UNCHANGED <<events, rows>>
                 /\ r = [q EXCEPT !.step = "lesson", !.seen = Reading(q.discipline)]
    BY <1>2, <2>1 DEF updateDiscipline, Reads
  <2>4. /\ DOMAIN r = Fields /\ r.step = "lesson"
        /\ r.kind = q.kind /\ r.discipline = q.discipline /\ r.present = q.present
        /\ r.body = q.body /\ r.adding = q.adding
    BY <2>2, <2>3 DEF Fields
  <2>5. Asked(r)
    BY <2>2, <2>4 DEF Asked, Teaching, TypeName
  <2> QED BY <2>3, <2>5, ReadsTyped
<1>3. CASE ReplaceLesson(h)
  BY <1>3, FailsTyped, SetLessonsTyped DEF ReplaceLesson
<1> QED BY <1>1, <1>2, <1>3

LEMMA LeavingTyped ==
  ASSUME TypedInv, NEW h \in Handlers, FindTarget(h) \/ ReadToDelete(h) \/ DeleteType(h)
  PROVE  TypedInv'
<1>1. PICK q : q = req[h]
  OBVIOUS
<1>2. DOMAIN q = Fields /\ Leaving(q)
  BY <1>1, WhoIsWhere DEF TypedInv, FindTarget, ReadToDelete, DeleteType
<1>3. CASE DeleteType(h)
  <2>1. CASE Fails(h)
    BY <2>1, FailsTyped
  <2>2. CASE ~Fails(h)
    BY <1>3, <2>2, GoneKeeps, EndsTyped DEF DeleteType, TypedInv
  <2> QED BY <2>1, <2>2
<1>4. CASE FindTarget(h) \/ ReadToDelete(h)
  <2>1. PICK r : /\ Goes(h, r) /\ UNCHANGED <<events, rows>>
                 /\ \/ r = Idle
                    \/ r = [q EXCEPT !.step = "read"]
                    \/ \E ids : r = [q EXCEPT !.step = "remove", !.removing = ids]
    BY <1>1, <1>4 DEF FindTarget, ReadToDelete, Reads
  <2>2. r = Idle \/ ( /\ DOMAIN r = Fields /\ r.step \in {"read", "remove"}
                      /\ r.kind = q.kind /\ r.discipline = q.discipline /\ r.present = q.present )
    BY <1>2, <2>1 DEF Fields
  <2>3. Asked(r)
    BY <1>2, <2>2, IdleAsked DEF Asked, Leaving
  <2> QED BY <2>1, <2>3, ReadsTyped
<1> QED BY <1>3, <1>4

-----------------------------------------------------------------------------
(* Teachers put in disciplines by hand *)

LEMMA BeginsByHand ==
  ASSUME TypedInv, NEW h \in Handlers,
         \/ \E teacher \in Teachers, discipline \in Disciplines, names \in Staff :
              create(h, teacher, discipline, names) \/ updateByTeacherAndDiscipline(h, teacher, discipline, names)
         \/ \E t \in teachers, names \in Staff : updateById(h, t, names)
  PROVE  TypedInv'
<1>1. CASE \E teacher \in Teachers, discipline \in Disciplines, names \in Staff :
             create(h, teacher, discipline, names)
  <2>1. PICK teacher \in Teachers, discipline \in Disciplines, names \in Staff :
          create(h, teacher, discipline, names)
    BY <1>1
  <2>2. PICK r : /\ Goes(h, r)
                 /\ r = [Idle EXCEPT !.step = "name", !.kind = "hand", !.body = teacher, !.present = {},
                         !.discipline = discipline, !.adding = names, !.seen = Reading(discipline)]
    BY <2>1 DEF create
  <2>3. /\ DOMAIN r = Fields /\ r.step = "name" /\ r.kind = "hand" /\ r.body = teacher /\ r.present = {}
        /\ r.discipline = discipline /\ r.adding = names /\ r.dt = 0 /\ r.seen.types = TypesOf(discipline)
    BY <2>2 DEF Idle, Fields, Reading
  <2>4. names \in Seq(TypeNames)
    BY ScheduleAssumption
  <2>5. \A t \in r.seen.types : Kept(t) /\ t.discipline = r.discipline
    BY <2>3 DEF TypesOf, Kept, TypedInv, RowsInv
  <2>6. GivenRight(r)
    BY <2>3 DEF GivenRight
  <2>7. Asked(r)
    BY <2>3, <2>4, <2>5, <2>6 DEF Asked, ByHand
  <2> QED BY <2>1, <2>2, <2>7, ReadsTyped DEF create
<1>2. ASSUME NEW t \in teachers, NEW names \in Staff, updateById(h, t, names)
      PROVE  TypedInv'
  <2>2. PICK r : /\ Goes(h, r)
                 /\ r = [Idle EXCEPT !.step = "staff", !.kind = "hand", !.dt = t.id, !.present = {},
                         !.discipline = t.discipline, !.adding = names]
    BY <1>2 DEF updateById
  <2>3. /\ DOMAIN r = Fields /\ r.step = "staff" /\ r.kind = "hand" /\ r.present = {}
        /\ r.discipline = t.discipline /\ r.adding = names /\ r.dt = t.id
    BY <2>2 DEF Idle, Fields
  <2>4. names \in Seq(TypeNames)
    BY ScheduleAssumption
  <2>5. OfTeacher(r) /\ r.discipline \in Disciplines
    BY <2>3 DEF OfTeacher, TypedInv, RowsInv, TeacherRow
  <2>6. Asked(r)
    BY <2>3, <2>4, <2>5 DEF Asked, ByHand
  <2> QED BY <1>2, <2>2, <2>6, ReadsTyped DEF updateById
<1>3. CASE \E teacher \in Teachers, discipline \in Disciplines, names \in Staff :
             updateByTeacherAndDiscipline(h, teacher, discipline, names)
  <2>1. PICK teacher \in Teachers, discipline \in Disciplines, names \in Staff :
          updateByTeacherAndDiscipline(h, teacher, discipline, names)
    BY <1>3
  <2>2. CASE \E t \in TeachersOf(discipline) : updateById(h, t, names)
    BY <1>2, <2>2 DEF TeachersOf
  <2>3. CASE ~\E t \in TeachersOf(discipline) : updateById(h, t, names)
    <3>1. PICK r : /\ Goes(h, r) /\ UNCHANGED <<events, rows>>
                   /\ r = [Idle EXCEPT !.step = "put", !.kind = "hand", !.body = teacher, !.present = {},
                           !.discipline = discipline, !.adding = names]
      BY <2>1, <2>3 DEF updateByTeacherAndDiscipline
    <3>2. /\ DOMAIN r = Fields /\ r.step = "put" /\ r.kind = "hand" /\ r.body = teacher /\ r.present = {}
          /\ r.discipline = discipline /\ r.adding = names
      BY <3>1 DEF Idle, Fields
    <3>3. names \in Seq(TypeNames)
      BY ScheduleAssumption
    <3>4. Asked(r)
      BY <3>2, <3>3 DEF Asked, ByHand
    <3> QED BY <3>1, <3>4, ReadsTyped
  <2> QED BY <2>2, <2>3
<1> QED BY <1>1, <1>2, <1>3

LEMMA PutTyped == ASSUME TypedInv, NEW h \in Handlers, PutTeacher(h) PROVE TypedInv'
<1>1. PICK q : q = req[h]
  OBVIOUS
<1>2. DOMAIN q = Fields /\ q.step = "put" /\ ByHand(q)
  BY <1>1, WhoIsWhere DEF TypedInv, PutTeacher
<1>3. PICK new : new = [id |-> made + 1, teacher |-> q.body, discipline |-> q.discipline]
  OBVIOUS
<1>4. new \in [id : {made + 1}, teacher : Teachers, discipline : Disciplines]
  BY <1>2, <1>3 DEF ByHand
<1>5. /\ types' = types /\ teachers' = teachers \cup {new} /\ roles' = roles /\ made' = made + 1
      /\ events' = events
  BY <1>1, <1>3 DEF PutTeacher, Makes
<1>6. RowsInv' /\ EventsInv' /\ Later
  BY <1>4, <1>5, TeacherIsMade DEF TypedInv
<1>7. PICK r : Goes(h, r) /\ r = [q EXCEPT !.step = "staff", !.dt = made + 1]
  BY <1>1 DEF PutTeacher
<1>8. /\ DOMAIN r = Fields /\ r.step = "staff" /\ r.dt = new.id
      /\ r.kind = q.kind /\ r.discipline = new.discipline /\ r.discipline = q.discipline
      /\ r.present = q.present /\ r.adding = q.adding
  BY <1>2, <1>3, <1>7 DEF Fields
<1>9. OfTeacher(r)'
  <2>1. new \in teachers'
    BY <1>5
  <2>2. new.id \in 1..made' /\ \A s \in teachers' : s.id = new.id => s = new
    BY <1>6, <2>1 DEF RowsInv, TeacherRow
  <2> QED BY <1>8, <2>2 DEF OfTeacher
<1>10. Asked(r)'
  BY <1>2, <1>8, <1>9 DEF Asked, ByHand
<1> QED BY <1>6, <1>7, <1>10, GoesTyped DEF TypedInv

LEMMA ReadToAppointTyped == ASSUME TypedInv, NEW h \in Handlers, ReadToAppoint(h) PROVE TypedInv'
<1>1. PICK q : q = req[h]
  OBVIOUS
<1>2. DOMAIN q = Fields /\ q.step = "staff" /\ ByHand(q)
  BY <1>1, WhoIsWhere DEF TypedInv, ReadToAppoint
<1>3. CASE Fails(h)
  BY <1>3, FailsTyped
<1>4. CASE ~Fails(h)
  <2>1. PICK r : /\ Goes(h, r) /\ UNCHANGED <<events, rows>>
                 /\ r = [q EXCEPT !.step = "name", !.seen = Reading(q.discipline)]
    BY <1>1, <1>4 DEF ReadToAppoint, Reads
  <2>2. /\ DOMAIN r = Fields /\ r.step = "name" /\ r.dt = q.dt /\ r.kind = q.kind
        /\ r.discipline = q.discipline /\ r.present = {} /\ r.adding = q.adding
        /\ r.seen.types = TypesOf(r.discipline)
    BY <1>2, <2>1 DEF Fields, Reading, ByHand
  <2>3. \A t \in r.seen.types : Kept(t) /\ t.discipline = r.discipline
    BY <2>2 DEF TypesOf, Kept, TypedInv, RowsInv
  <2>4. GivenRight(r)
    BY <2>2 DEF GivenRight
  <2>5. OfTeacher(r)
    BY <1>2, <2>2 DEF OfTeacher, ByHand
  <2>6. Asked(r)
    BY <1>2, <2>2, <2>3, <2>4, <2>5 DEF Asked, ByHand
  <2> QED BY <2>1, <2>6, ReadsTyped
<1> QED BY <1>3, <1>4

\* The role of one more type is noted.
LEMMA GivenMore ==
  ASSUME RowsInv, NEW q, GivenRight(q), NEW t \in types, t.discipline = q.discipline, NEW r,
         r.discipline = q.discipline, r.present = q.present \cup {<<t.id, RoleOf(t.name)>>}
  PROVE  GivenRight(r)
<1> SUFFICES ASSUME NEW g \in r.present
             PROVE  \E id \in 1..made, name \in TypeNames :
                      /\ g = <<id, RoleOf(name)>>
                      /\ \A s \in types : s.id = id => s.discipline = r.discipline /\ s.name = name
  BY DEF GivenRight
<1>1. CASE g \in q.present
  BY <1>1 DEF GivenRight
<1>2. CASE g = <<t.id, RoleOf(t.name)>>
  <2>1. t.id \in 1..made /\ t.name \in TypeNames /\ \A s \in types : s.id = t.id => s = t
    BY DEF RowsInv, TypeRow
  <2> QED BY <1>2, <2>1
<1> QED BY <1>1, <1>2

LEMMA NameTypeTyped == ASSUME TypedInv, NEW h \in Handlers, NameType(h) PROVE TypedInv'
<1>1. PICK q : q = req[h]
  OBVIOUS
<1>2. DOMAIN q = Fields /\ q.step = "name" /\ ByHand(q) /\ q.adding # << >>
  BY <1>1, WhoIsWhere DEF TypedInv, NameType
<1>3. PICK new : new = [id |-> made + 1, discipline |-> q.discipline, name |-> Head(q.adding)]
  OBVIOUS
<1>4. Head(q.adding) \in TypeNames /\ Tail(q.adding) \in Seq(TypeNames)
  BY <1>2 DEF ByHand
<1>5. new \in [id : {made + 1}, discipline : Disciplines, name : TypeNames]
  BY <1>2, <1>3, <1>4 DEF ByHand
<1> DEFINE found == Named(q.seen, new.name)
           Given(id) == [q EXCEPT !.adding = Tail(@), !.present = @ \cup {<<id, RoleOf(new.name)>>}]
<1>8. CASE RoleOf(new.name) = "OTHER"
  <2>1. Fails(h)
    BY <1>1, <1>3, <1>8 DEF NameType
  <2> QED BY <2>1, FailsTyped
<1>6. CASE RoleOf(new.name) # "OTHER" /\ found = {}
  <2>1. PICK reading : reading = [Reading(q.discipline) EXCEPT !.types = @ \cup {new}]
    OBVIOUS
  <2>2. reading.types = TypesOf(q.discipline) \cup {new}
    BY <2>1 DEF Reading
  <2>3. PICK t \in Named(reading, new.name) :
          Goes(h, [Given(t.id) EXCEPT !.seen = reading]) /\ Makes({new}, {}, {})
    BY <1>1, <1>3, <1>6, <2>1 DEF NameType
  <2>4. RowsInv' /\ EventsInv' /\ Later
    BY <1>5, <2>3, TypeIsMade DEF TypedInv
  <2>5. types' = types \cup {new}
    BY <2>3 DEF Makes
  <2>6. t \in types' /\ t.discipline = q.discipline /\ t.name = new.name
    BY <1>3, <2>2, <2>3, <2>5 DEF Named, TypesOf
  <2>7. PICK r : r = [Given(t.id) EXCEPT !.seen = reading]
    OBVIOUS
  <2>8. /\ DOMAIN r = Fields /\ r.step = "name" /\ r.dt = q.dt /\ r.kind = q.kind /\ r.body = q.body
        /\ r.discipline = q.discipline /\ r.adding = Tail(q.adding)
        /\ r.seen = reading /\ r.present = q.present \cup {<<t.id, RoleOf(t.name)>>}
    BY <1>2, <2>6, <2>7 DEF Fields
  <2>9. GivenRight(q)'
    BY <1>2, <2>4, GivenStays DEF TypedInv, ByHand
  <2>10. GivenRight(r)'
    <3> SUFFICES ASSUME NEW g \in r.present
                 PROVE  \E id \in 1..made', name \in TypeNames :
                          /\ g = <<id, RoleOf(name)>>
                          /\ \A s \in types' : s.id = id => s.discipline = r.discipline /\ s.name = name
      BY DEF GivenRight
    <3>1. CASE g \in q.present
      BY <2>8, <2>9, <3>1 DEF GivenRight
    <3>2. CASE g = <<t.id, RoleOf(t.name)>>
      <4>1. t.id \in 1..made' /\ t.name \in TypeNames /\ \A s \in types' : s.id = t.id => s = t
        BY <2>4, <2>6 DEF RowsInv, TypeRow
      <4> QED BY <2>6, <2>8, <3>2, <4>1
    <3> QED BY <2>8, <3>1, <3>2
  <2>11. \A s \in r.seen.types : Kept(s)' /\ s.discipline = r.discipline
    <3> SUFFICES ASSUME NEW s \in reading.types PROVE Kept(s)' /\ s.discipline = r.discipline
      BY <2>8
    <3>1. s \in types' /\ s.discipline = r.discipline
      BY <1>3, <2>2, <2>5, <2>8 DEF TypesOf
    <3> QED BY <2>4, <3>1 DEF Kept, RowsInv
  <2>12. (r.dt = 0 /\ r.body \in Teachers) \/ OfTeacher(r)'
    <3>1. CASE q.dt = 0 /\ q.body \in Teachers
      BY <2>8, <3>1
    <3>2. CASE OfTeacher(q)
      <4>1. OfTeacher(r)
        BY <2>8, <3>2 DEF OfTeacher
      <4> QED BY <2>4, <4>1, OfTeacherStays DEF TypedInv
    <3> QED BY <1>2, <3>1, <3>2 DEF ByHand
  <2>13. Asked(r)'
    BY <1>2, <1>4, <2>8, <2>10, <2>11, <2>12 DEF Asked, ByHand
  <2> QED BY <2>3, <2>4, <2>7, <2>13, GoesTyped DEF TypedInv
<1>7. CASE RoleOf(new.name) # "OTHER" /\ found # {}
  <2>1. PICK t \in found : Goes(h, Given(t.id)) /\ UNCHANGED <<events, rows>>
    BY <1>1, <1>3, <1>7 DEF NameType, Reads
  <2>2. PICK r : r = Given(t.id)
    OBVIOUS
  <2>3. /\ DOMAIN r = Fields /\ r.step = "name" /\ r.dt = q.dt /\ r.kind = q.kind /\ r.body = q.body
        /\ r.discipline = q.discipline /\ r.adding = Tail(q.adding)
        /\ r.seen = q.seen /\ r.present = q.present \cup {<<t.id, RoleOf(new.name)>>}
    BY <1>2, <2>2 DEF Fields
  <2>4. t \in q.seen.types /\ t.name = new.name
    BY <2>1 DEF Named
  <2>5. Kept(t) /\ t.discipline = q.discipline
    BY <1>2, <2>4 DEF ByHand
  <2>6. GivenRight(r)
    <3> SUFFICES ASSUME NEW g \in r.present
                 PROVE  \E id \in 1..made, name \in TypeNames :
                          /\ g = <<id, RoleOf(name)>>
                          /\ \A s \in types : s.id = id => s.discipline = r.discipline /\ s.name = name
      BY DEF GivenRight
    <3>1. CASE g \in q.present
      BY <1>2, <2>3, <3>1 DEF GivenRight, ByHand
    <3>2. CASE g = <<t.id, RoleOf(t.name)>>
      <4>1. t.id \in 1..made /\ t.name \in TypeNames /\ \A s \in types : s.id = t.id => s = t
        BY <2>5 DEF Kept, TypeRow
      <4> QED BY <2>3, <2>5, <3>2, <4>1
    <3> QED BY <2>3, <2>4, <3>1, <3>2
  <2>7. \A s \in r.seen.types : Kept(s) /\ s.discipline = r.discipline
    BY <1>2, <2>3 DEF ByHand
  <2>8. (r.dt = 0 /\ r.body \in Teachers) \/ OfTeacher(r)
    BY <1>2, <2>3 DEF ByHand, OfTeacher
  <2>9. Asked(r)
    BY <1>2, <1>4, <2>3, <2>6, <2>7, <2>8 DEF Asked, ByHand
  <2> QED BY <2>1, <2>2, <2>9, ReadsTyped
<1> QED BY <1>6, <1>7, <1>8

LEMMA AppointTyped == ASSUME TypedInv, NEW h \in Handlers, Appoint(h) PROVE TypedInv'
<1>1. PICK q : q = req[h]
  OBVIOUS
<1>2. DOMAIN q = Fields /\ q.step = "name" /\ ByHand(q)
  BY <1>1, WhoIsWhere DEF TypedInv, Appoint
<1>3. CASE Fails(h)
  BY <1>3, FailsTyped
<1>4. CASE ~Fails(h)
  <2>1. PICK id : id = IF q.dt = 0 THEN made + 1 ELSE q.dt
    OBVIOUS
  <2>2. PICK given : given = {[dt |-> id, type |-> g[1], role |-> g[2]] : g \in q.present}
    OBVIOUS
  <2>3. /\ \A g \in given : Exists(g.type)
        /\ roles' = (roles \ RolesOf(id)) \cup given
        /\ IF q.dt # 0 THEN (\E t \in teachers : t.id = q.dt) /\ UNCHANGED <<teachers, made>>
           ELSE /\ teachers' = teachers \cup {[id |-> id, teacher |-> q.body, discipline |-> q.discipline]}
                /\ made' = id
        /\ Goes(h, Idle) /\ UNCHANGED <<events, types>>
    BY <1>1, <1>4, <2>1, <2>2 DEF Appoint
  <2>4. \E t : t.id = id /\ t.discipline = q.discipline /\ t \in teachers'
    <3>1. CASE q.dt = 0
      BY <2>1, <2>3, <3>1
    <3>2. CASE q.dt # 0
      <4>1. PICK t \in teachers : t.id = q.dt
        BY <2>3, <3>2
      <4>2. t.discipline = q.discipline
        BY <1>2, <3>2, <4>1 DEF ByHand, OfTeacher
      <4> QED BY <2>1, <2>3, <3>2, <4>1, <4>2
    <3> QED BY <3>1, <3>2
  <2>5. PICK t \in teachers' : t.id = id /\ t.discipline = q.discipline
    BY <2>4
  <2>6. \A r \in given : \E s \in types :
          s.discipline = t.discipline /\ r = [dt |-> t.id, type |-> s.id, role |-> RoleOf(s.name)]
    <3> TAKE r \in given
    <3>1. PICK g \in q.present : r = [dt |-> id, type |-> g[1], role |-> g[2]]
      BY <2>2
    <3>2. PICK n \in 1..made, name \in TypeNames :
            /\ g = <<n, RoleOf(name)>>
            /\ \A s \in types : s.id = n => s.discipline = q.discipline /\ s.name = name
      BY <1>2 DEF ByHand, GivenRight
    <3>3. r = [dt |-> id, type |-> n, role |-> RoleOf(name)] /\ r.type = n
      BY <3>1, <3>2
    <3>4. PICK s \in types : s.id = n
      BY <2>3, <3>3 DEF Exists
    <3> QED BY <2>5, <3>2, <3>3, <3>4
  <2>7. RowsInv' /\ EventsInv' /\ Later
    <3>1. made \in Nat /\ \A s \in teachers : s.id \in 1..made
      BY DEF TypedInv, RowsInv, TeacherRow
    <3>2. /\ made' \in Nat /\ made <= made' /\ \A s \in teachers' : s \in teachers \/ s.id > made
          /\ teachers \subseteq teachers'
      BY <2>1, <2>3, <3>1
    <3>3. teachers' \subseteq TeacherRow' /\ IsFiniteSet(teachers')
      <4>1. CASE q.dt # 0
        BY <2>3, <4>1 DEF TypedInv, RowsInv, TeacherRow
      <4>2. CASE q.dt = 0
        <5>1. PICK new : new = [id |-> id, teacher |-> q.body, discipline |-> q.discipline]
          OBVIOUS
        <5>2. q.body \in Teachers /\ q.discipline \in Disciplines
          BY <1>2, <4>2 DEF ByHand, OfTeacher
        <5>3. teachers' = teachers \cup {new} /\ made' = made + 1 /\ new.id = made + 1
          BY <2>1, <2>3, <4>2, <5>1
        <5>4. new \in TeacherRow'
          BY <2>1, <3>1, <4>2, <5>1, <5>2, <5>3 DEF TeacherRow
        <5>5. \A s \in teachers : s \in TeacherRow'
          BY <3>1, <5>3 DEF TypedInv, RowsInv, TeacherRow
        <5>6. IsFiniteSet(teachers')
          BY <5>3, FS_AddElement DEF TypedInv, RowsInv
        <5> QED BY <5>3, <5>4, <5>5, <5>6
      <4> QED BY <4>1, <4>2
    <3>4. \A a, b \in teachers' : a.id = b.id => a = b
      BY <2>1, <2>3, <3>1 DEF TypedInv, RowsInv
    <3>5. types' = types /\ types' \subseteq TypeRow'
      BY <2>3, <3>2 DEF TypedInv, RowsInv, TypeRow
    <3>6. \A r \in roles' : \E s \in types', b \in teachers' :
            s.discipline = b.discipline /\ r = [dt |-> b.id, type |-> s.id, role |-> RoleOf(s.name)]
      <4> TAKE r \in roles'
      <4>1. CASE r \in given
        BY <2>6, <3>5, <4>1
      <4>2. CASE r \in roles
        BY <3>2, <3>5, <4>2 DEF TypedInv, RowsInv
      <4> QED BY <2>3, <4>1, <4>2
    <3>7. RowsInv'
      BY <3>2, <3>3, <3>4, <3>5, <3>6 DEF TypedInv, RowsInv
    <3>8. EventsInv'
      BY <2>3 DEF TypedInv, EventsInv, EventRow, Exists
    <3> QED BY <2>3, <3>2, <3>7, <3>8 DEF Later
  <2> QED BY <2>3, <2>7, EndsTyped DEF TypedInv
<1> QED BY <1>3, <1>4

-----------------------------------------------------------------------------
(* Types *)

LEMMA StopTyped == ASSUME TypedInv, Stop PROVE TypedInv'
<1>1. RowsInv' /\ EventsInv' /\ Later
  BY SameTables DEF TypedInv, Stop
<1>2. DOMAIN req' = Handlers /\ \A h \in Handlers : req'[h] = Idle
  BY DEF Stop
<1>3. Asked(Idle)'
  BY DEF Asked, Idle, Fields
<1> QED BY <1>1, <1>2, <1>3 DEF TypedInv, ReqInv

LEMMA DeleteByIdTyped ==
  ASSUME TypedInv, NEW h \in Handlers, NEW t \in teachers, deleteById(h, t)
  PROVE  TypedInv'
<1>1. RowsInv' /\ EventsInv' /\ Later /\ UNCHANGED req
  BY GoneKeeps DEF TypedInv, deleteById
<1>2. ReqInv'
  <2> SUFFICES ASSUME NEW g \in Handlers PROVE Asked(req[g])'
    BY <1>1 DEF ReqInv, TypedInv
  <2>1. PICK q : q = req[g]
    OBVIOUS
  <2>2. Asked(q)'
    BY <1>1, <2>1, AskedStays DEF TypedInv, ReqInv
  <2> QED BY <1>1, <2>1, <2>2
<1> QED BY <1>1, <1>2 DEF TypedInv

LEMMA InitTyped == Init => TypedInv
<1> SUFFICES ASSUME Init PROVE TypedInv
  OBVIOUS
<1>1. ReqInv
  BY IdleAsked DEF Init, ReqInv
<1> QED BY <1>1, InitTables DEF TypedInv

LEMMA StepTyped == ASSUME TypedInv, NEW h \in Handlers, Step(h) PROVE TypedInv'
<1>1. CASE \E id \in EventIds, body \in CreateBodies : createGroupEvent(h, id, body)
  BY <1>1, CreateTyped
<1>2. CASE \E id \in DOMAIN events : deleteEvent(h, id)
  BY <1>2, DeleteTyped
<1>3. CASE \E id \in DOMAIN events, body \in UpdateBodies : updateEvent(h, id, body)
  BY <1>3, UpdateTyped
<1>4. CASE \E moment \in Moments : WriteEvent(h, moment)
  BY <1>4, WriteTyped
<1>5. CASE CountEvents(h) \/ ReadToClear(h) \/ clearDiscipline(h)
  BY <1>5, CountTyped, ClearTyped
<1>6. CASE FindType(h) \/ MakeType(h) \/ removeTeacher(h) \/ Removed(h)
  BY <1>6, FindTypeTyped, MakeTypeTyped, RemoveTyped, RemovedTyped
<1>7. CASE FindTeacher(h) \/ JoinTeacher(h) \/ GiveRole(h)
  BY <1>7, FindTeacherTyped, JoinTyped, GiveRoleTyped
<1>8. CASE attachLesson(h) \/ updateDiscipline(h) \/ ReplaceLesson(h)
  BY <1>8, LessonTyped
<1>9. CASE FindTarget(h) \/ ReadToDelete(h) \/ DeleteType(h)
  BY <1>9, LeavingTyped
<1>10. CASE \E teacher \in Teachers, discipline \in Disciplines, names \in Staff :
              create(h, teacher, discipline, names) \/ updateByTeacherAndDiscipline(h, teacher, discipline, names)
  BY <1>10, BeginsByHand
<1>11. CASE \E t \in teachers : deleteById(h, t) \/ \E names \in Staff : updateById(h, t, names)
  BY <1>11, BeginsByHand, DeleteByIdTyped
<1>12. CASE PutTeacher(h) \/ ReadToAppoint(h) \/ NameType(h) \/ Appoint(h)
  BY <1>12, PutTyped, ReadToAppointTyped, NameTypeTyped, AppointTyped
<1> QED BY <1>1, <1>2, <1>3, <1>4, <1>5, <1>6, <1>7, <1>8, <1>9, <1>10, <1>11, <1>12 DEF Step

LEMMA SameTyped == ASSUME TypedInv, UNCHANGED vars PROVE TypedInv'
<1>1. RowsInv' /\ EventsInv' /\ Later
  BY SameTables DEF TypedInv, vars, rows
<1>2. ReqInv'
  <2> SUFFICES ASSUME NEW g \in Handlers PROVE Asked(req[g])'
    BY DEF ReqInv, TypedInv, vars
  <2>1. PICK q : q = req[g]
    OBVIOUS
  <2>2. Asked(q)'
    BY <1>1, <2>1, AskedStays DEF TypedInv, ReqInv
  <2> QED BY <2>1, <2>2 DEF vars
<1> QED BY <1>1, <1>2 DEF TypedInv

LEMMA TypedMeansTypes == TypedInv => TypeOK
<1> SUFFICES ASSUME TypedInv PROVE TypeOK
  OBVIOUS
<1>1. \A e \in DOMAIN events :
        /\ events[e].period \in Periods
        /\ events[e].start \in Int /\ events[e].end \in Int /\ events[e].infos \subseteq Nat
        /\ \A id \in events[e].lessons : Exists(id)
  BY DEF TypedInv, EventsInv, EventRow
<1>2. \A r \in roles : \E s \in types, t \in teachers :
        s.id = r.type /\ t.id = r.dt /\ s.discipline = t.discipline
  BY DEF TypedInv, RowsInv
<1> QED BY <1>1, <1>2 DEF TypeOK, TypedInv, RowsInv, EventsInv, TypeRow, TeacherRow

\* Whatever requests cross and wherever one stops, rows keep their columns and what they
\* refer to: a lesson is of a type that is there, and a teacher's role is of a type and a
\* teacher of one discipline, though both may go between a request's reading and its
\* writing (schema.prisma:181-231, 373-384, ScheduleService.ts:565-662).
THEOREM RowsKeepTheirRows == Spec => []TypeOK
<1>1. TypedInv /\ [Next]_vars => TypedInv'
  BY StepTyped, StopTyped, SameTyped DEF Next
<1> QED BY <1>1, InitTyped, TypedMeansTypes, PTL DEF Spec

-----------------------------------------------------------------------------
(* Requests that do not cross *)

Single ==
  /\ \A s, t \in types : s.discipline = t.discipline /\ s.name = t.name => s = t
  /\ \A s, t \in teachers : s.discipline = t.discipline /\ s.teacher = t.teacher => s = t
Alone == \A g, h \in Handlers : Working(g) /\ Working(h) => g = h

\* The type whose roles those to be removed have, and no others.
TypeOfGone(r) == IF r.kind = "delete" THEN r.present.id ELSE r.type
\* What a request read is still there when it writes, and what it missed is not.
Fits(r) ==
  /\ r.step = "type" => \A t \in types : t.discipline = r.discipline => t.name # TypeName(r)
  /\ r.step = "join" => \A t \in teachers : t.discipline = r.discipline => t.teacher # Head(r.adding)
  /\ r.step = "put" => \A t \in teachers : t.discipline = r.discipline => t.teacher # r.body
  /\ r.step = "name" => r.seen.types = TypesOf(r.discipline)
  /\ r.step = "clear" => r.seen = Reading(r.present.discipline)
  /\ r.step = "remove" =>
       /\ r.removing \in Seq(Nat)
       /\ \A i \in DOMAIN r.removing, o \in roles : o.dt = r.removing[i] => o.type = TypeOfGone(r)
SerialInv == ~crossed => Single /\ Alone /\ \A h \in Handlers : Fits(req[h])

\* The tables start without twins.
StartsSingle ==
  /\ \A s, t \in FirstTypes : s.discipline = t.discipline /\ s.name = t.name => s = t
  /\ \A s, t \in FirstTeachers : s.discipline = t.discipline /\ s.teacher = t.teacher => s = t

LEMMA InitSerial == StartsSingle /\ Init => SerialInv
<1> SUFFICES ASSUME StartsSingle, Init PROVE SerialInv
  OBVIOUS
<1>1. Fits(Idle)
  BY DEF Fits, Idle
<1>2. \A h \in Handlers : req[h] = Idle /\ Idle.step = "idle"
  BY DEF Init, Idle
<1>3. Single
  BY DEF Init, StartsSingle, Single
<1> QED BY <1>1, <1>2, <1>3 DEF SerialInv, Alone, Working

\* Who works alone, or begins while nobody works, is the only one afterwards.
LEMMA OneServes ==
  ASSUME ReqInv, NEW h \in Handlers, NEW r, Goes(h, r),
         ~crossed' => /\ \A g \in Handlers : g # h => ~Working(g)
                      /\ Single' /\ Fits(r)'
  PROVE  SerialInv'
<1> SUFFICES ASSUME ~crossed' PROVE Single' /\ Alone' /\ (\A g \in Handlers : Fits(req[g]))'
  BY DEF SerialInv
<1>1. DOMAIN req' = Handlers /\ req'[h] = r /\ \A g \in Handlers : g # h => req'[g] = req[g]
  BY DEF Goes, ReqInv
<1>2. Alone'
  BY <1>1 DEF Alone, Working
<1>3. ASSUME NEW g \in Handlers PROVE Fits(req[g])'
  <2>1. CASE g = h
    BY <1>1, <2>1
  <2>2. CASE g # h
    <3>1. req'[g].step = "idle"
      BY <1>1, <2>2 DEF Working
    <3> QED BY <3>1 DEF Fits
  <2> QED BY <2>1, <2>2
<1> QED BY <1>2, <1>3

LEMMA OthersIdle ==
  ASSUME SerialInv, NEW h \in Handlers, Working(h), ~crossed
  PROVE  \A g \in Handlers : g # h => ~Working(g)
  BY DEF SerialInv, Alone

LEMMA IdleFits == Fits(Idle)'
  BY DEF Fits, Idle

\* Steps that only take rows away leave no twins.
LEMMA FewerSingle ==
  ASSUME Single, types' \subseteq types, teachers' \subseteq teachers
  PROVE  Single'
  BY DEF Single

LEMMA OneMoreSingle ==
  ASSUME Single, types' = types, NEW new, teachers' = teachers \cup {new},
         \A t \in teachers : t.discipline = new.discipline => t.teacher # new.teacher
  PROVE  Single'
  BY DEF Single

LEMMA FailsSerial == ASSUME NEW h \in Handlers, Fails(h) PROVE SerialInv'
  BY DEF Fails, SerialInv

\* A step of a request under way that leaves the rows alone.
LEMMA ReadsSerial ==
  ASSUME ReqInv, SerialInv, NEW h \in Handlers, Working(h), NEW r, Goes(h, r),
         UNCHANGED <<rows, crossed>>, ~crossed => Fits(r)
  PROVE  SerialInv'
<1>1. Single => Single'
  BY DEF Single, rows
<1>2. Fits(r) => Fits(r)'
  BY DEF Fits, rows, TypesOf, Reading, TeachersOf, RolesOf, TypeName, TypeOfGone
<1> QED BY <1>1, <1>2, OthersIdle, OneServes DEF SerialInv

\* A request begins.
LEMMA BeginsSerial ==
  ASSUME ReqInv, SerialInv, NEW h \in Handlers, ~Working(h), NEW r, Goes(h, r),
         Begins, UNCHANGED rows, ~crossed => Fits(r)
  PROVE  SerialInv'
<1>1. Single => Single'
  BY DEF Single, rows
<1>2. Fits(r) => Fits(r)'
  BY DEF Fits, rows, TypesOf, Reading, TeachersOf, RolesOf, TypeName, TypeOfGone
<1>3. ~crossed' => ~crossed /\ \A g \in Handlers : ~Working(g)
  BY DEF Begins
<1> QED BY <1>1, <1>2, <1>3, OneServes DEF SerialInv

LEMMA StopSerial == ASSUME Stop PROVE SerialInv'
  BY DEF Stop, SerialInv

LEMMA SameSerial == ASSUME SerialInv, UNCHANGED vars PROVE SerialInv'
  BY DEF vars, SerialInv, Single, Alone, Working, Fits, TypesOf, Reading, TeachersOf, RolesOf,
         TypeName, TypeOfGone

-----------------------------------------------------------------------------
(* Nothing twice *)

LEMMA EventSerial ==
  ASSUME TypedInv, SerialInv, NEW h \in Handlers,
         \/ \E id \in EventIds, body \in CreateBodies : createGroupEvent(h, id, body)
         \/ \E id \in DOMAIN events : deleteEvent(h, id)
         \/ \E id \in DOMAIN events, body \in UpdateBodies : updateEvent(h, id, body)
  PROVE  SerialInv'
<1>1. ~Working(h) /\ Begins /\ UNCHANGED rows
  BY DEF createGroupEvent, deleteEvent, updateEvent
<1>2. PICK r : Goes(h, r) /\ (r = Idle \/ r.step \in {"find", "target", "update"})
  <2>1. ASSUME NEW id \in EventIds, NEW body \in CreateBodies, createGroupEvent(h, id, body)
        PROVE  \E r : Goes(h, r) /\ (r = Idle \/ r.step \in {"find", "target", "update"})
    <3>1. PICK r : Goes(h, r) /\ r = IF body.discipline = NONE THEN Idle
                   ELSE [Idle EXCEPT !.step = "find", !.kind = "create", !.event = id, !.body = body,
                         !.discipline = body.discipline, !.adding = SetToSeq(body.teachers)]
      BY <2>1 DEF createGroupEvent
    <3> QED BY <3>1 DEF Idle
  <2>2. ASSUME NEW id \in DOMAIN events, deleteEvent(h, id)
        PROVE  \E r : Goes(h, r) /\ (r = Idle \/ r.step \in {"find", "target", "update"})
    <3>1. PICK lesson, r : Goes(h, r) /\ r = IF lesson = 0 THEN Idle
                   ELSE [Idle EXCEPT !.step = "target", !.kind = "delete", !.event = id,
                         !.present = Row(lesson), !.discipline = Row(lesson).discipline]
      BY <2>2 DEF deleteEvent
    <3> QED BY <3>1 DEF Idle
  <2>3. ASSUME NEW id \in DOMAIN events, NEW body \in UpdateBodies, updateEvent(h, id, body)
        PROVE  \E r : Goes(h, r) /\ (r = Idle \/ r.step \in {"find", "target", "update"})
    <3>1. PICK r : Goes(h, r) /\ r = [Idle EXCEPT !.step = "update", !.kind = "update", !.event = id,
                                      !.body = body, !.old = events[id]]
      BY <2>3 DEF updateEvent
    <3> QED BY <3>1 DEF Idle
  <2> QED BY <2>1, <2>2, <2>3
<1>3. Fits(r)
  BY <1>2 DEF Fits, Idle
<1> QED BY <1>1, <1>2, <1>3, BeginsSerial DEF TypedInv

LEMMA WriteSerial ==
  ASSUME TypedInv, SerialInv, NEW h \in Handlers, NEW moment \in Moments, WriteEvent(h, moment)
  PROVE  SerialInv'
<1>1. Working(h) /\ UNCHANGED <<rows, crossed>> /\ DOMAIN req[h] = Fields
  BY WhoIsWhere DEF WriteEvent, Working, Refuses, Quiet, TypedInv
<1>2. PICK r : Goes(h, r) /\ (r = Idle \/ r.step \in {"find", "count"})
  <2>1. CASE Refuses(h)
    BY <2>1 DEF Refuses
  <2>2. CASE ~Refuses(h)
    <3>1. PICK body : body = req[h].body
      OBVIOUS
    <3>2. PICK lesson :
             Goes(h, IF ~WithLesson(body) \/ (lesson = 0 /\ NONE \in {body.discipline, body.type})
                     THEN Idle
                     ELSE [req[h] EXCEPT
                       !.step = IF lesson = 0 THEN "find" ELSE "count",
                       !.present = IF lesson = 0 THEN NONE ELSE Row(lesson),
                       !.discipline = IF body.discipline # NONE THEN body.discipline ELSE Row(lesson).discipline,
                       !.adding = IF body.teachers = NONE THEN << >> ELSE SetToSeq(body.teachers)])
      BY <2>2, <3>1 DEF WriteEvent
    <3>3. PICK r : Goes(h, r) /\ r =
                     IF ~WithLesson(body) \/ (lesson = 0 /\ NONE \in {body.discipline, body.type})
                     THEN Idle
                     ELSE [req[h] EXCEPT
                       !.step = IF lesson = 0 THEN "find" ELSE "count",
                       !.present = IF lesson = 0 THEN NONE ELSE Row(lesson),
                       !.discipline = IF body.discipline # NONE THEN body.discipline ELSE Row(lesson).discipline,
                       !.adding = IF body.teachers = NONE THEN << >> ELSE SetToSeq(body.teachers)]
      BY <3>2
    <3>4. r = Idle \/ r.step \in {"find", "count"}
      BY <1>1, <3>3 DEF Fields
    <3> QED BY <3>3, <3>4
  <2> QED BY <2>1, <2>2
<1>3. r.step \in {"idle", "find", "count"}
  BY <1>2 DEF Idle
<1>4. Fits(r)
  BY <1>3 DEF Fits
<1> QED BY <1>1, <1>2, <1>4, ReadsSerial DEF TypedInv

LEMMA CountSerial ==
  ASSUME TypedInv, SerialInv, NEW h \in Handlers, CountEvents(h) \/ ReadToClear(h)
  PROVE  SerialInv'
<1>1. DOMAIN req[h] = Fields /\ Working(h)
  BY WhoIsWhere DEF TypedInv, CountEvents, ReadToClear, Working
<1>2. PICK r : /\ Goes(h, r) /\ UNCHANGED <<rows, crossed>>
               /\ \/ \E step \in {"ready", "find"} : r = [req[h] EXCEPT !.step = step]
                  \/ r = [req[h] EXCEPT !.step = "clear", !.seen = Reading(req[h].present.discipline)]
  BY DEF CountEvents, ReadToClear, Reads, Quiet
<1>3. \/ r.step \in {"ready", "find"}
      \/ r.step = "clear" /\ r.seen = Reading(r.present.discipline)
  BY <1>1, <1>2 DEF Fields
<1>4. Fits(r)
  BY <1>3 DEF Fits
<1> QED BY <1>1, <1>2, <1>4, ReadsSerial DEF TypedInv

LEMMA ClearSerial ==
  ASSUME TypedInv, SerialInv, NEW h \in Handlers, clearDiscipline(h)
  PROVE  SerialInv'
<1>1. CASE Fails(h)
  BY <1>1, FailsSerial
<1>2. CASE ~Fails(h)
  <2>1. DOMAIN req[h] = Fields /\ Working(h)
    BY WhoIsWhere DEF TypedInv, clearDiscipline, Working
  <2>2. /\ types' \subseteq types /\ teachers' \subseteq teachers /\ UNCHANGED crossed
    BY <1>2 DEF clearDiscipline, Gone, Quiet
  <2>3. PICK r : Goes(h, r) /\ r = [req[h] EXCEPT !.step = "find"]
    BY <1>2 DEF clearDiscipline
  <2>4. r.step = "find"
    BY <2>1, <2>3 DEF Fields
  <2>5. Fits(r)'
    BY <2>4 DEF Fits
  <2> QED BY <2>1, <2>2, <2>3, <2>5, FewerSingle, OthersIdle, OneServes DEF SerialInv, TypedInv
<1> QED BY <1>1, <1>2

\* Those removed with a type had roles of that type only, as read.
LEMMA RemovableFits ==
  ASSUME RowsInv, NEW reading, NEW discipline, reading.teachers = Reading(discipline).teachers,
         NEW type, NEW but
  PROVE  LET ids == SetToSeq(Removable(reading, type, but))
         IN /\ ids \in Seq(Nat)
            /\ \A i \in DOMAIN ids, o \in roles : o.dt = ids[i] => o.type = type
<1> DEFINE all == {t.id : t \in teachers}
           gone == Removable(reading, type, but)
<1>1. ASSUME NEW id \in gone
      PROVE  id \in all /\ \A o \in roles : o.dt = id => o.type = type
  <2>1. PICK u \in reading.teachers : id = u.row.id /\ \A r \in u.roles : r.type = type
    BY DEF Removable
  <2>2. PICK t \in TeachersOf(discipline) : u = [row |-> t, roles |-> RolesOf(t.id)]
    BY <2>1 DEF Reading
  <2>3. t \in teachers /\ id = t.id /\ u.roles = RolesOf(t.id)
    BY <2>1, <2>2 DEF TeachersOf
  <2> QED BY <2>1, <2>3 DEF RolesOf
<1>2. all \subseteq Nat
  BY DEF RowsInv, TeacherRow
<1>3. IsFiniteSet(all)
  <2>1. PICK f : f = [t \in teachers |-> t.id]
    OBVIOUS
  <2>2. f \in Surjection(teachers, all)
    BY <2>1 DEF Surjection
  <2> QED BY <2>2, FS_Surjection DEF RowsInv
<1>4. gone \in SUBSET all
  BY <1>1
<1> HIDE DEF gone, all
<1>5. IsFiniteSet(gone)
  BY <1>3, <1>4, FS_Subset
<1>6. SetToSeq(gone) \in Seq(gone) /\ \A i \in DOMAIN SetToSeq(gone) : SetToSeq(gone)[i] \in gone
  BY <1>5, SequenceOf
<1>7. gone \subseteq Nat
  BY <1>2, <1>4
<1>8. SetToSeq(gone) \in Seq(Nat)
  BY <1>6, <1>7, WiderSequence
<1> QED BY <1>1, <1>6, <1>8 DEF gone

LEMMA FindTypeSerial ==
  ASSUME TypedInv, SerialInv, NEW h \in Handlers, FindType(h)
  PROVE  SerialInv'
<1>1. PICK q : q = req[h]
  OBVIOUS
<1>2. Teaching(q) /\ DOMAIN q = Fields /\ q.step = "find" /\ Working(h) /\ UNCHANGED <<rows, crossed>>
  BY <1>1, WhoIsWhere DEF TypedInv, FindType, Working, Reads, Quiet
<1> DEFINE reading == Reading(q.discipline)
           found == Named(reading, TypeName(q))
<1>3. CASE found = {}
  <2>1. PICK r : Goes(h, r) /\ r = [q EXCEPT !.step = "type"]
    BY <1>1, <1>3 DEF FindType, Reads
  <2>2. r.step = "type" /\ r.discipline = q.discipline /\ TypeName(r) = TypeName(q)
    BY <1>2, <2>1 DEF Fields, TypeName
  <2>3. \A t \in types : t.discipline = r.discipline => t.name # TypeName(r)
    BY <1>3, <2>2 DEF Named, Reading, TypesOf
  <2>4. Fits(r)
    BY <2>2, <2>3 DEF Fits
  <2> QED BY <1>2, <2>1, <2>4, ReadsSerial DEF TypedInv
<1>4. CASE found # {}
  <2>1. PICK t \in found : Goes(h, WithType(q, reading, t.id))
    BY <1>1, <1>4 DEF FindType, Reads
  <2>2. PICK r : r = WithType(q, reading, t.id)
    OBVIOUS
  <2>3. /\ r.step = "remove" /\ r.kind = q.kind /\ r.type = t.id
        /\ r.removing = IF q.kind # "update" THEN << >>
                        ELSE SetToSeq(Removable(reading, t.id, Range(q.adding)))
    BY <1>2, <2>2, WithTypeFields
  <2>4. TypeOfGone(r) = t.id
    BY <1>2, <2>3 DEF TypeOfGone, Teaching
  <2>5. /\ r.removing \in Seq(Nat)
        /\ \A i \in DOMAIN r.removing, o \in roles : o.dt = r.removing[i] => o.type = t.id
    <3>1. CASE q.kind # "update"
      BY <2>3, <3>1
    <3>2. CASE q.kind = "update"
      BY <2>3, <3>2, RemovableFits DEF TypedInv
    <3> QED BY <3>1, <3>2
  <2>6. Fits(r)
    BY <2>3, <2>4, <2>5 DEF Fits
  <2> QED BY <1>2, <2>1, <2>2, <2>6, ReadsSerial DEF TypedInv
<1> QED BY <1>3, <1>4

LEMMA MakeTypeSerial ==
  ASSUME TypedInv, SerialInv, NEW h \in Handlers, MakeType(h)
  PROVE  SerialInv'
<1> SUFFICES ASSUME ~crossed PROVE SerialInv'
  BY DEF SerialInv, MakeType, Quiet
<1>1. PICK q : q = req[h]
  OBVIOUS
<1>2. Teaching(q) /\ DOMAIN q = Fields /\ q.step = "type" /\ Working(h)
  BY <1>1, WhoIsWhere DEF TypedInv, MakeType, Working
<1>3. PICK new : new = [id |-> made + 1, discipline |-> q.discipline, name |-> TypeName(q)]
  OBVIOUS
<1>4. types' = types \cup {new} /\ teachers' = teachers /\ roles' = roles
  BY <1>1, <1>3 DEF MakeType, Makes
<1>5. PICK reading : reading = [Reading(q.discipline) EXCEPT !.types = @ \cup {new}]
  OBVIOUS
<1>6. reading.teachers = Reading(q.discipline).teachers
  BY <1>5 DEF Reading
<1>7. PICK t \in Named(reading, new.name) : Goes(h, WithType(q, reading, t.id))
  BY <1>1, <1>3, <1>5 DEF MakeType
<1>8. PICK r : r = WithType(q, reading, t.id)
  OBVIOUS
<1>9. /\ r.step = "remove" /\ r.kind = q.kind /\ r.type = t.id
      /\ r.removing = IF q.kind # "update" THEN << >>
                      ELSE SetToSeq(Removable(reading, t.id, Range(q.adding)))
  BY <1>2, <1>8, WithTypeFields
<1>10. TypeOfGone(r) = t.id
  BY <1>2, <1>9 DEF TypeOfGone, Teaching
<1>11. /\ r.removing \in Seq(Nat)
       /\ \A i \in DOMAIN r.removing, o \in roles : o.dt = r.removing[i] => o.type = t.id
  <2>1. CASE q.kind # "update"
    BY <1>9, <2>1
  <2>2. CASE q.kind = "update"
    BY <1>6, <1>9, <2>2, RemovableFits DEF TypedInv
  <2> QED BY <2>1, <2>2
<1>12. Fits(r)'
  BY <1>4, <1>9, <1>10, <1>11 DEF Fits, TypeOfGone
<1>13. Single'
  <2>1. \A s \in types : s.discipline = new.discipline => s.name # new.name
    BY <1>1, <1>2, <1>3 DEF SerialInv, Fits
  <2> QED BY <1>4, <2>1 DEF SerialInv, Single
<1> QED BY <1>2, <1>7, <1>8, <1>12, <1>13, OthersIdle, OneServes DEF TypedInv

LEMMA RemoveSerial ==
  ASSUME TypedInv, SerialInv, NEW h \in Handlers, removeTeacher(h)
  PROVE  SerialInv'
<1>1. CASE Fails(h)
  BY <1>1, FailsSerial
<1>2. CASE ~Fails(h)
  <2> SUFFICES ASSUME ~crossed PROVE SerialInv'
    BY <1>2 DEF SerialInv, removeTeacher, Quiet
  <2>1. PICK q : q = req[h]
    OBVIOUS
  <2>2. DOMAIN q = Fields /\ q.step = "remove" /\ q.removing # << >> /\ Working(h)
    BY <2>1, WhoIsWhere DEF TypedInv, removeTeacher, Working
  <2>3. types' \subseteq types /\ teachers' \subseteq teachers /\ roles' \subseteq roles
    BY <1>2 DEF removeTeacher, Gone
  <2>4. PICK r : Goes(h, r) /\ r = [q EXCEPT !.removing = Tail(@)]
    BY <1>2, <2>1 DEF removeTeacher
  <2>5. r.step = "remove" /\ TypeOfGone(r) = TypeOfGone(q) /\ r.removing = Tail(q.removing)
    BY <2>2, <2>4 DEF Fields, TypeOfGone
  <2>6. /\ q.removing \in Seq(Nat)
        /\ \A i \in DOMAIN q.removing, o \in roles : o.dt = q.removing[i] => o.type = TypeOfGone(q)
    BY <2>1, <2>2 DEF SerialInv, Fits
  <2>7. /\ r.removing \in Seq(Nat)
        /\ \A i \in DOMAIN r.removing : i + 1 \in DOMAIN q.removing /\ r.removing[i] = q.removing[i + 1]
    BY <2>2, <2>5, <2>6
  <2>8. Fits(r)'
    BY <2>3, <2>5, <2>6, <2>7 DEF Fits, TypeOfGone
  <2> QED BY <2>2, <2>3, <2>4, <2>8, FewerSingle, OthersIdle, OneServes DEF SerialInv, TypedInv
<1> QED BY <1>1, <1>2

LEMMA RemovedSerial ==
  ASSUME TypedInv, SerialInv, NEW h \in Handlers, Removed(h)
  PROVE  SerialInv'
<1>1. DOMAIN req[h] = Fields /\ Working(h) /\ UNCHANGED <<rows, crossed>>
  BY WhoIsWhere DEF TypedInv, Removed, Working, Reads, Quiet
<1>2. PICK r : Goes(h, r) /\ r = [req[h] EXCEPT !.step = IF req[h].kind = "delete" THEN "untype" ELSE "teachers"]
  BY DEF Removed, Reads
<1>3. r.step \in {"untype", "teachers"}
  BY <1>1, <1>2 DEF Fields
<1>4. Fits(r)
  BY <1>3 DEF Fits
<1> QED BY <1>1, <1>2, <1>4, ReadsSerial DEF TypedInv

LEMMA FindTeacherSerial ==
  ASSUME TypedInv, SerialInv, NEW h \in Handlers, FindTeacher(h)
  PROVE  SerialInv'
<1>1. PICK q : q = req[h]
  OBVIOUS
<1>2. DOMAIN q = Fields /\ q.step = "teachers" /\ Working(h) /\ UNCHANGED <<rows, crossed>>
  BY <1>1, WhoIsWhere DEF TypedInv, FindTeacher, Working, Reads, Quiet
<1> DEFINE found == {t \in TeachersOf(q.discipline) : t.teacher = Head(q.adding)}
<1>3. CASE found = {}
  <2>1. PICK r : Goes(h, r) /\ r = [q EXCEPT !.step = "join"]
    BY <1>1, <1>3 DEF FindTeacher, Reads
  <2>2. r.step = "join" /\ r.discipline = q.discipline /\ r.adding = q.adding
    BY <1>2, <2>1 DEF Fields
  <2>3. Fits(r)
    BY <1>3, <2>2 DEF Fits, TeachersOf
  <2> QED BY <1>2, <2>1, <2>3, ReadsSerial DEF TypedInv
<1>4. CASE found # {}
  <2>1. PICK t, r : Goes(h, r) /\ (r = Proceed(q) \/ r = [q EXCEPT !.step = "role", !.dt = t.id])
    BY <1>1, <1>4 DEF FindTeacher, Reads
  <2>2. r.step \in {"teachers", "role"}
    BY <1>2, <2>1 DEF Fields, Proceed
  <2>3. Fits(r)
    BY <2>2 DEF Fits
  <2> QED BY <1>2, <2>1, <2>3, ReadsSerial DEF TypedInv
<1> QED BY <1>3, <1>4

\* A teacher who comes where he was not.
LEMMA ComesSerial ==
  ASSUME TypedInv, SerialInv, NEW h \in Handlers, Working(h), NEW r, Goes(h, r),
         NEW new, teachers' = teachers \cup {new}, types' = types, UNCHANGED crossed,
         ~crossed => \A t \in teachers : t.discipline = new.discipline => t.teacher # new.teacher,
         r.step \in {"idle", "role", "staff"}
  PROVE  SerialInv'
<1>1. Fits(r)'
  BY DEF Fits
<1>2. ~crossed => Single'
  BY DEF SerialInv, Single
<1> QED BY <1>1, <1>2, OthersIdle, OneServes DEF TypedInv

LEMMA JoinSerial ==
  ASSUME TypedInv, SerialInv, NEW h \in Handlers, JoinTeacher(h) \/ PutTeacher(h)
  PROVE  SerialInv'
<1>1. PICK q : q = req[h]
  OBVIOUS
<1>2. DOMAIN q = Fields /\ q.step \in {"join", "put"} /\ Working(h) /\ UNCHANGED crossed
  BY <1>1, WhoIsWhere DEF TypedInv, JoinTeacher, PutTeacher, Working, Quiet
<1>3. PICK new : new = [id |-> made + 1, discipline |-> q.discipline,
                        teacher |-> IF q.step = "join" THEN Head(q.adding) ELSE q.body]
  OBVIOUS
<1>4. teachers' = teachers \cup {new} /\ types' = types
  BY <1>1, <1>3 DEF JoinTeacher, PutTeacher, Makes
<1>5. PICK r, step : /\ Goes(h, r) /\ r = [q EXCEPT !.step = step, !.dt = made + 1]
                     /\ step \in {"role", "staff"}
  BY <1>1 DEF JoinTeacher, PutTeacher
<1>6. r.step \in {"role", "staff"}
  BY <1>2, <1>5 DEF Fields
<1>7. ~crossed => \A t \in teachers : t.discipline = new.discipline => t.teacher # new.teacher
  BY <1>1, <1>2, <1>3 DEF SerialInv, Fits
<1> QED BY <1>2, <1>4, <1>5, <1>6, <1>7, ComesSerial

LEMMA GiveRoleSerial ==
  ASSUME TypedInv, SerialInv, NEW h \in Handlers, GiveRole(h)
  PROVE  SerialInv'
<1>1. CASE Fails(h)
  BY <1>1, FailsSerial
<1>2. CASE ~Fails(h)
  <2>1. DOMAIN req[h] = Fields /\ Working(h)
    BY WhoIsWhere DEF TypedInv, GiveRole, Working
  <2>2. types' = types /\ teachers' = teachers /\ UNCHANGED crossed
    BY <1>2 DEF GiveRole, Makes, Quiet
  <2>3. PICK r : Goes(h, r) /\ r = Proceed(req[h])
    BY <1>2 DEF GiveRole
  <2>4. r.step = "teachers"
    BY <2>1, <2>3 DEF Proceed, Fields
  <2>5. Fits(r)'
    BY <2>4 DEF Fits
  <2> QED BY <2>1, <2>2, <2>3, <2>5, FewerSingle, OthersIdle, OneServes DEF SerialInv, TypedInv
<1> QED BY <1>1, <1>2

LEMMA LessonSerial ==
  ASSUME TypedInv, SerialInv, NEW h \in Handlers, attachLesson(h) \/ updateDiscipline(h) \/ ReplaceLesson(h)
  PROVE  SerialInv'
<1>1. CASE Fails(h)
  BY <1>1, FailsSerial
<1>2. CASE ~Fails(h)
  <2>1. DOMAIN req[h] = Fields /\ Working(h)
    BY WhoIsWhere DEF TypedInv, attachLesson, updateDiscipline, ReplaceLesson, Working
  <2>2. UNCHANGED <<rows, crossed>>
    BY <1>2 DEF attachLesson, updateDiscipline, ReplaceLesson, SetLessons, Reads, Quiet
  <2>3. PICK r : /\ Goes(h, r)
                 /\ r = Idle \/ r = [req[h] EXCEPT !.step = "lesson", !.seen = Reading(req[h].discipline)]
    BY <1>2 DEF attachLesson, updateDiscipline, ReplaceLesson, SetLessons, Reads
  <2>4. r.step \in {"idle", "lesson"}
    <3>1. CASE r = Idle
      BY <3>1 DEF Idle
    <3>2. CASE r = [req[h] EXCEPT !.step = "lesson", !.seen = Reading(req[h].discipline)]
      BY <2>1, <3>2 DEF Fields
    <3> QED BY <2>3, <3>1, <3>2
  <2>5. Fits(r)
    BY <2>4 DEF Fits
  <2> QED BY <2>1, <2>2, <2>3, <2>5, ReadsSerial DEF TypedInv
<1> QED BY <1>1, <1>2

LEMMA LeavingSerial ==
  ASSUME TypedInv, SerialInv, NEW h \in Handlers, FindTarget(h) \/ ReadToDelete(h) \/ DeleteType(h)
  PROVE  SerialInv'
<1>1. PICK q : q = req[h]
  OBVIOUS
<1>2. DOMAIN q = Fields /\ Leaving(q) /\ Working(h)
  BY <1>1, WhoIsWhere DEF TypedInv, FindTarget, ReadToDelete, DeleteType, Working
<1>3. CASE DeleteType(h)
  <2>1. CASE Fails(h)
    BY <2>1, FailsSerial
  <2>2. CASE ~Fails(h)
    <3>1. types' \subseteq types /\ teachers' \subseteq teachers /\ UNCHANGED crossed /\ Goes(h, Idle)
      BY <1>3, <2>2 DEF DeleteType, Gone, Quiet
    <3> QED BY <1>2, <3>1, IdleFits, FewerSingle, OthersIdle, OneServes DEF SerialInv, TypedInv
  <2> QED BY <2>1, <2>2
<1>4. CASE FindTarget(h)
  <2>1. PICK r : /\ Goes(h, r) /\ UNCHANGED <<rows, crossed>>
                 /\ r = Idle \/ r = [q EXCEPT !.step = "read"]
    BY <1>1, <1>4 DEF FindTarget, Reads, Quiet
  <2>2. r.step \in {"idle", "read"}
    <3>1. CASE r = Idle
      BY <3>1 DEF Idle
    <3>2. CASE r = [q EXCEPT !.step = "read"]
      BY <1>2, <3>2 DEF Fields
    <3> QED BY <2>1, <3>1, <3>2
  <2>3. Fits(r)
    BY <2>2 DEF Fits
  <2> QED BY <1>2, <2>1, <2>3, ReadsSerial DEF TypedInv
<1>5. CASE ReadToDelete(h)
  <2>1. PICK reading : reading = Reading(q.discipline)
    OBVIOUS
  <2>2. PICK r : /\ Goes(h, r) /\ UNCHANGED <<rows, crossed>>
                 /\ r = [q EXCEPT !.step = "remove", !.removing = SetToSeq(Removable(reading, q.present.id, {}))]
    BY <1>1, <1>5, <2>1 DEF ReadToDelete, Reads, Quiet
  <2>3. /\ r.step = "remove" /\ r.kind = "delete" /\ r.present = q.present
        /\ r.removing = SetToSeq(Removable(reading, q.present.id, {}))
    BY <1>2, <2>2 DEF Fields, Leaving
  <2>4. /\ r.removing \in Seq(Nat)
        /\ \A i \in DOMAIN r.removing, o \in roles : o.dt = r.removing[i] => o.type = q.present.id
    BY <2>1, <2>3, RemovableFits DEF TypedInv
  <2>5. Fits(r)
    BY <2>3, <2>4 DEF Fits, TypeOfGone
  <2> QED BY <1>2, <2>2, <2>5, ReadsSerial DEF TypedInv
<1> QED BY <1>3, <1>4, <1>5

LEMMA ByHandSerial ==
  ASSUME TypedInv, SerialInv, NEW h \in Handlers,
         \/ \E teacher \in Teachers, discipline \in Disciplines, names \in Staff :
              create(h, teacher, discipline, names) \/ updateByTeacherAndDiscipline(h, teacher, discipline, names)
         \/ \E t \in teachers, names \in Staff : updateById(h, t, names)
  PROVE  SerialInv'
<1>1. ASSUME NEW teacher, NEW discipline, NEW names, create(h, teacher, discipline, names)
      PROVE  SerialInv'
  <2>1. PICK r : /\ Goes(h, r)
                 /\ r = [Idle EXCEPT !.step = "name", !.kind = "hand", !.body = teacher, !.present = {},
                         !.discipline = discipline, !.adding = names, !.seen = Reading(discipline)]
    BY <1>1 DEF create
  <2>2. r.step = "name" /\ r.seen.types = TypesOf(r.discipline)
    BY <2>1 DEF Idle, Reading
  <2>3. Fits(r)
    BY <2>2 DEF Fits
  <2> QED BY <1>1, <2>1, <2>3, BeginsSerial DEF create, TypedInv
<1>2. ASSUME NEW t, NEW names, updateById(h, t, names)
      PROVE  SerialInv'
  <2>1. PICK r : /\ Goes(h, r)
                 /\ r = [Idle EXCEPT !.step = "staff", !.kind = "hand", !.dt = t.id, !.present = {},
                         !.discipline = t.discipline, !.adding = names]
    BY <1>2 DEF updateById
  <2>2. r.step = "staff"
    BY <2>1 DEF Idle
  <2>3. Fits(r)
    BY <2>2 DEF Fits
  <2> QED BY <1>2, <2>1, <2>3, BeginsSerial DEF updateById, TypedInv
<1>3. ASSUME NEW teacher, NEW discipline, NEW names,
             updateByTeacherAndDiscipline(h, teacher, discipline, names)
      PROVE  SerialInv'
  <2> DEFINE found == {t \in TeachersOf(discipline) : t.teacher = teacher}
  <2>1. CASE found # {}
    BY <1>2, <1>3, <2>1 DEF updateByTeacherAndDiscipline
  <2>2. CASE found = {}
    <3>1. PICK r : /\ Goes(h, r) /\ UNCHANGED rows /\ Begins /\ ~Working(h)
                   /\ r = [Idle EXCEPT !.step = "put", !.kind = "hand", !.body = teacher, !.present = {},
                           !.discipline = discipline, !.adding = names]
      BY <1>3, <2>2 DEF updateByTeacherAndDiscipline
    <3>2. r.step = "put" /\ r.discipline = discipline /\ r.body = teacher
      BY <3>1 DEF Idle
    <3>3. Fits(r)
      BY <2>2, <3>2 DEF Fits, TeachersOf
    <3> QED BY <3>1, <3>3, BeginsSerial DEF TypedInv
  <2> QED BY <2>1, <2>2
<1> QED BY <1>1, <1>2, <1>3

LEMMA ReadToAppointSerial ==
  ASSUME TypedInv, SerialInv, NEW h \in Handlers, ReadToAppoint(h)
  PROVE  SerialInv'
<1>1. CASE Fails(h)
  BY <1>1, FailsSerial
<1>2. CASE ~Fails(h)
  <2>1. DOMAIN req[h] = Fields /\ Working(h)
    BY WhoIsWhere DEF TypedInv, ReadToAppoint, Working
  <2>2. PICK r : /\ Goes(h, r) /\ UNCHANGED <<rows, crossed>>
                 /\ r = [req[h] EXCEPT !.step = "name", !.seen = Reading(req[h].discipline)]
    BY <1>2 DEF ReadToAppoint, Reads, Quiet
  <2>3. r.step = "name" /\ r.seen.types = TypesOf(r.discipline)
    BY <2>1, <2>2 DEF Fields, Reading
  <2>4. Fits(r)
    BY <2>3 DEF Fits
  <2> QED BY <2>1, <2>2, <2>4, ReadsSerial DEF TypedInv
<1> QED BY <1>1, <1>2

LEMMA NameTypeSerial ==
  ASSUME TypedInv, SerialInv, NEW h \in Handlers, NameType(h)
  PROVE  SerialInv'
<1>1. PICK q : q = req[h]
  OBVIOUS
<1>2. DOMAIN q = Fields /\ q.step = "name" /\ Working(h) /\ (~crossed => q.seen.types = TypesOf(q.discipline))
  BY <1>1, WhoIsWhere DEF TypedInv, NameType, Working, SerialInv, Fits
<1>3. PICK new : new = [id |-> made + 1, discipline |-> q.discipline, name |-> Head(q.adding)]
  OBVIOUS
<1> DEFINE found == Named(q.seen, new.name)
           Given(id) == [q EXCEPT !.adding = Tail(@), !.present = @ \cup {<<id, RoleOf(new.name)>>}]
<1>6. CASE Fails(h)
  BY <1>6, FailsSerial
<1>7. CASE crossed /\ ~Fails(h)
  BY <1>1, <1>3, <1>7 DEF SerialInv, NameType, Quiet, Reads
<1>4. CASE ~crossed /\ ~Fails(h) /\ found = {}
  <2>1. PICK reading : reading = [Reading(q.discipline) EXCEPT !.types = @ \cup {new}]
    OBVIOUS
  <2>2. PICK t : Goes(h, [Given(t.id) EXCEPT !.seen = reading]) /\ Makes({new}, {}, {})
    BY <1>1, <1>3, <1>4, <2>1 DEF NameType
  <2>3. types' = types \cup {new} /\ teachers' = teachers
    BY <2>2 DEF Makes
  <2>4. PICK r : r = [Given(t.id) EXCEPT !.seen = reading]
    OBVIOUS
  <2>5. r.step = "name" /\ r.discipline = q.discipline /\ r.seen.types = TypesOf(q.discipline) \cup {new}
    BY <1>2, <1>4, <2>1, <2>4 DEF Fields, Reading
  <2>6. Fits(r)'
    BY <1>3, <2>3, <2>5 DEF Fits, TypesOf
  <2>7. Single'
    <3>1. \A s \in types : s.discipline = new.discipline => s.name # new.name
      BY <1>2, <1>3, <1>4 DEF Named, TypesOf
    <3> QED BY <1>4, <2>3, <3>1 DEF SerialInv, Single
  <2> QED BY <1>2, <1>4, <2>2, <2>4, <2>6, <2>7, OthersIdle, OneServes DEF TypedInv
<1>5. CASE ~crossed /\ ~Fails(h) /\ found # {}
  <2>1. PICK t : Goes(h, Given(t.id)) /\ UNCHANGED <<rows, crossed>>
    BY <1>1, <1>3, <1>5 DEF NameType, Reads, Quiet
  <2>2. PICK r : r = Given(t.id)
    OBVIOUS
  <2>3. r.step = "name" /\ r.discipline = q.discipline /\ r.seen = q.seen
    BY <1>2, <2>2 DEF Fields
  <2>4. Fits(r)
    BY <1>2, <1>5, <2>3 DEF Fits
  <2> QED BY <1>2, <1>5, <2>1, <2>2, <2>4, ReadsSerial DEF TypedInv
<1> QED BY <1>4, <1>5, <1>6, <1>7

LEMMA AppointSerial ==
  ASSUME TypedInv, SerialInv, NEW h \in Handlers, Appoint(h)
  PROVE  SerialInv'
<1>1. CASE Fails(h)
  BY <1>1, FailsSerial
<1>2. CASE ~Fails(h)
  <2>1. PICK q : q = req[h]
    OBVIOUS
  <2>2. Working(h) /\ Goes(h, Idle) /\ types' = types
    BY <1>2 DEF Appoint, Working
  <2>3. \/ teachers' = teachers /\ UNCHANGED crossed
        \/ \E new : /\ teachers' = teachers \cup {new}
                    /\ new.teacher = q.body /\ new.discipline = q.discipline
                    /\ crossed' = (crossed \/ \E t \in TeachersOf(q.discipline) : t.teacher = q.body)
    <3>1. CASE q.dt # 0
      BY <1>2, <2>1, <3>1 DEF Appoint
    <3>2. CASE q.dt = 0
      <4>1. PICK new : new = [id |-> made + 1, teacher |-> q.body, discipline |-> q.discipline]
        OBVIOUS
      <4> QED BY <1>2, <2>1, <3>2, <4>1 DEF Appoint
    <3> QED BY <3>1, <3>2
  <2>4. ASSUME ~crossed'
        PROVE  ~crossed /\ Single'
    <3>1. ~crossed
      BY <2>3, <2>4
    <3>2. Single
      BY <3>1 DEF SerialInv
    <3>3. CASE teachers' = teachers
      BY <2>2, <3>1, <3>2, <3>3, FewerSingle
    <3>4. CASE teachers' # teachers
      <4>1. PICK new : /\ teachers' = teachers \cup {new}
                       /\ new.teacher = q.body /\ new.discipline = q.discipline
                       /\ crossed' = (crossed \/ \E t \in TeachersOf(q.discipline) : t.teacher = q.body)
        BY <2>3, <3>4
      <4>2. \A t \in teachers : t.discipline = new.discipline => t.teacher # new.teacher
        BY <2>4, <4>1 DEF TeachersOf
      <4> QED BY <2>2, <3>1, <3>2, <4>1, <4>2, OneMoreSingle
    <3> QED BY <3>1, <3>3, <3>4
  <2> QED BY <2>2, <2>4, IdleFits, OthersIdle, OneServes DEF TypedInv
<1> QED BY <1>1, <1>2

LEMMA DeleteByIdSerial ==
  ASSUME TypedInv, SerialInv, NEW h \in Handlers, NEW t \in teachers, deleteById(h, t)
  PROVE  SerialInv'
<1> SUFFICES ASSUME ~crossed' PROVE Single' /\ Alone' /\ (\A g \in Handlers : Fits(req[g]))'
  BY DEF SerialInv
<1>1. ~crossed /\ (\A g \in Handlers : ~Working(g)) /\ UNCHANGED req
  BY DEF deleteById, Begins
<1>2. Single'
  BY <1>1, FewerSingle DEF deleteById, Gone, SerialInv
<1>3. Alone'
  BY <1>1 DEF Alone, Working
<1>4. \A g \in Handlers : req'[g].step = "idle"
  BY <1>1 DEF Working
<1>5. \A g \in Handlers : Fits(req[g])'
  BY <1>4 DEF Fits
<1> QED BY <1>2, <1>3, <1>5

LEMMA StepSerial == ASSUME TypedInv, SerialInv, NEW h \in Handlers, Step(h) PROVE SerialInv'
<1>1. CASE \/ \E id \in EventIds, body \in CreateBodies : createGroupEvent(h, id, body)
           \/ \E id \in DOMAIN events : deleteEvent(h, id)
           \/ \E id \in DOMAIN events, body \in UpdateBodies : updateEvent(h, id, body)
  BY <1>1, EventSerial
<1>2. CASE \E moment \in Moments : WriteEvent(h, moment)
  BY <1>2, WriteSerial
<1>3. CASE CountEvents(h) \/ ReadToClear(h) \/ clearDiscipline(h)
  BY <1>3, CountSerial, ClearSerial
<1>4. CASE FindType(h) \/ MakeType(h) \/ removeTeacher(h) \/ Removed(h)
  BY <1>4, FindTypeSerial, MakeTypeSerial, RemoveSerial, RemovedSerial
<1>5. CASE FindTeacher(h) \/ JoinTeacher(h) \/ GiveRole(h)
  BY <1>5, FindTeacherSerial, JoinSerial, GiveRoleSerial
<1>6. CASE attachLesson(h) \/ updateDiscipline(h) \/ ReplaceLesson(h)
  BY <1>6, LessonSerial
<1>7. CASE FindTarget(h) \/ ReadToDelete(h) \/ DeleteType(h)
  BY <1>7, LeavingSerial
<1>8. CASE \E teacher \in Teachers, discipline \in Disciplines, names \in Staff :
             create(h, teacher, discipline, names) \/ updateByTeacherAndDiscipline(h, teacher, discipline, names)
  BY <1>8, ByHandSerial
<1>9. CASE \E t \in teachers : deleteById(h, t) \/ \E names \in Staff : updateById(h, t, names)
  BY <1>9, ByHandSerial, DeleteByIdSerial
<1>10. CASE PutTeacher(h) \/ ReadToAppoint(h) \/ NameType(h) \/ Appoint(h)
  BY <1>10, JoinSerial, ReadToAppointSerial, NameTypeSerial, AppointSerial
<1> QED BY <1>1, <1>2, <1>3, <1>4, <1>5, <1>6, <1>7, <1>8, <1>9, <1>10 DEF Step

LEMMA InvariantKept == TypedInv /\ SerialInv /\ [Next]_vars => TypedInv' /\ SerialInv'
  BY StepTyped, StopTyped, SameTyped, StepSerial, StopSerial, SameSerial DEF Next

\* Tables that start without twins have none while requests do not cross: whoever makes a
\* type of a discipline, or puts a teacher in it, has seen that there is none, and a
\* teacher put by hand where he is counts as a crossing (ScheduleService.ts:221-257,
\* 631-664, DisciplineTeacherService.ts:256-300).
THEOREM SerialMakesNoTwins == ASSUME StartsSingle PROVE Spec => []NoTwins
<1>1. SerialInv => NoTwins
  BY DEF SerialInv, Single, NoTwins
<1>2. Init => TypedInv /\ SerialInv
  BY InitTyped, InitSerial, StartsSingle
<1> QED BY <1>1, <1>2, InvariantKept, PTL DEF Spec

-----------------------------------------------------------------------------
(* Teachers who leave a discipline *)

\* All that one of them taught there was of the type the request takes away.
LeavesRightly(t, h) ==
  \A r \in roles : r.dt = t.id => LeftFor(r, req[h].present) \/ r.type = req[h].type
KeptStep ==
  ~crossed' => \A t \in teachers \ teachers', h \in Handlers : Working(h) => LeavesRightly(t, h)

LEMMA KeptIsSome == ASSUME RowsInv, NEW p, Kept(p) PROVE p # NONE
<1>1. p \in [id : Nat, discipline : Disciplines, name : TypeNames]
  BY DEF RowsInv, Kept, TypeRow
<1> QED BY <1>1, ScheduleAssumption

LEMMA EventsKeepTeachers ==
  ASSUME NEW h \in Handlers,
         \/ \E id \in EventIds, body \in CreateBodies : createGroupEvent(h, id, body)
         \/ \E id \in DOMAIN events : deleteEvent(h, id)
         \/ \E id \in DOMAIN events, body \in UpdateBodies : updateEvent(h, id, body)
         \/ \E moment \in Moments : WriteEvent(h, moment)
         \/ CountEvents(h) \/ ReadToClear(h)
  PROVE  teachers' = teachers
<1>1. \A id \in EventIds, body \in CreateBodies : createGroupEvent(h, id, body) => teachers' = teachers
  BY DEF createGroupEvent, rows
<1>2. \A id : deleteEvent(h, id) => teachers' = teachers
  BY DEF deleteEvent, rows
<1>3. \A id, body : updateEvent(h, id, body) => teachers' = teachers
  BY DEF updateEvent, rows
<1>4. \A moment : WriteEvent(h, moment) => teachers' = teachers
  BY DEF WriteEvent, Refuses, rows
<1>5. CountEvents(h) \/ ReadToClear(h) => teachers' = teachers
  BY DEF CountEvents, ReadToClear, Reads, rows
<1> QED BY <1>1, <1>2, <1>3, <1>4, <1>5

LEMMA TypesKeepTeachers ==
  ASSUME NEW h \in Handlers,
         \/ FindType(h) \/ MakeType(h) \/ Removed(h) \/ FindTeacher(h) \/ JoinTeacher(h) \/ GiveRole(h)
         \/ attachLesson(h) \/ updateDiscipline(h) \/ ReplaceLesson(h)
         \/ FindTarget(h) \/ ReadToDelete(h) \/ DeleteType(h)
  PROVE  teachers \subseteq teachers'
<1>1. FindType(h) \/ Removed(h) \/ FindTeacher(h) => teachers' = teachers
  BY DEF FindType, Removed, FindTeacher, Reads, rows
<1>2. MakeType(h) \/ JoinTeacher(h) => teachers \subseteq teachers'
  BY DEF MakeType, JoinTeacher, Makes
<1>3. GiveRole(h) => teachers \subseteq teachers'
  BY DEF GiveRole, Makes, Fails, rows
<1>4. attachLesson(h) \/ updateDiscipline(h) \/ ReplaceLesson(h) => teachers' = teachers
  BY DEF attachLesson, updateDiscipline, ReplaceLesson, SetLessons, Reads, Fails, rows
<1>5. FindTarget(h) \/ ReadToDelete(h) => teachers' = teachers
  BY DEF FindTarget, ReadToDelete, Reads, rows
<1>6. DeleteType(h) => teachers \subseteq teachers'
  BY DEF DeleteType, Gone, Fails, rows
<1> QED BY <1>1, <1>2, <1>3, <1>4, <1>5, <1>6

LEMMA HandsKeepTeachers ==
  ASSUME NEW h \in Handlers,
         \/ \E teacher \in Teachers, discipline \in Disciplines, names \in Staff :
              create(h, teacher, discipline, names) \/ updateByTeacherAndDiscipline(h, teacher, discipline, names)
         \/ \E t \in teachers, names \in Staff : updateById(h, t, names)
         \/ PutTeacher(h) \/ ReadToAppoint(h) \/ NameType(h) \/ Appoint(h)
  PROVE  teachers \subseteq teachers'
<1>1. \A teacher, discipline, names : create(h, teacher, discipline, names) => teachers' = teachers
  BY DEF create, rows
<1>2. \A t, names : updateById(h, t, names) => teachers' = teachers
  BY DEF updateById, rows
<1>3. \A teacher, discipline, names :
        updateByTeacherAndDiscipline(h, teacher, discipline, names) => teachers' = teachers
  BY <1>2 DEF updateByTeacherAndDiscipline, rows
<1>4. PutTeacher(h) => teachers \subseteq teachers'
  BY DEF PutTeacher, Makes
<1>5. ReadToAppoint(h) => teachers' = teachers
  BY DEF ReadToAppoint, Reads, Fails, rows
<1>6. NameType(h) => teachers \subseteq teachers'
  BY DEF NameType, Makes, Reads, Fails, rows
<1>7. Appoint(h) => teachers \subseteq teachers'
  BY DEF Appoint, Fails, rows
<1> QED BY <1>1, <1>2, <1>3, <1>4, <1>5, <1>6, <1>7

\* Roles tell types apart but for those that share one.
LEMMA TwoShareARole ==
  \A a, b \in TypeNames : RoleOf(a) = RoleOf(b) => a = b \/ RoleOf(a) = "OTHER"
BY ScheduleAssumption DEF RoleOf, TypeNamesOfSchema

\* The type that goes takes those with it whose one role it gave.
LEMMA ClearKeeps ==
  ASSUME TypedInv, SerialInv, NEW h \in Handlers, clearDiscipline(h)
  PROVE  KeptStep
<1> SUFFICES ASSUME ~crossed', NEW t \in teachers \ teachers', NEW g \in Handlers, Working(g)
             PROVE  LeavesRightly(t, g)
  BY DEF KeptStep
<1>1. ~Fails(h)
  BY DEF Fails
<1>2. PICK q : q = req[h]
  OBVIOUS
<1>3. q.step = "clear" /\ Working(h) /\ ~crossed
  BY <1>1, <1>2 DEF clearDiscipline, Working, Quiet
<1>4. g = h /\ Single /\ q.seen = Reading(q.present.discipline)
  BY <1>2, <1>3 DEF SerialInv, Alone, Fits
<1>5. Kept(q.present) /\ q.present # NONE
  BY <1>2, <1>3, WhoIsWhere, KeptIsSome DEF TypedInv, Teaching
<1> DEFINE only == {u \in q.seen.teachers :
                      Cardinality(u.roles) = 1 /\ \A r \in u.roles : r.role = RoleOf(q.present.name)}
           gone == {s \in teachers : \E o \in only :
                      o.row.teacher = s.teacher /\ o.row.discipline = s.discipline}
<1>6. Exists(q.present.id) /\ Gone({q.present.id}, {s.id : s \in gone})
  BY <1>1, <1>2 DEF clearDiscipline
<1>7. t.id \in {s.id : s \in gone}
  BY <1>6 DEF Gone
<1>8. t \in gone
  BY <1>7 DEF TypedInv, RowsInv
<1>9. PICK o \in only : o.row.teacher = t.teacher /\ o.row.discipline = t.discipline
  BY <1>8
<1>10. PICK s \in TeachersOf(q.present.discipline) : o = [row |-> s, roles |-> RolesOf(s.id)]
  BY <1>4, <1>9 DEF Reading
<1>11. s = t /\ t.discipline = q.present.discipline
  BY <1>4, <1>9, <1>10 DEF Single, TeachersOf
<1>12. \A r \in RolesOf(t.id) : r.role = RoleOf(q.present.name)
  BY <1>9, <1>10, <1>11
<1>13. ASSUME NEW r \in roles, r.dt = t.id
       PROVE  r.type = q.present.id \/ (r.role = "OTHER" /\ RoleOf(q.present.name) = "OTHER")
  <2>1. PICK a \in types, b \in teachers :
          a.discipline = b.discipline /\ r = [dt |-> b.id, type |-> a.id, role |-> RoleOf(a.name)]
    BY DEF TypedInv, RowsInv
  <2>2. b = t
    BY <1>13, <2>1 DEF TypedInv, RowsInv
  <2>3. RoleOf(a.name) = RoleOf(q.present.name)
    BY <1>12, <1>13, <2>1 DEF RolesOf
  <2>5. q.present \in types
    BY <1>5, <1>6 DEF Exists, Kept
  <2>4. a.name \in TypeNames /\ q.present.name \in TypeNames
    BY <2>5 DEF TypedInv, RowsInv, TypeRow
  <2>6. a.name = q.present.name \/ RoleOf(a.name) = "OTHER"
    BY <2>3, <2>4, TwoShareARole
  <2>7. CASE a.name = q.present.name
    <3>1. a = q.present
      BY <1>4, <1>11, <2>1, <2>2, <2>5, <2>7 DEF Single
    <3> QED BY <2>1, <3>1
  <2> QED BY <2>1, <2>3, <2>6, <2>7
<1> QED BY <1>2, <1>4, <1>5, <1>13 DEF LeavesRightly, LeftFor

LEMMA RemoveKeeps ==
  ASSUME TypedInv, SerialInv, NEW h \in Handlers, removeTeacher(h)
  PROVE  KeptStep
<1> SUFFICES ASSUME ~crossed', NEW t \in teachers \ teachers', NEW g \in Handlers, Working(g)
             PROVE  LeavesRightly(t, g)
  BY DEF KeptStep
<1>1. ~Fails(h)
  BY DEF Fails
<1>2. PICK q : q = req[h]
  OBVIOUS
<1>3. q.step = "remove" /\ q.removing # << >> /\ Working(h) /\ ~crossed /\ Gone({}, {Head(q.removing)})
  BY <1>1, <1>2 DEF removeTeacher, Working, Quiet
<1>4. g = h
  BY <1>3 DEF SerialInv, Alone
<1>5. /\ q.removing \in Seq(Nat)
      /\ \A i \in DOMAIN q.removing, o \in roles : o.dt = q.removing[i] => o.type = TypeOfGone(q)
  BY <1>2, <1>3 DEF SerialInv, Fits
<1>6. t.id = q.removing[1] /\ 1 \in DOMAIN q.removing
  <2>1. t.id = Head(q.removing)
    BY <1>3 DEF Gone
  <2> QED BY <1>3, <1>5, <2>1
<1>7. \A r \in roles : r.dt = t.id => r.type = TypeOfGone(q)
  BY <1>5, <1>6
<1>8. CASE q.kind = "delete"
  <2>1. Leaving(q)
    BY <1>2, <1>3, <1>8, WhoIsWhere DEF TypedInv, Teaching
  <2>2. q.present # NONE
    BY <2>1, KeptIsSome DEF TypedInv, Leaving
  <2> QED BY <1>2, <1>4, <1>7, <1>8, <2>2 DEF LeavesRightly, LeftFor, TypeOfGone
<1>9. CASE q.kind # "delete"
  BY <1>2, <1>4, <1>7, <1>9 DEF LeavesRightly, TypeOfGone
<1> QED BY <1>8, <1>9

LEMMA StepKeepsTeachers == ASSUME TypedInv, SerialInv, [Next]_vars PROVE KeptStep
<1>1. teachers \subseteq teachers' => KeptStep
  BY DEF KeptStep
<1>2. CASE Stop \/ UNCHANGED vars
  BY <1>1, <1>2 DEF Stop, rows, vars
<1>3. ASSUME NEW h \in Handlers, Step(h) PROVE KeptStep
  <2>1. CASE clearDiscipline(h) \/ removeTeacher(h)
    BY <2>1, ClearKeeps, RemoveKeeps
  <2>2. CASE \E t \in teachers : deleteById(h, t)
    <3>1. ~crossed' => \A g \in Handlers : ~Working(g)
      BY <2>2 DEF deleteById, Begins
    <3> QED BY <3>1 DEF KeptStep
  <2>3. CASE \/ \E id \in EventIds, body \in CreateBodies : createGroupEvent(h, id, body)
             \/ \E id \in DOMAIN events : deleteEvent(h, id)
             \/ \E id \in DOMAIN events, body \in UpdateBodies : updateEvent(h, id, body)
             \/ \E moment \in Moments : WriteEvent(h, moment)
             \/ CountEvents(h) \/ ReadToClear(h)
    BY <1>1, <2>3, EventsKeepTeachers
  <2>4. CASE \/ FindType(h) \/ MakeType(h) \/ Removed(h) \/ FindTeacher(h) \/ JoinTeacher(h) \/ GiveRole(h)
             \/ attachLesson(h) \/ updateDiscipline(h) \/ ReplaceLesson(h)
             \/ FindTarget(h) \/ ReadToDelete(h) \/ DeleteType(h)
    BY <1>1, <2>4, TypesKeepTeachers
  <2>5. CASE \/ \E teacher \in Teachers, discipline \in Disciplines, names \in Staff :
                  create(h, teacher, discipline, names) \/ updateByTeacherAndDiscipline(h, teacher, discipline, names)
             \/ \E t \in teachers, names \in Staff : updateById(h, t, names)
             \/ PutTeacher(h) \/ ReadToAppoint(h) \/ NameType(h) \/ Appoint(h)
    BY <1>1, <2>5, HandsKeepTeachers
  <2> QED BY <1>3, <2>1, <2>2, <2>3, <2>4, <2>5 DEF Step
<1> QED BY <1>2, <1>3 DEF Next

\* While requests do not cross, who leaves a discipline at the request of an event had
\* nothing there but roles of the type the event loses (or OTHER, when that type gives it
\* and another does too), or, when the event names its teachers anew, of the type it keeps:
\* the list of those to be removed is made before the first of them goes, and what was read
\* still holds (ScheduleService.ts:405-411, 588-629, 650-651).
THEOREM TeachersStay == ASSUME StartsSingle PROVE Spec => TeachersKept
<1>1. Init => TypedInv /\ SerialInv
  BY InitTyped, InitSerial, StartsSingle
<1>2. TypedInv /\ SerialInv /\ [Next]_vars =>
        [~crossed' =>
          \A t \in teachers \ teachers', h \in Handlers : Working(h) =>
            \A r \in roles : r.dt = t.id =>
              LeftFor(r, req[h].present) \/ r.type = req[h].type]_vars
  BY StepKeepsTeachers DEF KeptStep, LeavesRightly
<1> QED BY <1>1, <1>2, InvariantKept, PTL DEF Spec, TeachersKept

-----------------------------------------------------------------------------
(* Weeks *)

LEMMA WeekRoundedUp ==
  ASSUME NEW n \in Int
  PROVE  /\ Ceil(n, WEEK) \in Int
         /\ n <= Ceil(n, WEEK) * WEEK /\ Ceil(n, WEEK) * WEEK < n + WEEK
  BY DEF Ceil, WEEK, DAY

LEMMA WeekIs ==
  ASSUME NEW n \in Int, NEW w \in Int, (w - 1) * WEEK < n, n <= w * WEEK
  PROVE  Ceil(n, WEEK) = w
  BY DEF Ceil, WEEK, DAY

LEMMA SemesterDatesAreNumbers == semester.startDate \in Nat /\ semester.endDate \in Nat
  BY SemesterIsOne, SemesterDatesAssumption

\* The semester begins on a Monday.
FromMonday == semester.startDate % WEEK = 0

LEMMA WeeksAreNumbers ==
  ASSUME NEW e, EventRow(e)
  PROVE  /\ e.start \in Int /\ e.end \in Int /\ e.period \in Periods
         /\ StartWeek(e) \in Int /\ EndWeek(e) \in Int
         /\ e.start - semester.startDate <= StartWeek(e) * WEEK
         /\ (StartWeek(e) - 1) * WEEK < e.start - semester.startDate
         /\ e.end - semester.startDate <= EndWeek(e) * WEEK
         /\ (EndWeek(e) - 1) * WEEK < e.end - semester.startDate
<1>1. e.start \in Int /\ e.end \in Int /\ e.period \in Periods
  BY DEF EventRow
<1>2. PICK a \in Int : a = e.start - semester.startDate
  BY <1>1, SemesterDatesAreNumbers
<1>3. PICK b \in Int : b = e.end - semester.startDate
  BY <1>1, SemesterDatesAreNumbers
<1>4. StartWeek(e) = Ceil(a, WEEK) /\ EndWeek(e) = Ceil(b, WEEK)
  BY <1>2, <1>3 DEF StartWeek, EndWeek
<1>5. /\ Ceil(a, WEEK) \in Int /\ a <= Ceil(a, WEEK) * WEEK /\ Ceil(a, WEEK) * WEEK < a + WEEK
      /\ Ceil(b, WEEK) \in Int /\ b <= Ceil(b, WEEK) * WEEK /\ Ceil(b, WEEK) * WEEK < b + WEEK
  BY WeekRoundedUp
<1> QED BY <1>1, <1>2, <1>3, <1>4, <1>5 DEF WEEK, DAY

\* A regular lesson that does not start at midnight takes place in whole weeks.
LEMMA WholeWeeks ==
  ASSUME FromMonday, NEW e, EventRow(e), Regular(e), e.start % DAY # 0
  PROVE  \E k \in Nat, length \in 1..2 :
           e.end = e.start + k * WEEK + length /\ EndWeek(e) = StartWeek(e) + k
<1>1. /\ e.start \in Int /\ e.end \in Int /\ StartWeek(e) \in Int
      /\ e.start - semester.startDate <= StartWeek(e) * WEEK
      /\ (StartWeek(e) - 1) * WEEK < e.start - semester.startDate
  BY WeeksAreNumbers
<1>2. /\ e.start <= e.end /\ (e.start \div DAY) % 7 = (e.end \div DAY) % 7
      /\ e.start % DAY < e.end % DAY
  BY <1>1 DEF Regular, getCurrentDay, DAY
<1> DEFINE weeks == ((e.end \div DAY) \div 7) - ((e.start \div DAY) \div 7)
           hours == (e.end % DAY) - (e.start % DAY)
<1>a. weeks \in Int /\ hours \in 1..2
  BY <1>1, <1>2 DEF DAY
<1>b. e.end = e.start + weeks * 21 + hours
  BY <1>1, <1>2 DEF DAY
<1>c. weeks >= 0
  BY <1>1, <1>2, <1>a, <1>b
<1>3. PICK k \in Nat, length \in 1..2 : e.end = e.start + k * 21 + length
  BY ONLY <1>a, <1>b, <1>c
<1>4. PICK b \in Int : b = e.end - semester.startDate
  BY <1>1, SemesterDatesAreNumbers
<1>5. PICK w \in Int : w = StartWeek(e) + k
  BY <1>1
<1>6. (w - 1) * WEEK < b /\ b <= w * WEEK
  BY <1>1, <1>2, <1>3, <1>4, <1>5, SemesterDatesAreNumbers DEF FromMonday, WEEK, DAY
<1>7. EndWeek(e) = w
  BY <1>4, <1>6, WeekIs DEF EndWeek
<1> QED BY <1>3, <1>5, <1>7 DEF WEEK, DAY

LEMMA InfosSuffice ==
  ASSUME FromMonday, NEW e, EventRow(e), Regular(e), e.start % DAY # 0, e.period # "NO_PERIOD",
         NEW w \in Int, InWeek(e, w)
  PROVE  eventInfoIndex(e, w) \in 0..getEndIndex(e.start, e.end, e.period)
<1>1. e.start \in Int /\ e.end \in Int /\ StartWeek(e) \in Int /\ e.period \in Periods
  BY WeeksAreNumbers
<1>2. PICK k \in Nat, length \in 1..2 :
        e.end = e.start + k * WEEK + length /\ EndWeek(e) = StartWeek(e) + k
  BY WholeWeeks
<1>3. PICK i \in Int : i = w - StartWeek(e)
  BY <1>1
<1>4. 0 <= i /\ i <= k
  BY <1>1, <1>2, <1>3 DEF InWeek
<1>5. PICK n \in Int : n = k * 21 + length
  OBVIOUS
<1>6. e.end - e.start = n
  BY <1>1, <1>2, <1>5 DEF WEEK, DAY
<1>7. CASE e.period = "EVERY_FORTNIGHT"
  <2>1. eventInfoIndex(e, w) = i \div 2 /\ getEndIndex(e.start, e.end, e.period) = Ceil(n, 42) - 1
    BY <1>3, <1>6, <1>7 DEF eventInfoIndex, getEndIndex, Divider, FORTNITE, WEEK, DAY
  <2>2. Ceil(n, 42) = (k \div 2) + 1
    BY <1>5 DEF Ceil
  <2>3. i \div 2 \in 0..(k \div 2)
    BY <1>4
  <2> QED BY <2>1, <2>2, <2>3
<1>8. CASE e.period = "EVERY_WEEK"
  <2>1. eventInfoIndex(e, w) = i \div 1 /\ getEndIndex(e.start, e.end, e.period) = Ceil(n, 21) - 1
    BY <1>3, <1>6, <1>8 DEF eventInfoIndex, getEndIndex, Divider, WEEK, DAY
  <2>2. Ceil(n, 21) = k + 1
    BY <1>5 DEF Ceil
  <2> QED BY <1>4, <2>1, <2>2
<1> QED BY <1>1, <1>7, <1>8 DEF Periods

\* The dates of a week are those of the semester's, whenever they are asked for.
LEMMA DatesOfWeek ==
  ASSUME FromMonday, NEW now \in Nat, now % WEEK # 0, getCurrentSemester(now) = semester, NEW w \in Int
  PROVE  /\ StartOfWeek(now, w) = semester.startDate + (w - 1) * WEEK
         /\ EndOfWeek(now, w) = semester.startDate + w * WEEK
<1>1. PICK first \in Nat : first = semester.startDate /\ first % WEEK = 0
  BY SemesterDatesAreNumbers DEF FromMonday
<1>2. PICK q \in Int : q = now \div WEEK
  BY DEF WEEK, DAY
<1>3. PICK f \in Int : f = first \div WEEK
  BY DEF WEEK, DAY
<1>4. first = f * WEEK /\ q * WEEK < now /\ now < (q + 1) * WEEK
  BY <1>1, <1>2, <1>3 DEF WEEK, DAY
<1>5. PICK n \in Int : n = now - first
  BY <1>1
<1>6. PICK c \in Int : c = q - f + 1
  OBVIOUS
<1>7. (c - 1) * WEEK < n /\ n <= c * WEEK
  BY <1>4, <1>5, <1>6 DEF WEEK, DAY
<1>8. getCurrentWeek(now) = c
  BY <1>1, <1>5, <1>7, WeekIs DEF getCurrentWeek
<1> QED BY <1>1, <1>2, <1>4, <1>6, <1>8 DEF StartOfWeek, EndOfWeek, startOfWeek, WEEK, DAY

LEMMA SameIndex ==
  ASSUME NEW e, EventRow(e), NEW w \in Int, InWeek(e, w)
  PROVE  getIndexOfLesson(e, w, semester.startDate + w * WEEK) = eventInfoIndex(e, w)
<1>1. /\ e.start \in Int /\ StartWeek(e) \in Int
      /\ e.start - semester.startDate <= StartWeek(e) * WEEK
      /\ (StartWeek(e) - 1) * WEEK < e.start - semester.startDate
  BY WeeksAreNumbers
<1>2. PICK i \in Int : i = w - StartWeek(e)
  BY <1>1
<1>3. PICK left \in Int : left = semester.startDate + w * WEEK - e.start
  BY <1>1, SemesterDatesAreNumbers DEF WEEK, DAY
<1>4. i * 21 <= left /\ left < (i + 1) * 21
  BY <1>1, <1>2, <1>3, SemesterDatesAreNumbers DEF WEEK, DAY
<1>5. left \div WEEK = i
  BY <1>4 DEF WEEK, DAY
<1>6. getIndexOfLesson(e, w, semester.startDate + w * WEEK) =
        IF e.period = "EVERY_FORTNIGHT" THEN Ceil(i, 2) ELSE i
  <2>1. PICK until \in Int : until = semester.startDate + w * WEEK
    BY SemesterDatesAreNumbers DEF WEEK, DAY
  <2>2. until - e.start = left
    BY <1>1, <1>3, <2>1, SemesterDatesAreNumbers DEF WEEK, DAY
  <2>3. getIndexOfLesson(e, w, until) = IF e.period = "EVERY_FORTNIGHT" THEN Ceil(i, 2) ELSE i
    BY <1>5, <2>2 DEF getIndexOfLesson
  <2> QED BY <2>1, <2>3
<1>7. eventInfoIndex(e, w) = i \div (IF e.period = "EVERY_FORTNIGHT" THEN 2 ELSE 1)
  BY ONLY <1>2 DEF eventInfoIndex
<1>8. CASE e.period = "EVERY_FORTNIGHT"
  <2>1. i % 2 = 0
    BY <1>1, <1>2, <1>8 DEF InWeek
  <2>2. Ceil(i, 2) = i \div 2
    BY <2>1 DEF Ceil
  <2> QED BY <1>6, <1>7, <1>8, <2>2
<1>9. CASE e.period # "EVERY_FORTNIGHT"
  <2>1. i \div 1 = i
    OBVIOUS
  <2> QED BY <1>6, <1>7, <1>9, <2>1
<1> QED BY <1>8, <1>9

LEMMA OneDay ==
  ASSUME FromMonday, NEW start \in Int, NEW w \in Int
  PROVE  \E d \in 1..7 : \A day \in 1..7, date \in Int :
           date = semester.startDate + (w - 1) * WEEK + (day - 1) * DAY
             => ((date - (start \div DAY) * DAY) % WEEK = 0 <=> day = d)
<1>1. PICK first \in Nat : first = semester.startDate /\ first % WEEK = 0
  BY SemesterDatesAreNumbers DEF FromMonday
<1>2. PICK f \in Int : first = f * 21
  BY <1>1 DEF WEEK, DAY
<1>3. PICK n \in Int : n = start \div DAY
  BY DEF DAY
<1>4. PICK m \in Int, d \in 1..7 : n = 7 * m + d - 1
  <2>1. n = 7 * (n \div 7) + ((n % 7) + 1) - 1 /\ n \div 7 \in Int /\ (n % 7) + 1 \in 1..7
    OBVIOUS
  <2> QED BY <2>1
<1>5. ASSUME NEW day \in 1..7, NEW date \in Int, date = first + (w - 1) * WEEK + (day - 1) * DAY
      PROVE  (date - n * DAY) % WEEK = 0 <=> day = d
  <2>1. date - n * DAY = 21 * (f + w - 1 - m) + 3 * (day - d)
    BY <1>5, <1>2, <1>4 DEF WEEK, DAY
  <2>2. PICK x \in Int : x = f + w - 1 - m
    OBVIOUS
  <2>3. (21 * x + 3 * (day - d)) % 21 = 0 <=> day = d
    OBVIOUS
  <2> QED BY <2>1, <2>2, <2>3 DEF WEEK, DAY
<1> QED BY <1>1, <1>3, <1>5

-----------------------------------------------------------------------------
(* The dates of events *)

\* In a week of the semester, at no midnight.
Placed(e) == e.start % DAY # 0 /\ StartWeek(e) \in Weeks
\* The infos are numbered from 0, up to the last occurrence at least.
Counted(e) ==
  \E n \in Nat \cup {-1} :
    e.infos = 0..n /\ (e.period # "NO_PERIOD" => getEndIndex(e.start, e.end, e.period) <= n)

\* No lesson starts at midnight, and an update gives none a day outside of the semester.
Timely ==
  /\ FromMonday
  /\ \A b \in CreateBodies : b.start % DAY # 0
  /\ \A b \in UpdateBodies : b.start # NONE =>
       b.start % DAY # 0 /\ semester.startDate <= b.start /\ b.start <= semester.endDate
  /\ \A e \in DOMAIN FirstEvents : Placed(FirstEvents[e]) /\ Counted(FirstEvents[e])

\* What an update read before its await is in the semester, too.
OccurInv ==
  /\ \A id \in DOMAIN events : Placed(events[id]) /\ (id \notin lacking => Counted(events[id]))
  /\ \A h \in Handlers : req[h].step = "update" => Placed(req[h].old)

LEMMA StartsInSemester ==
  ASSUME FromMonday, NEW e, e.start \in Int, e.start % DAY # 0,
         semester.startDate <= e.start, e.start <= semester.endDate
  PROVE  Placed(e)
<1>1. PICK first, last \in Nat : first = semester.startDate /\ last = semester.endDate
  BY SemesterDatesAreNumbers
<1>2. PICK a \in Int : a = e.start - first
  BY <1>1
<1>3. PICK all \in Int : all = last - first
  BY <1>1
<1>4. 0 < a /\ a <= all
  <2>1. PICK start \in Int : start = e.start
    OBVIOUS
  <2>2. first % 21 = 0 /\ start % 3 # 0
    BY <1>1, <2>1 DEF FromMonday, WEEK, DAY
  <2>3. first # start
    BY ONLY <2>2, first \in Nat, start \in Int
  <2> QED BY <1>1, <1>2, <1>3, <2>1, <2>3
<1>5. /\ Ceil(a, WEEK) \in Int /\ a <= Ceil(a, WEEK) * WEEK /\ Ceil(a, WEEK) * WEEK < a + WEEK
      /\ Ceil(all, WEEK) \in Int /\ all <= Ceil(all, WEEK) * WEEK
  BY WeekRoundedUp
<1>6. Ceil(a, WEEK) \in 1..Ceil(all, WEEK)
  BY <1>4, <1>5 DEF WEEK, DAY
<1> QED BY <1>1, <1>2, <1>3, <1>6 DEF Placed, StartWeek, Weeks

\* Another hour of a day is in the same week.
LEMMA HourInSemester ==
  ASSUME FromMonday, NEW old, old.start \in Int, Placed(old), NEW hour \in Int, hour % DAY # 0,
         NEW e, e.start = AtHour(old.start, hour)
  PROVE  Placed(e)
<1>1. PICK first \in Nat : first = semester.startDate
  BY SemesterDatesAreNumbers
<1>2. PICK a \in Int : a = old.start - first
  BY <1>1
<1>3. PICK b \in Int : b = e.start - first
  BY <1>1 DEF AtHour, DAY
<1>4. PICK w \in Int : w = Ceil(a, WEEK) /\ a <= w * WEEK /\ (w - 1) * WEEK < a
  BY <1>2, WeekRoundedUp DEF WEEK, DAY
<1>5. e.start % DAY # 0 /\ b \div DAY = a \div DAY /\ b % DAY # 0 /\ a % DAY # 0
  BY <1>1, <1>2, <1>3 DEF AtHour, FromMonday, Placed, WEEK, DAY
<1>6. (w - 1) * WEEK < b /\ b <= w * WEEK
  BY <1>4, <1>5 DEF WEEK, DAY
<1>7. Ceil(b, WEEK) = w
  BY <1>6, WeekIs
<1> QED BY <1>1, <1>2, <1>3, <1>4, <1>5, <1>7 DEF Placed, StartWeek

LEMMA UpdateInSemester ==
  ASSUME Timely, NEW body \in UpdateBodies, NEW old, EventRow(old), Placed(old),
         NEW e, e.start = NewStart(old, body)
  PROVE  Placed(e)
<1>1. old.start \in Int /\ (body.start # NONE => body.start \in Int)
  BY ScheduleAssumption DEF EventRow
<1>2. CASE body.start = NONE
  BY <1>2 DEF NewStart, Placed, StartWeek
<1>3. CASE body.start # NONE /\ (body.change \/ NewPeriod(old, body) = "NO_PERIOD")
  <2>1. e.start = body.start
    BY <1>3 DEF NewStart
  <2> QED BY <1>1, <1>3, <2>1, StartsInSemester DEF Timely
<1>4. CASE body.start # NONE /\ ~(body.change \/ NewPeriod(old, body) = "NO_PERIOD")
  <2>1. e.start = AtHour(old.start, body.start)
    BY <1>4 DEF NewStart
  <2> QED BY <1>1, <1>4, <2>1, HourInSemester DEF Timely
<1> QED BY <1>2, <1>3, <1>4

\* An update of a counted event that finds as many infos as there are occurrences, or more.
LEMMA UpdateCounts ==
  ASSUME NEW body \in UpdateBodies, NEW old, EventRow(old), NEW kept, NEW n \in Nat \cup {-1}, old.infos = 0..n,
         NewPeriod(old, body) # "NO_PERIOD" => LastIndex(old, body) < Cardinality(old.infos),
         NEW e, e.period = NewPeriod(old, body), e.start = NewStart(old, body),
         e.end = NewEnd(old, body, kept),
         e.infos = {i \in old.infos : KeepsInfo(i, old, body)} \cup AddedInfos(old, body)
  PROVE  Counted(e)
<1>1. Cardinality(old.infos) = n + 1
  <2>1. \A m \in Nat \cup {-1} : Cardinality(0..m) = m + 1
    BY FS_Interval
  <2> QED BY <2>1
<1>2. CASE e.period = "NO_PERIOD"
  <2>1. e.infos = {i \in 0..n : i = 0}
    BY <1>2 DEF KeepsInfo, AddedInfos
  <2>2. CASE n = -1
    <3>1. e.infos = 0..(-1)
      BY <2>1, <2>2
    <3> QED BY <1>2, <3>1 DEF Counted
  <2>3. CASE n # -1
    <3>1. e.infos = 0..0
      BY <2>1, <2>3
    <3> QED BY <1>2, <3>1 DEF Counted
  <2> QED BY <2>2, <2>3
<1>3. CASE e.period # "NO_PERIOD"
  <2>0. e.end = NewEnd(old, body, old.end) /\ old.end \in Int
    BY <1>3 DEF NewEnd, EventRow
  <2>1. PICK last \in Int : last = LastIndex(old, body) /\ last = getEndIndex(e.start, e.end, e.period)
    BY <2>0, NewTimes, LastIsWhole DEF LastIndex
  <2>2. last <= n
    BY <1>1, <1>3, <2>1
  <2>3. AddedInfos(old, body) = {}
    BY <1>1, <1>3, <2>1, <2>2 DEF AddedInfos
  <2>4. e.infos = {i \in 0..n : i <= last}
    BY <1>1, <1>3, <2>1, <2>2, <2>3 DEF KeepsInfo
  <2>5. CASE last < 0
    <3>1. e.infos = 0..(-1)
      BY <2>4, <2>5
    <3> QED BY <2>1, <2>5, <3>1 DEF Counted
  <2>6. CASE last >= 0
    <3>1. e.infos = 0..last
      BY <2>2, <2>4, <2>6
    <3> QED BY <2>1, <2>6, <3>1 DEF Counted
  <2> QED BY <2>5, <2>6
<1> QED BY <1>2, <1>3

\* What a step keeps that gives no event other dates and begins no update.
SameDates ==
  /\ lacking' = lacking
  /\ \A id \in DOMAIN events' :
       /\ id \in DOMAIN events
       /\ events'[id].period = events[id].period /\ events'[id].start = events[id].start
       /\ events'[id].end = events[id].end /\ events'[id].infos = events[id].infos
NoUpdate ==
  \A h \in Handlers : req'[h].step = "update" => req'[h] = req[h]

LEMMA PlacedAgain ==
  ASSUME NEW e, NEW f, f.start = e.start, Placed(e)
  PROVE  Placed(f)
  BY DEF Placed, StartWeek

LEMMA CountedAgain ==
  ASSUME NEW e, NEW f, f.start = e.start, f.end = e.end, f.period = e.period, f.infos = e.infos, Counted(e)
  PROVE  Counted(f)
  BY DEF Counted

LEMMA SameDatesKeep == ASSUME OccurInv, SameDates, NoUpdate PROVE OccurInv'
<1>1. ASSUME NEW id \in DOMAIN events'
      PROVE  Placed(events'[id]) /\ (id \notin lacking' => Counted(events'[id]))
  <2>1. /\ id \in DOMAIN events /\ lacking' = lacking
        /\ events'[id].period = events[id].period /\ events'[id].start = events[id].start
        /\ events'[id].end = events[id].end /\ events'[id].infos = events[id].infos
    BY DEF SameDates
  <2>2. Placed(events[id]) /\ (id \notin lacking => Counted(events[id]))
    BY <2>1 DEF OccurInv
  <2> QED BY <2>1, <2>2, PlacedAgain, CountedAgain
<1>2. ASSUME NEW h \in Handlers, req'[h].step = "update" PROVE Placed(req'[h].old)
  BY <1>2 DEF NoUpdate, OccurInv
<1> QED BY <1>1, <1>2 DEF OccurInv, Placed, Counted

LEMMA EventsSame == ASSUME UNCHANGED events, UNCHANGED lacking PROVE SameDates
  BY DEF SameDates

LEMMA GoneDates == ASSUME EventsInv, NEW A, NEW B, Gone(A, B), UNCHANGED lacking PROVE SameDates
<1> SUFFICES ASSUME NEW id \in DOMAIN events'
             PROVE  /\ id \in DOMAIN events
                    /\ events'[id].period = events[id].period /\ events'[id].start = events[id].start
                    /\ events'[id].end = events[id].end /\ events'[id].infos = events[id].infos
  BY DEF SameDates
<1>1. id \in DOMAIN events /\ events'[id] = [events[id] EXCEPT !.lessons = @ \ A]
  BY DEF Gone
<1>2. EventRow(events[id])
  BY <1>1 DEF EventsInv
<1> QED BY <1>1, <1>2 DEF EventRow

LEMMA GoesNoUpdate ==
  ASSUME ReqInv, NEW h \in Handlers, NEW r, Goes(h, r), r.step # "update"
  PROVE  NoUpdate
<1>1. req'[h] = r /\ \A g \in Handlers : g # h => req'[g] = req[g]
  BY DEF Goes, ReqInv
<1> QED BY <1>1 DEF NoUpdate

LEMMA IdleIsNoUpdate == Idle.step # "update"
  BY DEF Idle

LEMMA ReadsKeep ==
  ASSUME TypedInv, OccurInv, NEW h \in Handlers, NEW r, Reads(h, r), r.step # "update"
  PROVE  OccurInv'
<1>1. Goes(h, r) /\ UNCHANGED <<events, lacking>>
  BY DEF Reads, Quiet
<1> QED BY <1>1, EventsSame, GoesNoUpdate, SameDatesKeep DEF TypedInv

LEMMA FailsKeep == ASSUME TypedInv, OccurInv, NEW h \in Handlers, Fails(h) PROVE OccurInv'
  BY EventsSame, GoesNoUpdate, IdleIsNoUpdate, SameDatesKeep DEF TypedInv, Fails

\* The request that serves a discipline's rows.
LEMMA ServesKeep ==
  ASSUME TypedInv, OccurInv, NEW h \in Handlers, NEW r, Goes(h, r), r.step # "update",
         UNCHANGED <<events, lacking>> \/ (UNCHANGED lacking /\ \E A, B : Gone(A, B))
  PROVE  OccurInv'
  BY EventsSame, GoneDates, GoesNoUpdate, SameDatesKeep DEF TypedInv

LEMMA CountKeeps ==
  ASSUME TypedInv, OccurInv, NEW h \in Handlers, CountEvents(h) \/ ReadToClear(h)
  PROVE  OccurInv'
<1>1. DOMAIN req[h] = Fields
  BY WhoIsWhere DEF TypedInv
<1>2. PICK r : /\ Reads(h, r)
               /\ \/ \E step \in {"ready", "find"} : r = [req[h] EXCEPT !.step = step]
                  \/ r = [req[h] EXCEPT !.step = "clear", !.seen = Reading(req[h].present.discipline)]
  BY DEF CountEvents, ReadToClear
<1>3. r.step \in {"ready", "find", "clear"}
  BY <1>1, <1>2 DEF Fields
<1> QED BY <1>2, <1>3, ReadsKeep

LEMMA ClearKeepsDates ==
  ASSUME TypedInv, OccurInv, NEW h \in Handlers, clearDiscipline(h)
  PROVE  OccurInv'
<1>1. DOMAIN req[h] = Fields
  BY WhoIsWhere DEF TypedInv
<1>2. CASE Fails(h)
  BY <1>2, FailsKeep
<1>3. CASE ~Fails(h)
  <2>1. (\E A, B : Gone(A, B)) /\ Quiet
    BY <1>3 DEF clearDiscipline
  <2>2. PICK r : Goes(h, r) /\ r = [req[h] EXCEPT !.step = "find"]
    BY <1>3 DEF clearDiscipline
  <2>3. r.step = "find"
    BY <1>1, <2>2 DEF Fields
  <2> QED BY <2>1, <2>2, <2>3, ServesKeep DEF Quiet
<1> QED BY <1>2, <1>3

LEMMA TypesKeepDates ==
  ASSUME TypedInv, OccurInv, NEW h \in Handlers, FindType(h) \/ MakeType(h)
  PROVE  OccurInv'
<1>1. DOMAIN req[h] = Fields
  BY WhoIsWhere DEF TypedInv
<1>2. ASSUME NEW reading, NEW id, NEW r, r = WithType(req[h], reading, id) PROVE r.step = "remove"
  BY <1>1, <1>2 DEF WithType, Fields
<1>3. CASE FindType(h)
  <2>1. PICK r : Reads(h, r) /\ (r = [req[h] EXCEPT !.step = "type"] \/
                   \E reading, id : r = WithType(req[h], reading, id))
    BY <1>3 DEF FindType
  <2>2. r.step \in {"type", "remove"}
    BY <1>1, <1>2, <2>1 DEF Fields
  <2> QED BY <2>1, <2>2, ReadsKeep
<1>4. CASE MakeType(h)
  <2>1. UNCHANGED <<events, lacking>>
    BY <1>4 DEF MakeType, Makes, Quiet
  <2>2. PICK r : Goes(h, r) /\ \E reading, id : r = WithType(req[h], reading, id)
    BY <1>4 DEF MakeType
  <2> QED BY <1>2, <2>1, <2>2, ServesKeep
<1> QED BY <1>3, <1>4

LEMMA RemovesKeepDates ==
  ASSUME TypedInv, OccurInv, NEW h \in Handlers, removeTeacher(h) \/ Removed(h)
  PROVE  OccurInv'
<1>1. DOMAIN req[h] = Fields
  BY WhoIsWhere DEF TypedInv
<1>2. CASE removeTeacher(h) /\ ~Fails(h)
  <2>1. (\E A, B : Gone(A, B)) /\ Quiet /\ req[h].step = "remove"
    BY <1>2 DEF removeTeacher
  <2>2. PICK r : Goes(h, r) /\ r = [req[h] EXCEPT !.removing = Tail(@)]
    BY <1>2 DEF removeTeacher
  <2>3. r.step = "remove"
    BY <1>1, <2>1, <2>2 DEF Fields
  <2> QED BY <2>1, <2>2, <2>3, ServesKeep DEF Quiet
<1>3. CASE Removed(h)
  <2>1. PICK r : Reads(h, r) /\ \E step \in {"untype", "teachers"} : r = [req[h] EXCEPT !.step = step]
    BY <1>3 DEF Removed
  <2>2. r.step \in {"untype", "teachers"}
    BY <1>1, <2>1 DEF Fields
  <2> QED BY <2>1, <2>2, ReadsKeep
<1> QED BY <1>2, <1>3, FailsKeep

LEMMA TeachersKeepDates ==
  ASSUME TypedInv, OccurInv, NEW h \in Handlers, FindTeacher(h) \/ JoinTeacher(h) \/ GiveRole(h)
  PROVE  OccurInv'
<1>1. DOMAIN req[h] = Fields
  BY WhoIsWhere DEF TypedInv
<1>2. Proceed(req[h]).step = "teachers"
  BY <1>1 DEF Proceed, Fields
<1>3. CASE FindTeacher(h)
  <2>1. PICK r : Reads(h, r) /\ (r = [req[h] EXCEPT !.step = "join"] \/ r = Proceed(req[h]) \/
                   \E id : r = [req[h] EXCEPT !.step = "role", !.dt = id])
    BY <1>3 DEF FindTeacher
  <2>2. r.step \in {"join", "teachers", "role"}
    BY <1>1, <1>2, <2>1 DEF Fields
  <2> QED BY <2>1, <2>2, ReadsKeep
<1>4. CASE JoinTeacher(h)
  <2>1. UNCHANGED <<events, lacking>>
    BY <1>4 DEF JoinTeacher, Makes, Quiet
  <2>2. PICK r : Goes(h, r) /\ r = [req[h] EXCEPT !.step = "role", !.dt = made + 1]
    BY <1>4 DEF JoinTeacher
  <2>3. r.step = "role"
    BY <1>1, <2>2 DEF Fields
  <2> QED BY <2>1, <2>2, <2>3, ServesKeep
<1>5. CASE GiveRole(h) /\ ~Fails(h)
  <2>1. UNCHANGED <<events, lacking>> /\ Goes(h, Proceed(req[h]))
    BY <1>5 DEF GiveRole, Makes, Quiet
  <2> QED BY <1>2, <2>1, ServesKeep
<1> QED BY <1>3, <1>4, <1>5, FailsKeep

LEMMA SetLessonsKeep ==
  ASSUME TypedInv, OccurInv, NEW h \in Handlers, NEW id, NEW others, SetLessons(h, id, others)
  PROVE  OccurInv'
<1>1. CASE Fails(h)
  BY <1>1, FailsKeep
<1>2. CASE ~Fails(h)
  <2>1. PICK x : x = req[h].event
    OBVIOUS
  <2>2. /\ x \in DOMAIN events /\ events' = [events EXCEPT ![x].lessons = {id} \cup others]
        /\ Goes(h, Idle) /\ UNCHANGED lacking
    BY <1>2, <2>1 DEF SetLessons, Quiet
  <2>3. ASSUME NEW e \in DOMAIN events'
        PROVE  /\ e \in DOMAIN events
               /\ events'[e].period = events[e].period /\ events'[e].start = events[e].start
               /\ events'[e].end = events[e].end /\ events'[e].infos = events[e].infos
    <3>1. e \in DOMAIN events /\ EventRow(events[e])
      BY <2>2 DEF TypedInv, EventsInv
    <3>2. events'[e] = events[e] \/ events'[e] = [events[e] EXCEPT !.lessons = {id} \cup others]
      BY <2>2, <3>1
    <3> QED BY <3>1, <3>2 DEF EventRow
  <2>4. SameDates
    BY <2>2, <2>3 DEF SameDates
  <2> QED BY <2>2, <2>4, GoesNoUpdate, IdleIsNoUpdate, SameDatesKeep DEF TypedInv
<1> QED BY <1>1, <1>2

LEMMA LessonsKeepDates ==
  ASSUME TypedInv, OccurInv, NEW h \in Handlers,
         attachLesson(h) \/ updateDiscipline(h) \/ ReplaceLesson(h)
  PROVE  OccurInv'
<1>1. DOMAIN req[h] = Fields
  BY WhoIsWhere DEF TypedInv
<1>2. CASE attachLesson(h)
  BY <1>2, SetLessonsKeep DEF attachLesson
<1>3. CASE updateDiscipline(h)
  <2>1. PICK r : Reads(h, r) /\ r = [req[h] EXCEPT !.step = "lesson", !.seen = Reading(req[h].discipline)]
    BY <1>3 DEF updateDiscipline
  <2>2. r.step = "lesson"
    BY <1>1, <2>1 DEF Fields
  <2> QED BY <2>1, <2>2, ReadsKeep
<1>4. CASE ReplaceLesson(h)
  BY <1>4, SetLessonsKeep, FailsKeep DEF ReplaceLesson
<1> QED BY <1>2, <1>3, <1>4

LEMMA LeavingKeepsDates ==
  ASSUME TypedInv, OccurInv, NEW h \in Handlers,
         FindTarget(h) \/ ReadToDelete(h) \/ DeleteType(h)
  PROVE  OccurInv'
<1>1. DOMAIN req[h] = Fields
  BY WhoIsWhere DEF TypedInv
<1>2. CASE FindTarget(h)
  <2>1. PICK r : Reads(h, r) /\ (r = Idle \/ r = [req[h] EXCEPT !.step = "read"])
    BY <1>2 DEF FindTarget
  <2>2. r.step # "update"
    BY <1>1, <2>1, IdleIsNoUpdate DEF Fields
  <2> QED BY <2>1, <2>2, ReadsKeep
<1>3. CASE ReadToDelete(h)
  <2>1. PICK r : Reads(h, r) /\ \E gone : r = [req[h] EXCEPT !.step = "remove", !.removing = gone]
    BY <1>3 DEF ReadToDelete
  <2>2. r.step = "remove"
    BY <1>1, <2>1 DEF Fields
  <2> QED BY <2>1, <2>2, ReadsKeep
<1>4. CASE DeleteType(h) /\ ~Fails(h)
  <2>1. (\E A, B : Gone(A, B)) /\ Quiet /\ Goes(h, Idle)
    BY <1>4 DEF DeleteType
  <2> QED BY <2>1, IdleIsNoUpdate, ServesKeep DEF Quiet
<1> QED BY <1>2, <1>3, <1>4, FailsKeep

LEMMA ByHandKeepsDates ==
  ASSUME TypedInv, OccurInv, NEW h \in Handlers,
         \/ \E teacher \in Teachers, discipline \in Disciplines, names \in Staff :
              create(h, teacher, discipline, names) \/ updateByTeacherAndDiscipline(h, teacher, discipline, names)
         \/ \E t \in teachers, names \in Staff : updateById(h, t, names)
         \/ PutTeacher(h) \/ ReadToAppoint(h)
  PROVE  OccurInv'
<1>1. DOMAIN req[h] = Fields
  BY WhoIsWhere DEF TypedInv
<1>2. ASSUME NEW teacher, NEW discipline, NEW names, create(h, teacher, discipline, names) PROVE OccurInv'
  <2>1. UNCHANGED <<events, lacking>>
    BY <1>2 DEF create
  <2>2. PICK r : Goes(h, r) /\ r = [Idle EXCEPT !.step = "name", !.kind = "hand", !.body = teacher, !.present = {},
              !.discipline = discipline, !.adding = names, !.seen = Reading(discipline)]
    BY <1>2 DEF create
  <2>3. r.step = "name"
    BY <2>2 DEF Idle
  <2> QED BY <2>1, <2>2, <2>3, ServesKeep
<1>3. ASSUME NEW t, NEW names, updateById(h, t, names) PROVE OccurInv'
  <2>1. UNCHANGED <<events, lacking>>
    BY <1>3 DEF updateById
  <2>2. PICK r : Goes(h, r) /\ r = [Idle EXCEPT !.step = "staff", !.kind = "hand", !.dt = t.id, !.present = {},
              !.discipline = t.discipline, !.adding = names]
    BY <1>3 DEF updateById
  <2>3. r.step = "staff"
    BY <2>2 DEF Idle
  <2> QED BY <2>1, <2>2, <2>3, ServesKeep
<1>4. ASSUME NEW teacher, NEW discipline, NEW names,
             updateByTeacherAndDiscipline(h, teacher, discipline, names), \A t : ~updateById(h, t, names)
      PROVE  OccurInv'
  <2>1. UNCHANGED <<events, lacking>>
    BY <1>4 DEF updateByTeacherAndDiscipline
  <2>2. PICK r : Goes(h, r) /\ r = [Idle EXCEPT !.step = "put", !.kind = "hand", !.body = teacher, !.present = {},
              !.discipline = discipline, !.adding = names]
    BY <1>4 DEF updateByTeacherAndDiscipline
  <2>3. r.step = "put"
    BY <2>2 DEF Idle
  <2> QED BY <2>1, <2>2, <2>3, ServesKeep
<1>5. CASE PutTeacher(h)
  <2>1. UNCHANGED <<events, lacking>>
    BY <1>5 DEF PutTeacher, Makes, Quiet
  <2>2. PICK r : Goes(h, r) /\ r = [req[h] EXCEPT !.step = "staff", !.dt = made + 1]
    BY <1>5 DEF PutTeacher
  <2>3. r.step = "staff"
    BY <1>1, <2>2 DEF Fields
  <2> QED BY <2>1, <2>2, <2>3, ServesKeep
<1>6. CASE ReadToAppoint(h) /\ ~Fails(h)
  <2>1. PICK r : Reads(h, r) /\ r = [req[h] EXCEPT !.step = "name", !.seen = Reading(req[h].discipline)]
    BY <1>6 DEF ReadToAppoint
  <2>2. r.step = "name"
    BY <1>1, <2>1 DEF Fields
  <2> QED BY <2>1, <2>2, ReadsKeep
<1> QED BY <1>2, <1>3, <1>4, <1>5, <1>6, FailsKeep

LEMMA NameKeepsDates ==
  ASSUME TypedInv, OccurInv, NEW h \in Handlers, NameType(h) \/ Appoint(h)
  PROVE  OccurInv'
<1>1. DOMAIN req[h] = Fields
  BY WhoIsWhere DEF TypedInv
<1>4. CASE Fails(h)
  BY <1>4, FailsKeep
<1>2. CASE NameType(h) /\ ~Fails(h)
  <2>1. req[h].step = "name" /\ UNCHANGED <<events, lacking>>
    BY <1>2 DEF NameType, Makes, Reads, Quiet
  <2>2. PICK r : Goes(h, r) /\ r.step = "name"
    <3>1. PICK q : q = req[h]
      OBVIOUS
    <3>2. PICK new : new = [id |-> made + 1, discipline |-> q.discipline, name |-> Head(q.adding)]
      OBVIOUS
    <3> DEFINE Given(id) == [q EXCEPT !.adding = Tail(@), !.present = @ \cup {<<id, RoleOf(new.name)>>}]
               reading == [Reading(q.discipline) EXCEPT !.types = @ \cup {new}]
    <3>3. PICK id : Goes(h, Given(id)) \/ Goes(h, [Given(id) EXCEPT !.seen = reading])
      BY <1>2, <3>1, <3>2 DEF NameType, Reads
    <3>4. PICK given, seen : given = Given(id) /\ seen = reading
      OBVIOUS
    <3>5. DOMAIN given = Fields /\ given.step = "name"
      BY <1>1, <2>1, <3>1, <3>4 DEF Fields
    <3>6. [given EXCEPT !.seen = seen].step = "name"
      BY <3>5 DEF Fields
    <3>7. Goes(h, given) \/ Goes(h, [given EXCEPT !.seen = seen])
      BY <3>3, <3>4
    <3> QED BY <3>5, <3>6, <3>7
  <2> QED BY <2>1, <2>2, ServesKeep
<1>3. CASE Appoint(h) /\ ~Fails(h)
  <2>1. UNCHANGED <<events, lacking>> /\ Goes(h, Idle)
    BY <1>3 DEF Appoint
  <2> QED BY <2>1, IdleIsNoUpdate, ServesKeep
<1> QED BY <1>2, <1>3, <1>4

LEMMA DeleteByIdKeepsDates ==
  ASSUME TypedInv, OccurInv, NEW h \in Handlers, NEW t \in teachers, deleteById(h, t)
  PROVE  OccurInv'
<1>1. Gone({}, {t.id}) /\ UNCHANGED <<req, lacking>>
  BY DEF deleteById
<1>2. NoUpdate
  BY <1>1 DEF NoUpdate
<1> QED BY <1>1, <1>2, GoneDates, SameDatesKeep DEF TypedInv

\* A new event has an info for each of its occurrences.
LEMMA CreateKeepsDates ==
  ASSUME TypedInv, OccurInv, Timely, NEW h \in Handlers, NEW id \in EventIds, NEW body \in CreateBodies,
         createGroupEvent(h, id, body)
  PROVE  OccurInv'
<1> DEFINE end == IF body.period = "NO_PERIOD" THEN body.end ELSE getLastEndDate(body.end, body.period)
           last == getEndIndex(body.start, end, body.period)
           new == [period |-> body.period, start |-> body.start, end |-> end,
                   infos |-> 0..last, lessons |-> {}]
<1>1. body.period \in Periods /\ body.start \in Int /\ body.end \in Int
  BY ScheduleAssumption
<1>2. end \in Int /\ last \in Int
  BY <1>1, LastIsWhole
<1>3. /\ events' = [e \in DOMAIN events \cup {id} |-> IF e # id THEN events[e] ELSE new]
      /\ last >= 0 /\ semester.startDate <= body.start /\ body.start <= body.end
      /\ body.end <= semester.endDate /\ lacking' = lacking
  BY DEF createGroupEvent
<1>4. Placed(new) /\ Counted(new)
  <2>1. PICK n \in Nat : n = last
    BY <1>2, <1>3
  <2>2. PICK f : f = new
    OBVIOUS
  <2>3. f.start = body.start /\ f.infos = 0..n /\ getEndIndex(f.start, f.end, f.period) = n
    BY <2>1, <2>2
  <2> HIDE DEF new, end, last
  <2>4. body.start <= semester.endDate
    BY <1>1, <1>3, SemesterDatesAreNumbers
  <2>5. Placed(f)
    BY <1>1, <1>3, <2>3, <2>4, StartsInSemester DEF Timely
  <2>6. Counted(f)
    BY <2>3 DEF Counted
  <2> QED BY <2>2, <2>5, <2>6
<1> HIDE DEF new
<1>5. ASSUME NEW e \in DOMAIN events'
      PROVE  Placed(events'[e]) /\ (e \notin lacking' => Counted(events'[e]))
  <2>1. CASE e = id
    <3>1. events'[e] = new
      BY <1>3, <2>1
    <3> QED BY <1>4, <3>1
  <2>2. CASE e # id
    <3>1. e \in DOMAIN events /\ events'[e] = events[e] /\ lacking' = lacking
      BY <1>3, <2>2
    <3> QED BY <3>1 DEF OccurInv
  <2> QED BY <2>1, <2>2
<1>6. NoUpdate
  <2>1. PICK r : Goes(h, r) /\ r = IF body.discipline = NONE THEN Idle
                   ELSE [Idle EXCEPT !.step = "find", !.kind = "create", !.event = id, !.body = body,
                         !.discipline = body.discipline, !.adding = SetToSeq(body.teachers)]
    BY DEF createGroupEvent
  <2>2. r.step # "update"
    BY <2>1 DEF Idle
  <2> QED BY <2>1, <2>2, GoesNoUpdate DEF TypedInv
<1>7. \A g \in Handlers : req'[g].step = "update" => Placed(req'[g].old)
  BY <1>6 DEF NoUpdate, OccurInv
<1> QED BY <1>5, <1>7 DEF OccurInv, Placed, Counted

LEMMA DeleteKeepsDates ==
  ASSUME TypedInv, OccurInv, NEW h \in Handlers, NEW id \in DOMAIN events, deleteEvent(h, id)
  PROVE  OccurInv'
<1>1. SameDates
  BY DEF deleteEvent, SameDates
<1>2. PICK lesson, r : Goes(h, r) /\ r = IF lesson = 0 THEN Idle
                   ELSE [Idle EXCEPT !.step = "target", !.kind = "delete", !.event = id,
                         !.present = Row(lesson), !.discipline = Row(lesson).discipline]
  BY DEF deleteEvent
<1>3. r.step # "update"
  BY <1>2 DEF Idle
<1> QED BY <1>1, <1>2, <1>3, GoesNoUpdate, SameDatesKeep DEF TypedInv

LEMMA UpdateKeepsDates ==
  ASSUME TypedInv, OccurInv, NEW h \in Handlers, NEW id \in DOMAIN events, NEW body \in UpdateBodies,
         updateEvent(h, id, body)
  PROVE  OccurInv'
<1>1. SameDates
  BY EventsSame DEF updateEvent
<1>2. PICK r : Goes(h, r) /\ r = [Idle EXCEPT !.step = "update", !.kind = "update", !.event = id, !.body = body,
                                  !.old = events[id]]
  BY DEF updateEvent
<1>3. r.old = events[id]
  BY <1>2 DEF Idle
<1>4. req'[h] = r /\ \A g \in Handlers : g # h => req'[g] = req[g]
  BY <1>2 DEF Goes, TypedInv, ReqInv
<1>5. ASSUME NEW g \in Handlers, req'[g].step = "update" PROVE Placed(req'[g].old)
  <2>1. CASE g = h
    BY <1>3, <1>4, <2>1 DEF OccurInv
  <2>2. CASE g # h
    BY <1>4, <1>5, <2>2 DEF OccurInv
  <2> QED BY <2>1, <2>2
<1> QED BY <1>1, <1>5 DEF SameDates, OccurInv, Placed, Counted, updateEvent

\* An update writes dates in the semester, and as many infos as they need unless it found too few.
LEMMA WriteKeepsDates ==
  ASSUME TypedInv, OccurInv, Timely, NEW h \in Handlers, NEW moment \in Moments, WriteEvent(h, moment)
  PROVE  OccurInv'
<1>1. PICK id, body, old : id = req[h].event /\ body = req[h].body /\ old = req[h].old
  OBVIOUS
<1>2. req[h].step = "update"
  BY DEF WriteEvent
<1>3. Updating(req[h]) /\ DOMAIN req[h] = Fields
  BY <1>2 DEF TypedInv, ReqInv, Asked, Teaching, Leaving, ByHand
<1>4. body \in UpdateBodies /\ EventRow(old) /\ Placed(old)
  BY <1>1, <1>2, <1>3 DEF Updating, OccurInv
<1>5. CASE Refuses(h)
  BY <1>5, IdleIsNoUpdate, ServesKeep DEF Refuses, Quiet
<1>6. CASE ~Refuses(h)
  <2> DEFINE infos == {i \in events[id].infos : KeepsInfo(i, old, body)} \cup AddedInfos(old, body)
             new == [period |-> NewPeriod(old, body), start |-> NewStart(old, body),
                     end |-> NewEnd(old, body, events[id].end), lessons |-> events[id].lessons, infos |-> infos]
             lacks == \/ /\ NewPeriod(old, body) # "NO_PERIOD"
                         /\ LastIndex(old, body) >= Cardinality(old.infos)
                      \/ events[id].infos # old.infos
  <2>1. id \in DOMAIN events /\ events' = [events EXCEPT ![id] = new]
    BY <1>1, <1>6, ZenonT(60) DEF WriteEvent
  <2>2. lacking' = IF lacks THEN lacking \cup {id} ELSE lacking
    BY <1>1, <1>6, ZenonT(60) DEF WriteEvent
  <2>3. Placed(new)
    <3>1. new.start = NewStart(old, body)
      OBVIOUS
    <3> HIDE DEF new
    <3> QED BY <1>4, <3>1, UpdateInSemester
  <2>4. id \notin lacking' => Counted(new)
    <3> SUFFICES ASSUME id \notin lacking' PROVE Counted(new)
      OBVIOUS
    <3>1. id \notin lacking /\ ~lacks
      BY <2>2
    <3>2. PICK n \in Nat \cup {-1} : events[id].infos = 0..n
      BY <2>1, <3>1 DEF OccurInv, Counted
    <3>3. old.infos = 0..n /\ events[id].infos = old.infos
      BY <3>1, <3>2
    <3>4. NewPeriod(old, body) # "NO_PERIOD" => LastIndex(old, body) < Cardinality(old.infos)
      <4>1. Cardinality(old.infos) \in Nat
        BY <1>4, FS_CardinalityType DEF EventRow
      <4>2. LastIndex(old, body) \in Int
        BY <1>4, NewTimes, LastIsWhole DEF LastIndex, EventRow
      <4> QED BY <3>1, <4>1, <4>2
    <3>5. /\ new.period = NewPeriod(old, body) /\ new.start = NewStart(old, body)
          /\ new.end = NewEnd(old, body, events[id].end)
          /\ new.infos = {i \in old.infos : KeepsInfo(i, old, body)} \cup AddedInfos(old, body)
      BY <3>3
    <3> HIDE DEF new, infos, lacks
    <3> QED BY <1>4, <3>3, <3>4, <3>5, UpdateCounts
  <2> HIDE DEF new, lacks
  <2>5. ASSUME NEW e \in DOMAIN events'
        PROVE  Placed(events'[e]) /\ (e \notin lacking' => Counted(events'[e]))
    <3>1. CASE e = id
      <4>1. events'[e] = new
        BY <2>1, <3>1
      <4> QED BY <2>3, <2>4, <3>1, <4>1
    <3>2. CASE e # id
      <4>1. e \in DOMAIN events /\ events'[e] = events[e] /\ (e \notin lacking' => e \notin lacking)
        BY <2>1, <2>2, <3>2
      <4> QED BY <4>1 DEF OccurInv
    <3> QED BY <3>1, <3>2
  <2>6. NoUpdate
    <3>1. PICK lesson, r : Goes(h, r) /\ r =
                     IF ~WithLesson(body) \/ (lesson = 0 /\ NONE \in {body.discipline, body.type})
                     THEN Idle
                     ELSE [req[h] EXCEPT
                       !.step = IF lesson = 0 THEN "find" ELSE "count",
                       !.present = IF lesson = 0 THEN NONE ELSE Row(lesson),
                       !.discipline = IF body.discipline # NONE THEN body.discipline ELSE Row(lesson).discipline,
                       !.adding = IF body.teachers = NONE THEN << >> ELSE SetToSeq(body.teachers)]
      BY <1>1, <1>6 DEF WriteEvent
    <3>2. r = Idle \/ r.step \in {"find", "count"}
      BY <1>3, <3>1 DEF Fields
    <3> QED BY <3>1, <3>2, IdleIsNoUpdate, GoesNoUpdate DEF TypedInv
  <2>7. \A g \in Handlers : req'[g].step = "update" => Placed(req'[g].old)
    BY <2>6 DEF NoUpdate, OccurInv
  <2> QED BY <2>5, <2>7 DEF OccurInv, Placed, Counted
<1> QED BY <1>5, <1>6

LEMMA InitOccurs == Timely /\ Init => OccurInv
<1> SUFFICES ASSUME Timely, Init PROVE OccurInv
  OBVIOUS
<1>1. \A h \in Handlers : req[h].step # "update"
  BY IdleIsNoUpdate DEF Init
<1> QED BY <1>1 DEF Init, OccurInv, Timely

LEMMA StepOccurs == ASSUME TypedInv, OccurInv, Timely, NEW h \in Handlers, Step(h) PROVE OccurInv'
<1>1. CASE \E id \in EventIds, body \in CreateBodies : createGroupEvent(h, id, body)
  BY <1>1, CreateKeepsDates
<1>2. CASE \E id \in DOMAIN events : deleteEvent(h, id)
  BY <1>2, DeleteKeepsDates
<1>3. CASE \E id \in DOMAIN events, body \in UpdateBodies : updateEvent(h, id, body)
  BY <1>3, UpdateKeepsDates
<1>4. CASE \E moment \in Moments : WriteEvent(h, moment)
  BY <1>4, WriteKeepsDates
<1>5. CASE CountEvents(h) \/ ReadToClear(h) \/ clearDiscipline(h)
  BY <1>5, CountKeeps, ClearKeepsDates
<1>6. CASE FindType(h) \/ MakeType(h) \/ removeTeacher(h) \/ Removed(h)
  BY <1>6, TypesKeepDates, RemovesKeepDates
<1>7. CASE FindTeacher(h) \/ JoinTeacher(h) \/ GiveRole(h)
  BY <1>7, TeachersKeepDates
<1>8. CASE attachLesson(h) \/ updateDiscipline(h) \/ ReplaceLesson(h)
  BY <1>8, LessonsKeepDates
<1>9. CASE FindTarget(h) \/ ReadToDelete(h) \/ DeleteType(h)
  BY <1>9, LeavingKeepsDates
<1>10. CASE \E teacher \in Teachers, discipline \in Disciplines, names \in Staff :
              create(h, teacher, discipline, names) \/ updateByTeacherAndDiscipline(h, teacher, discipline, names)
  BY <1>10, ByHandKeepsDates
<1>11. CASE \E t \in teachers : deleteById(h, t) \/ \E names \in Staff : updateById(h, t, names)
  BY <1>11, ByHandKeepsDates, DeleteByIdKeepsDates
<1>12. CASE PutTeacher(h) \/ ReadToAppoint(h) \/ NameType(h) \/ Appoint(h)
  BY <1>12, ByHandKeepsDates, NameKeepsDates
<1> QED BY <1>1, <1>2, <1>3, <1>4, <1>5, <1>6, <1>7, <1>8, <1>9, <1>10, <1>11, <1>12 DEF Step

LEMMA DatesKept == Timely /\ TypedInv /\ OccurInv /\ [Next]_vars => TypedInv' /\ OccurInv'
<1> SUFFICES ASSUME Timely, TypedInv, OccurInv, [Next]_vars PROVE TypedInv' /\ OccurInv'
  OBVIOUS
<1>1. CASE Stop
  <2>1. NoUpdate
    BY <1>1, IdleIsNoUpdate DEF Stop, NoUpdate
  <2> QED BY <1>1, <2>1, StopTyped, EventsSame, SameDatesKeep DEF Stop
<1>2. CASE UNCHANGED vars
  <2>1. NoUpdate
    BY <1>2 DEF vars, NoUpdate
  <2> QED BY <1>2, <2>1, SameTyped, EventsSame, SameDatesKeep DEF vars
<1> QED BY <1>1, <1>2, StepTyped, StepOccurs DEF Next

LEMMA OccurrencesFollow == FromMonday /\ TypedInv /\ OccurInv => OccurrencesKept
<1> SUFFICES ASSUME FromMonday, TypedInv, OccurInv, NEW id \in DOMAIN events, Regular(events[id])
             PROVE  LET e == events[id]
                    IN /\ \E w \in Weeks : InWeek(e, w)
                       /\ e.period # "NO_PERIOD" /\ id \notin lacking =>
                            \A w \in Weeks : InWeek(e, w) => eventInfoIndex(e, w) \in e.infos
  BY DEF OccurrencesKept
<1>1. PICK e : e = events[id]
  OBVIOUS
<1>2. EventRow(e) /\ Regular(e) /\ Placed(e) /\ (id \notin lacking => Counted(e))
  BY <1>1 DEF TypedInv, EventsInv, OccurInv
<1>3. StartWeek(e) \in Weeks /\ e.start % DAY # 0
  BY <1>2 DEF Placed
<1>4. \E w \in Weeks : InWeek(e, w)
  <2>1. StartWeek(e) \in Int /\ StartWeek(e) <= EndWeek(e)
    BY <1>2, <1>3, WholeWeeks, WeeksAreNumbers
  <2>2. InWeek(e, StartWeek(e))
    BY <2>1 DEF InWeek
  <2> QED BY <1>3, <2>2
<1>5. ASSUME e.period # "NO_PERIOD", id \notin lacking, NEW w \in Weeks, InWeek(e, w)
      PROVE  eventInfoIndex(e, w) \in e.infos
  <2>1. PICK n \in Nat \cup {-1} : e.infos = 0..n /\ getEndIndex(e.start, e.end, e.period) <= n
    BY <1>2, <1>5 DEF Counted
  <2>2. PICK last \in Int : last = getEndIndex(e.start, e.end, e.period)
    BY <1>2, LastIsWhole DEF EventRow
  <2>3. w \in Int
    BY DEF Weeks
  <2>4. PICK i : i = eventInfoIndex(e, w)
    OBVIOUS
  <2>5. i \in 0..last
    BY <1>2, <1>3, <1>5, <2>2, <2>3, <2>4, InfosSuffice
  <2> QED BY <2>1, <2>2, <2>4, <2>5
<1> QED BY <1>1, <1>4, <1>5

\* All requests come within one semester, none at a Monday's midnight.
InOneSemester ==
  \A now \in Moments : getCurrentSemester(now) = semester /\ now % WEEK # 0

\* The page of a week shows what takes place in it, on one day each ...
LEMMA PageShows ==
  ASSUME FromMonday, InOneSemester, EventsInv, NEW now \in Moments, NEW week \in Weeks,
         NEW id \in DOMAIN events, InWeek(events[id], week)
  PROVE  id \in getAllGroupEvents(now, week)
<1>1. PICK e : e = events[id]
  OBVIOUS
<1>2. EventRow(e) /\ InWeek(e, week) /\ week \in Int
  BY <1>1 DEF EventsInv, Weeks
<1>3. /\ StartOfWeek(now, week) = semester.startDate + (week - 1) * WEEK
      /\ EndOfWeek(now, week) = semester.startDate + week * WEEK
  BY <1>2, DatesOfWeek, ScheduleAssumption DEF InOneSemester
<1>4. /\ StartOfWeek(now, week) <= e.end
      /\ e.start <= EndOfWeek(now, week)
  BY <1>2, <1>3, WeeksAreNumbers, SemesterDatesAreNumbers DEF InWeek, WEEK, DAY
<1> QED BY <1>1, <1>2, <1>4 DEF getAllGroupEvents

\* ... and without a week that of the present one shows what is not fortnightly.
LEMMA PageOfNow ==
  ASSUME FromMonday, InOneSemester, EventsInv, NEW now \in Moments, getCurrentWeek(now) \in Weeks,
         NEW id \in DOMAIN events, InWeek(events[id], getCurrentWeek(now))
  PROVE  id \in getAllGroupEventsNow(now) <=> events[id].period # "EVERY_FORTNIGHT"
<1>1. PICK week \in Weeks : week = getCurrentWeek(now)
  OBVIOUS
<1>2. id \in getAllGroupEvents(now, week)
  BY <1>1, PageShows
<1>3. StartOfWeek(now, week) <= events[id].end /\ events[id].start <= EndOfWeek(now, week)
  BY <1>2 DEF getAllGroupEvents
<1>4. startOfWeek(now) \in Int /\ week \in Int
  BY ScheduleAssumption DEF startOfWeek, Weeks, WEEK, DAY
<1>5. StartOfWeek(now, week) = startOfWeek(now) /\ EndOfWeek(now, week) = startOfWeek(now) + WEEK
  BY <1>1, <1>4 DEF StartOfWeek, EndOfWeek, WEEK, DAY
<1> QED BY <1>3, <1>5 DEF getAllGroupEventsNow

LEMMA PageHasDay ==
  ASSUME FromMonday, InOneSemester, EventsInv, NEW now \in Moments, NEW week \in Weeks,
         NEW listed, listed \subseteq DOMAIN events, NEW id \in listed
  PROVE  Cardinality({day \in 1..7 : id \in getGroupEventsByDay(listed, now, week, day)}) = 1
<1>1. events[id].start \in Int /\ week \in Int
  BY DEF EventsInv, EventRow, Weeks
<1>2. PICK start \in Int : start = events[id].start
  BY <1>1
<1>3. PICK d \in 1..7 : \A day \in 1..7, date \in Int :
        date = semester.startDate + (week - 1) * WEEK + (day - 1) * DAY
          => ((date - (start \div DAY) * DAY) % WEEK = 0 <=> day = d)
  BY <1>1, OneDay
<1>4. \A day \in 1..7 : id \in getGroupEventsByDay(listed, now, week, day) <=> day = d
  <2> TAKE day \in 1..7
  <2>1. StartOfWeek(now, week) = semester.startDate + (week - 1) * WEEK
    BY <1>1, DatesOfWeek, ScheduleAssumption DEF InOneSemester
  <2>2. PICK date \in Int : date = semester.startDate + (week - 1) * WEEK + (day - 1) * DAY
    BY <1>1, SemesterDatesAreNumbers DEF WEEK, DAY
  <2>3. getSpecificDayInWeek(now, week, day) = date
    BY <2>1, <2>2 DEF getSpecificDayInWeek
  <2>4. (date - (start \div DAY) * DAY) % WEEK = 0 <=> day = d
    BY <1>3, <2>2
  <2> QED BY <1>2, <2>3, <2>4, Zenon DEF getGroupEventsByDay
<1>5. {day \in 1..7 : id \in getGroupEventsByDay(listed, now, week, day)} = {d}
  BY <1>4
<1> QED BY <1>5, FS_Singleton

LEMMA TimeInWeek ==
  ASSUME FromMonday, InOneSemester, NEW now \in Moments, NEW week \in Weeks,
         NEW e, EventRow(e), Placed(e), Regular(e), InWeek(e, week)
  PROVE  LET time == setWeekTime(e, week)
         IN /\ StartOfWeek(now, week) <= time.start /\ time.start <= time.end
            /\ time.end <= EndOfWeek(now, week)
<1>1. week \in Int
  BY DEF Weeks
<1>2. /\ StartOfWeek(now, week) = semester.startDate + (week - 1) * WEEK
      /\ EndOfWeek(now, week) = semester.startDate + week * WEEK
  BY <1>1, DatesOfWeek, ScheduleAssumption DEF InOneSemester
<1>3. /\ e.start \in Int /\ e.end \in Int
      /\ StartWeek(e) \in Int /\ EndWeek(e) \in Int
      /\ (StartWeek(e) - 1) * WEEK < e.start - semester.startDate
      /\ e.end - semester.startDate <= EndWeek(e) * WEEK
  BY WeeksAreNumbers
<1>4. PICK k \in Nat, length \in 1..2 :
        e.end = e.start + k * WEEK + length /\ EndWeek(e) = StartWeek(e) + k
  BY WholeWeeks DEF Placed
<1>5. PICK start, end : start = setWeekTime(e, week).start /\ end = setWeekTime(e, week).end
  OBVIOUS
<1>6. /\ start = e.start + (week - StartWeek(e)) * WEEK
      /\ end = e.end - (EndWeek(e) - week) * WEEK
  BY <1>5 DEF setWeekTime
<1>7. StartOfWeek(now, week) <= start
  BY <1>1, <1>2, <1>3, <1>6, SemesterDatesAreNumbers DEF WEEK, DAY
<1>8. end <= EndOfWeek(now, week)
  BY <1>1, <1>2, <1>3, <1>6, SemesterDatesAreNumbers DEF WEEK, DAY
<1>9. start <= end
  BY <1>1, <1>3, <1>4, <1>6 DEF WEEK, DAY
<1> QED BY <1>5, <1>7, <1>8, <1>9

LEMMA PagesFollow == FromMonday /\ InOneSemester /\ TypedInv /\ OccurInv => PagesAgree
<1> SUFFICES ASSUME FromMonday, InOneSemester, TypedInv, OccurInv, NEW now \in Moments, NEW week \in Weeks
             PROVE
      LET listed == getAllGroupEvents(now, week)
          two == getFortnightEvents(now, week)
      IN /\ \A id \in DOMAIN events : InWeek(events[id], week) => id \in listed
         /\ \A id \in listed :
              Cardinality({day \in 1..7 : id \in getGroupEventsByDay(listed, now, week, day)}) = 1
         /\ \A id \in two[1] \cap two[2] : events[id].period # "EVERY_FORTNIGHT"
         /\ \A id \in listed : LET e == events[id] IN
              /\ Regular(e) /\ e.period # "NO_PERIOD" =>
                   LET time == setWeekTime(e, week)
                   IN /\ StartOfWeek(now, week) <= time.start /\ time.start <= time.end
                      /\ time.end <= EndOfWeek(now, week)
              /\ getIndexOfLesson(e, week, EndOfWeek(now, week)) = eventInfoIndex(e, week)
         /\ week = getCurrentWeek(now) =>
              \A id \in DOMAIN events : InWeek(events[id], week) =>
                (id \in getAllGroupEventsNow(now) <=> events[id].period # "EVERY_FORTNIGHT")
  BY DEF PagesAgree
<1> DEFINE listed == getAllGroupEvents(now, week)
           two == getFortnightEvents(now, week)
<1>1. EventsInv /\ week \in Int
  BY DEF TypedInv, Weeks
<1>2. \A id \in DOMAIN events : InWeek(events[id], week) => id \in listed
  BY <1>1, PageShows
<1>3. listed \subseteq DOMAIN events /\ \A id \in listed : InWeek(events[id], week)
  BY DEF getAllGroupEvents
<1>4. \A id \in listed :
        Cardinality({day \in 1..7 : id \in getGroupEventsByDay(listed, now, week, day)}) = 1
  <2> HIDE DEF listed
  <2> QED BY <1>1, <1>3, PageHasDay
<1>5. ASSUME NEW id \in two[1] \cap two[2] PROVE events[id].period # "EVERY_FORTNIGHT"
  <2>1. PICK first \in Int : first = IF week % 2 = 0 THEN week - 1 ELSE week
    BY <1>1
  <2>2. two[1] = getAllGroupEvents(now, first) /\ two[2] = getAllGroupEvents(now, first + 1)
    BY <2>1 DEF getFortnightEvents
  <2> HIDE DEF two
  <2>3. InWeek(events[id], first) /\ InWeek(events[id], first + 1)
    BY <2>2 DEF getAllGroupEvents
  <2> QED BY <2>3 DEF InWeek
<1>6. ASSUME NEW id \in listed
      PROVE  LET e == events[id] IN
              /\ Regular(e) /\ e.period # "NO_PERIOD" =>
                   LET time == setWeekTime(e, week)
                   IN /\ StartOfWeek(now, week) <= time.start /\ time.start <= time.end
                      /\ time.end <= EndOfWeek(now, week)
              /\ getIndexOfLesson(e, week, EndOfWeek(now, week)) = eventInfoIndex(e, week)
  <2>1. PICK e : e = events[id]
    OBVIOUS
  <2>2. EventRow(e) /\ Placed(e) /\ InWeek(e, week)
    BY <1>3, <2>1 DEF TypedInv, EventsInv, OccurInv
  <2>3. EndOfWeek(now, week) = semester.startDate + week * WEEK
    BY <1>1, DatesOfWeek, ScheduleAssumption DEF InOneSemester
  <2>4. getIndexOfLesson(e, week, EndOfWeek(now, week)) = eventInfoIndex(e, week)
    BY <1>1, <2>2, <2>3, SameIndex
  <2>5. Regular(e) => LET time == setWeekTime(e, week)
                      IN /\ StartOfWeek(now, week) <= time.start /\ time.start <= time.end
                         /\ time.end <= EndOfWeek(now, week)
    BY <2>2, TimeInWeek
  <2> QED BY <2>1, <2>4, <2>5
<1>7. ASSUME week = getCurrentWeek(now), NEW id \in DOMAIN events, InWeek(events[id], week)
      PROVE  id \in getAllGroupEventsNow(now) <=> events[id].period # "EVERY_FORTNIGHT"
  BY <1>1, <1>7, PageOfNow
<1> QED BY <1>2, <1>4, <1>5, <1>6, <1>7

\* In a semester that begins on a Monday an event takes place at least once, and has an
\* info for each time it does, unless an update found too few of them or wrote over
\* another: what an update read before its await is enough to say where its infos end
\* (ScheduleService.ts:169-219, 281-296, 458-468, 540-560).
THEOREM OccurrencesHaveInfos == ASSUME Timely PROVE Spec => []OccurrencesKept
<1>1. Init => TypedInv /\ OccurInv
  BY InitTyped, InitOccurs, Timely
<1>2. TypedInv /\ OccurInv /\ [Next]_vars => TypedInv' /\ OccurInv'
  BY DatesKept, Timely
<1>3. TypedInv /\ OccurInv => OccurrencesKept
  BY OccurrencesFollow, Timely DEF Timely
<1> QED BY <1>1, <1>2, <1>3, PTL DEF Spec

\* Whenever in such a semester it is asked for, the page of a week, the page of a day, that
\* of a fortnight and the event's own agree about what takes place when, and which info
\* is shown and written (ScheduleService.ts:56-72, 134-184, 316-352, 520-539, 666-672).
THEOREM PagesShowTheSame == ASSUME Timely, InOneSemester PROVE Spec => []PagesAgree
<1>1. Init => TypedInv /\ OccurInv
  BY InitTyped, InitOccurs, Timely
<1>2. TypedInv /\ OccurInv /\ [Next]_vars => TypedInv' /\ OccurInv'
  BY DatesKept, Timely
<1>3. TypedInv /\ OccurInv => PagesAgree
  BY PagesFollow, Timely, InOneSemester DEF Timely
<1> QED BY <1>1, <1>2, <1>3, PTL DEF Spec
=============================================================================
