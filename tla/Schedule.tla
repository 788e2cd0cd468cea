------------------------------ MODULE Schedule ------------------------------
(***************************************************************************)
(* ScheduleService: events with their period, the infos of their           *)
(* occurrences, and what an event with a discipline does to the types, the *)
(* teachers and the teachers' roles of disciplines, at each of its awaits. *)
(* With them what DisciplineTeacherService does to the same rows by hand.   *)
(***************************************************************************)
EXTENDS Dates, FiniteSets, Sequences, SequencesExt

CONSTANTS
  EventIds, Disciplines, Teachers,
  TypeNames,       \* names of discipline types; each goes with a role of teachers
  Moments,         \* times at which requests come
  CreateBodies,    \* [period, start, end, discipline, type, teachers]
  UpdateBodies,    \* the same, each field NONE when left out, and [change, week]
  Staff,           \* lists of the names of types whose roles a teacher is given by hand
  FirstEvents, FirstTypes, FirstTeachers, FirstRoles,   \* the rows there are at the start
  Handlers,        \* requests in progress at a time
  MaxRequests,     \* bound on requests
  NONE

VARIABLES
  events,      \* rows of Event with their EventInfo and Lesson: id -> [period, start, end, infos, lessons]
  types,       \* rows of DisciplineType: [id, discipline, name]
  teachers,    \* rows of DisciplineTeacher: [id, teacher, discipline]
  roles,       \* rows of DisciplineTeacherRole: [dt, type, role]
  made,        \* ids given to rows so far
  req,         \* what each handler works on
  sent,        \* requests so far
  crossed,     \* whether two requests overlapped, one stopped midway, or a teacher was put
               \* by hand in a discipline that had him
  lacking      \* events an update gave more occurrences, or wrote over another update

vars == <<events, types, teachers, roles, made, req, sent, crossed, lacking>>
rows == <<types, teachers, roles, made>>

-----------------------------------------------------------------------------
(* Occurrences *)

semester == getCurrentSemester(CHOOSE m \in Moments : TRUE)
Divider(period) == IF period = "EVERY_FORTNIGHT" THEN FORTNITE ELSE WEEK
StartWeek(e) == Ceil(e.start - semester.startDate, WEEK)
EndWeek(e) == Ceil(e.end - semester.startDate, WEEK)

\* Whether the event takes place in a week; getEvent and the lists refuse the others.
InWeek(e, week) ==
  /\ StartWeek(e) <= week /\ week <= EndWeek(e)
  /\ e.period = "EVERY_FORTNIGHT" => StartWeek(e) % 2 = week % 2

\* The occurrence in a week, moved from the first and from the last one.
setWeekTime(e, week) ==
  [start |-> e.start + (week - StartWeek(e)) * WEEK, end |-> e.end - (EndWeek(e) - week) * WEEK]

\* The events of a week, those of a day of it (narrowed from those of the week), and those of the odd week and the even one.
getAllGroupEvents(now, week) ==
  {id \in DOMAIN events : LET e == events[id] IN
     /\ StartOfWeek(now, week) <= e.end /\ e.start <= EndOfWeek(now, week) /\ InWeek(e, week)}
\* The same asked for without a week: the dates are those of the present week, but every
\* comparison with the missing number fails, so that fortnightly events are left out, and
\* the dates setWeekTime makes of it for the weekly ones are invalid.
getAllGroupEventsNow(now) ==
  {id \in DOMAIN events : LET e == events[id] IN
     /\ startOfWeek(now) <= e.end /\ e.start <= startOfWeek(now) + WEEK
     /\ e.period # "EVERY_FORTNIGHT"}
getGroupEventsByDay(listed, now, week, day) ==
  {id \in listed :
     (getSpecificDayInWeek(now, week, day) - (events[id].start \div DAY) * DAY) % WEEK = 0}
getFortnightEvents(now, week) ==
  LET first == IF week % 2 = 0 THEN week - 1 ELSE week
  IN <<getAllGroupEvents(now, first), getAllGroupEvents(now, first + 1)>>

\* The number of the occurrence, as an update of its info computes it from the dates of
\* the week, and as getEvent computes it from the weeks.
\* Variant: fortnightly events counted by weeks.
WeekOfLesson(e, week, endOfWeek) == (endOfWeek - e.start) \div WEEK
getIndexOfLesson(e, week, endOfWeek) ==
  LET index == (endOfWeek - e.start) \div WEEK
  IN IF e.period = "EVERY_FORTNIGHT" THEN Ceil(index, 2) ELSE index
eventInfoIndex(e, week) ==
  (week - StartWeek(e)) \div (IF e.period = "EVERY_FORTNIGHT" THEN 2 ELSE 1)

\* Variant: rounded down.
WholeIndex(start, end, period) == ((end - start) \div Divider(period)) - 1
getEndIndex(start, end, period) == Ceil(end - start, Divider(period)) - 1
\* The last occurrence that ends a fortnight before the semester does, or before the
\* given one when that is later.
getLastEndDate(end, period) ==
  LET days == Divider(period) \div DAY
      difference == Ceil(semester.endDate - FORTNITE - end, DAY)
  IN end + (difference \div days) * days * DAY

-----------------------------------------------------------------------------
(* Requests *)

Periods == {"NO_PERIOD", "EVERY_WEEK", "EVERY_FORTNIGHT"}
\* The role of the teachers who teach a type: TeacherRoleAdapter, by which two types share
\* one.  TeacherTypeAdapter, the other way round, has no type for that.
RoleOf(name) ==
  CASE name = "LECTURE" -> "LECTURER" [] name = "PRACTICE" -> "PRACTICIAN"
    [] name = "LABORATORY" -> "LABORANT" [] name = "EXAM" -> "EXAMINER"
    [] name \in {"CONSULTATION", "WORKOUT"} -> "OTHER"
TypeNamesOfSchema == {"LECTURE", "PRACTICE", "LABORATORY", "EXAM", "CONSULTATION", "WORKOUT"}

\* A request creates an event with the type of its discipline when it names one; every
\* moment has a semester; the rows at the start are of the database's schema, an event's
\* lessons and a teacher's roles being of types that are there.
ASSUME ScheduleAssumption ==
  /\ Moments # {} /\ Moments \subseteq Nat /\ \A m \in Moments : HasSemester(m)
  /\ IsFiniteSet(Teachers) /\ TypeNames \subseteq TypeNamesOfSchema /\ Staff \subseteq Seq(TypeNames)
  /\ CreateBodies \subseteq
       [period : Periods, start : Nat, end : Nat, discipline : Disciplines \cup {NONE},
        type : TypeNames \cup {NONE}, teachers : SUBSET Teachers]
  /\ \A b \in CreateBodies : b.discipline # NONE => b.type # NONE
  /\ UpdateBodies \subseteq
       [period : Periods \cup {NONE}, start : Nat \cup {NONE}, end : Nat \cup {NONE},
        change : BOOLEAN, week : Nat \cup {NONE}, discipline : Disciplines \cup {NONE},
        type : TypeNames \cup {NONE}, teachers : (SUBSET Teachers) \cup {NONE}]
  /\ NONE \notin [id : Nat, discipline : Disciplines, name : TypeNames]
  /\ FirstTypes \subseteq [id : 1..10, discipline : Disciplines, name : TypeNames]
  /\ FirstTeachers \subseteq [id : 1..10, teacher : Teachers, discipline : Disciplines]
  /\ IsFiniteSet(FirstTeachers)
  /\ \A s, t \in FirstTypes : s.id = t.id => s = t
  /\ \A s, t \in FirstTeachers : s.id = t.id => s = t
  /\ \A r \in FirstRoles : \E s \in FirstTypes, t \in FirstTeachers :
       s.discipline = t.discipline /\ r = [dt |-> t.id, type |-> s.id, role |-> RoleOf(s.name)]
  /\ DOMAIN FirstEvents \subseteq EventIds
  /\ \A e \in DOMAIN FirstEvents :
       /\ FirstEvents[e] \in [period : Periods, start : Nat, end : Nat, infos : SUBSET Nat,
                             lessons : SUBSET {t.id : t \in FirstTypes}]
       /\ IsFiniteSet(FirstEvents[e].infos)

Idle == [step |-> "idle", kind |-> "none", event |-> NONE, body |-> NONE, old |-> NONE,
         discipline |-> NONE, type |-> 0, present |-> NONE, seen |-> NONE, removing |-> << >>,
         adding |-> << >>, dt |-> 0]
Working(h) == req[h].step # "idle"

Init ==
  /\ events = FirstEvents /\ types = FirstTypes /\ teachers = FirstTeachers /\ roles = FirstRoles
  /\ made = 10
  /\ req = [h \in Handlers |-> Idle]
  /\ sent = 0 /\ crossed = FALSE /\ lacking = {}

Goes(h, r) == req' = [req EXCEPT ![h] = r]
Quiet == UNCHANGED <<sent, crossed, lacking>>
\* A request that ends before its last write leaves its work half done.
Fails(h) ==
  /\ Goes(h, Idle) /\ crossed' = TRUE /\ UNCHANGED <<events, rows, sent, lacking>>
Reads(h, r) == Goes(h, r) /\ Quiet /\ UNCHANGED <<events, rows>>

Begins ==
  /\ sent < MaxRequests /\ sent' = sent + 1
  /\ crossed' = (crossed \/ \E h \in Handlers : Working(h))

TypesOf(discipline) == {t \in types : t.discipline = discipline}
TeachersOf(discipline) == {t \in teachers : t.discipline = discipline}
RolesOf(dt) == {r \in roles : r.dt = dt}
Row(id) == CHOOSE t \in types : t.id = id
Exists(id) == \E t \in types : t.id = id

\* createGroupEvent down to its first write.  A periodic event that starts too late has
\* no last end after its start: the list of its infos is empty, and the code fails on
\* its first element.
createGroupEvent(h, id, body) ==
  LET end == IF body.period = "NO_PERIOD" THEN body.end ELSE getLastEndDate(body.end, body.period)
      last == getEndIndex(body.start, end, body.period)
  IN /\ ~Working(h) /\ id \in EventIds \ DOMAIN events
     /\ body.start <= body.end /\ semester.startDate <= body.start /\ body.end <= semester.endDate
     /\ last >= 0
     /\ Begins
     /\ events' = [e \in DOMAIN events \cup {id} |->
                     IF e # id THEN events[e]
                     ELSE [period |-> body.period, start |-> body.start, end |-> end,
                           infos |-> 0..last, lessons |-> {}]]
     /\ Goes(h, IF body.discipline = NONE THEN Idle
                ELSE [Idle EXCEPT !.step = "find", !.kind = "create", !.event = id, !.body = body,
                      !.discipline = body.discipline, !.adding = SetToSeq(body.teachers)])
     /\ UNCHANGED <<rows, lacking>>

\* lessons[0], or 0 when there is none.
First(lessons) == IF lessons = {} THEN {0} ELSE lessons
\* deleteEvent's first write, by which its infos and its lesson go.
deleteEvent(h, id) ==
  /\ ~Working(h) /\ id \in DOMAIN events
  /\ Begins
  /\ events' = [e \in DOMAIN events \ {id} |-> events[e]]
  /\ \E lesson \in First(events[id].lessons) :
       Goes(h, IF lesson = 0 THEN Idle
               ELSE [Idle EXCEPT !.step = "target", !.kind = "delete", !.event = id,
                     !.present = Row(lesson), !.discipline = Row(lesson).discipline])
  /\ UNCHANGED <<rows, lacking>>

\* updateEvent reads the event ...
updateEvent(h, id, body) ==
  /\ ~Working(h) /\ id \in DOMAIN events
  /\ Begins
  /\ Goes(h, [Idle EXCEPT !.step = "update", !.kind = "update", !.event = id, !.body = body,
              !.old = events[id]])
  /\ UNCHANGED <<events, rows, lacking>>

Or(field, otherwise) == IF field = NONE THEN otherwise ELSE field
\* The day of one time at the hour of another.
AtHour(date, hour) == (date \div DAY) * DAY + (hour % DAY)

\* The dates an update gives an event, and the rows of its infos afterwards.
NewPeriod(old, body) == Or(body.period, old.period)
NewStart(old, body) ==
  IF body.start = NONE THEN old.start
  ELSE IF body.change \/ NewPeriod(old, body) = "NO_PERIOD" THEN body.start
  ELSE AtHour(old.start, body.start)
\* An event without a period keeps the end its row has unless another is asked for.
NewEnd(old, body, kept) ==
  IF NewPeriod(old, body) = "NO_PERIOD" THEN Or(body.end, kept)
  ELSE getLastEndDate(Or(body.end, old.end), NewPeriod(old, body))
LastIndex(old, body) ==
  getEndIndex(NewStart(old, body), NewEnd(old, body, old.end), NewPeriod(old, body))
\* The difference is taken between the last index and the number of infos: of the rows
\* an event lacks one too few is added.
AddedInfos(old, body) ==
  IF NewPeriod(old, body) = "NO_PERIOD" THEN {}
  ELSE Cardinality(old.infos)..(LastIndex(old, body) - 1)
KeepsInfo(i, old, body) ==
  IF NewPeriod(old, body) = "NO_PERIOD" THEN i = 0
  ELSE LastIndex(old, body) < Cardinality(old.infos) => i <= LastIndex(old, body)

\* The event as the code has changed it in memory when it looks for the info's index.
InMemory(old, body) ==
  [old EXCEPT
     !.start = IF body.change \/ NewPeriod(old, body) = "NO_PERIOD" THEN @ ELSE NewStart(old, body),
     !.end = IF body.end = NONE THEN NewEnd(old, body, @) ELSE @]
MayDescribe(old, body, moment) ==
  LET e == InMemory(old, body)
      index == getIndexOfLesson(e, body.week, EndOfWeek(moment, body.week))
  IN body.week # NONE =>
       InWeek(e, body.week) /\ 0 <= index /\ index < Cardinality(old.infos) /\ index \in old.infos

WithLesson(body) == body.discipline # NONE \/ body.type # NONE \/ body.teachers # NONE
Refuses(h) == Goes(h, Idle) /\ Quiet /\ UNCHANGED <<events, rows>>

\* ... and writes it.  An info that was added meanwhile is refused by its key.  What else
\* the request lacks it is told after that.
WriteEvent(h, moment) ==
  LET id == req[h].event
      body == req[h].body
      old == req[h].old
  IN /\ req[h].step = "update"
     /\ IF \/ body.start = NONE /\ body.change
           \/ ~MayDescribe(old, body, moment)
           \/ id \notin DOMAIN events
           \/ AddedInfos(old, body) \cap events[id].infos # {}
        THEN Refuses(h)
        ELSE /\ events' = [events EXCEPT ![id] =
                  [period |-> NewPeriod(old, body), start |-> NewStart(old, body),
                   end |-> NewEnd(old, body, @.end), lessons |-> @.lessons,
                   infos |-> {i \in @.infos : KeepsInfo(i, old, body)} \cup AddedInfos(old, body)]]
             /\ lacking' = IF \/ /\ NewPeriod(old, body) # "NO_PERIOD"
                                 /\ LastIndex(old, body) >= Cardinality(old.infos)
                              \/ events[id].infos # old.infos
                           THEN lacking \cup {id} ELSE lacking
             /\ \E lesson \in First(events[id].lessons) :
                  Goes(h, IF ~WithLesson(body) \/ (lesson = 0 /\ NONE \in {body.discipline, body.type})
                          THEN Idle
                          ELSE [req[h] EXCEPT
                            !.step = IF lesson = 0 THEN "find" ELSE "count",
                            !.present = IF lesson = 0 THEN NONE ELSE Row(lesson),
                            !.discipline = IF body.discipline # NONE THEN body.discipline ELSE Row(lesson).discipline,
                            !.adding = IF body.teachers = NONE THEN << >> ELSE SetToSeq(body.teachers)])
             /\ UNCHANGED <<rows, sent, crossed>>

-----------------------------------------------------------------------------
(* The discipline of an event *)

Taught(id) == {e \in DOMAIN events : id \in events[e].lessons}
\* The discipline as a request reads it: its types, and its teachers with their roles.
Reading(discipline) ==
  [types |-> TypesOf(discipline),
   teachers |-> {[row |-> t, roles |-> RolesOf(t.id)] : t \in TeachersOf(discipline)}]
\* Variant: the roles of a type that went stay.
GoneWithoutRoles(goneTypes, goneTeachers) ==
  /\ types' = {t \in types : t.id \notin goneTypes}
  /\ teachers' = {t \in teachers : t.id \notin goneTeachers}
  /\ roles' = {r \in roles : r.dt \notin goneTeachers}
  /\ events' = [e \in DOMAIN events |-> [events[e] EXCEPT !.lessons = @ \ goneTypes]]
  /\ UNCHANGED made
\* What the database takes away with types and with teachers.
Gone(goneTypes, goneTeachers) ==
  /\ types' = {t \in types : t.id \notin goneTypes}
  /\ teachers' = {t \in teachers : t.id \notin goneTeachers}
  /\ roles' = {r \in roles : r.type \notin goneTypes /\ r.dt \notin goneTeachers}
  /\ events' = [e \in DOMAIN events |-> [events[e] EXCEPT !.lessons = @ \ goneTypes]]
  /\ UNCHANGED made
Makes(newTypes, newTeachers, newRoles) ==
  /\ types' = types \cup newTypes /\ teachers' = teachers \cup newTeachers
  /\ roles' = roles \cup newRoles
  /\ made' = IF newTypes \cup newTeachers = {} THEN made ELSE made + 1
  /\ UNCHANGED events

\* clearDiscipline: the type goes when this event is the last one to have it.
CountEvents(h) ==
  /\ req[h].step = "count"
  /\ Reads(h, [req[h] EXCEPT !.step =
       IF Cardinality(Taught(req[h].present.id)) = 1 THEN "ready" ELSE "find"])
ReadToClear(h) ==
  /\ req[h].step = "ready"
  /\ Reads(h, [req[h] EXCEPT !.step = "clear", !.seen = Reading(req[h].present.discipline)])
\* With it go the teachers whose one role was that of the type.
clearDiscipline(h) ==
  LET type == req[h].present
      only == {t \in req[h].seen.teachers :
                 Cardinality(t.roles) = 1 /\ \A r \in t.roles : r.role = RoleOf(type.name)}
      gone == {t \in teachers : \E o \in only :
                 o.row.teacher = t.teacher /\ o.row.discipline = t.discipline}
  IN /\ req[h].step = "clear"
     /\ IF ~Exists(type.id) THEN Fails(h)
        ELSE /\ Gone({type.id}, {t.id : t \in gone}) /\ Quiet
             /\ Goes(h, [req[h] EXCEPT !.step = "find"])

TypeName(r) == IF r.kind = "update" THEN Or(r.body.type, r.present.name) ELSE r.body.type
Named(reading, name) == {t \in reading.types : t.name = name}
\* Variant: those some of whose roles were of the type.
SomeRemovable(reading, type, but) ==
  {t.row.id : t \in {u \in reading.teachers :
     u.row.teacher \notin but /\ \E r \in u.roles : r.type = type}}
\* removeTeachers: those all of whose roles were of the type.
Removable(reading, type, but) ==
  {t.row.id : t \in {u \in reading.teachers :
     u.row.teacher \notin but /\ \A r \in u.roles : r.type = type}}
\* Where a request goes once it has its type.
WithType(r, reading, type) ==
  [r EXCEPT !.type = type, !.seen = NONE,
     !.removing = IF r.kind # "update" THEN << >>
                  ELSE SetToSeq(Removable(reading, type, Range(r.adding))),
     !.step = "remove"]

\* Variant: the type is made without a look for it.
MakeAlways(h) ==
  req[h].step = "find" /\ Reads(h, [req[h] EXCEPT !.step = "type"])
\* attachLesson and prepareDiscipline: the type is found or made ...
FindType(h) ==
  /\ req[h].step = "find"
  /\ LET reading == Reading(req[h].discipline)
         found == Named(reading, TypeName(req[h]))
     IN IF found = {} THEN Reads(h, [req[h] EXCEPT !.step = "type"])
        ELSE \E t \in found : Reads(h, WithType(req[h], reading, t.id))
MakeType(h) ==
  LET new == [id |-> made + 1, discipline |-> req[h].discipline, name |-> TypeName(req[h])]
      reading == [Reading(req[h].discipline) EXCEPT !.types = @ \cup {new}]
  IN /\ req[h].step = "type"
     /\ \E t \in Named(reading, new.name) : Goes(h, WithType(req[h], reading, t.id))
     /\ Makes({new}, {}, {}) /\ Quiet

\* ... the teachers who are not named lose it, one by one ...
removeTeacher(h) ==
  LET id == Head(req[h].removing)
  IN /\ req[h].step = "remove" /\ req[h].removing # << >>
     /\ IF \A t \in teachers : t.id # id THEN Fails(h)
        ELSE /\ Gone({}, {id}) /\ Quiet
             /\ Goes(h, [req[h] EXCEPT !.removing = Tail(@)])
Removed(h) ==
  /\ req[h].step = "remove" /\ req[h].removing = << >>
  /\ Reads(h, [req[h] EXCEPT !.step = IF req[h].kind = "delete" THEN "untype" ELSE "teachers"])

\* ... and those who are named get its role, each found in the discipline or put there.
Proceed(r) == [r EXCEPT !.step = "teachers", !.adding = Tail(@), !.dt = 0]
FindTeacher(h) ==
  LET r == req[h]
      found == {t \in TeachersOf(r.discipline) : t.teacher = Head(r.adding)}
  IN /\ r.step = "teachers" /\ r.adding # << >>
     /\ IF found = {} THEN Reads(h, [r EXCEPT !.step = "join"])
        ELSE \E t \in found :
               IF \E o \in RolesOf(t.id) : o.role = RoleOf(TypeName(r)) THEN Reads(h, Proceed(r))
               ELSE Reads(h, [r EXCEPT !.step = "role", !.dt = t.id])
JoinTeacher(h) ==
  /\ req[h].step = "join"
  /\ Makes({}, {[id |-> made + 1, teacher |-> Head(req[h].adding), discipline |-> req[h].discipline]}, {})
  /\ Goes(h, [req[h] EXCEPT !.step = "role", !.dt = made + 1]) /\ Quiet
GiveRole(h) ==
  LET role == [dt |-> req[h].dt, type |-> req[h].type, role |-> RoleOf(TypeName(req[h]))]
  IN /\ req[h].step = "role"
     /\ IF role \in roles \/ ~Exists(role.type) \/ \A t \in teachers : t.id # role.dt THEN Fails(h)
        ELSE Makes({}, {}, {role}) /\ Goes(h, Proceed(req[h])) /\ Quiet

SetLessons(h, id, others) ==
  IF req[h].event \notin DOMAIN events \/ ~Exists(id) \/ id \in others THEN Fails(h)
  ELSE /\ events' = [events EXCEPT ![req[h].event].lessons = {id} \cup others]
       /\ Goes(h, Idle) /\ Quiet /\ UNCHANGED rows
\* The lesson of a new event, beside one that it was given meanwhile.
attachLesson(h) ==
  /\ req[h].step = "teachers" /\ req[h].adding = << >> /\ req[h].kind = "create"
  /\ SetLessons(h, req[h].type,
       IF req[h].event \in DOMAIN events THEN events[req[h].event].lessons ELSE {})
\* updateDiscipline returns the discipline; the type is looked for in it once more.
updateDiscipline(h) ==
  /\ req[h].step = "teachers" /\ req[h].adding = << >> /\ req[h].kind = "update"
  /\ Reads(h, [req[h] EXCEPT !.step = "lesson", !.seen = Reading(req[h].discipline)])
ReplaceLesson(h) ==
  LET found == Named(req[h].seen, TypeName(req[h]))
  IN /\ req[h].step = "lesson"
     /\ IF found = {} THEN Fails(h) ELSE \E t \in found : SetLessons(h, t.id, {})

\* deleteEvent: unless another event has the type, it goes with those who have only it.
FindTarget(h) ==
  /\ req[h].step = "target"
  /\ Reads(h, IF Taught(req[h].present.id) # {} THEN Idle ELSE [req[h] EXCEPT !.step = "read"])
ReadToDelete(h) ==
  /\ req[h].step = "read"
  /\ Reads(h, [req[h] EXCEPT !.step = "remove",
       !.removing = SetToSeq(Removable(Reading(req[h].discipline), req[h].present.id, {}))])
DeleteType(h) ==
  /\ req[h].step = "untype"
  /\ IF ~Exists(req[h].present.id) THEN Fails(h)
     ELSE Gone({req[h].present.id}, {}) /\ Goes(h, Idle) /\ Quiet

-----------------------------------------------------------------------------
(* Teachers put in disciplines by hand *)

\* create reads the discipline at once, updateById once the teacher was found in it; ...
create(h, teacher, discipline, names) ==
  /\ ~Working(h) /\ Begins
  /\ Goes(h, [Idle EXCEPT !.step = "name", !.kind = "hand", !.body = teacher, !.present = {},
              !.discipline = discipline, !.adding = names, !.seen = Reading(discipline)])
  /\ UNCHANGED <<events, rows, lacking>>
updateById(h, t, names) ==
  /\ ~Working(h) /\ Begins
  /\ Goes(h, [Idle EXCEPT !.step = "staff", !.kind = "hand", !.dt = t.id, !.present = {},
              !.discipline = t.discipline, !.adding = names])
  /\ UNCHANGED <<events, rows, lacking>>
ReadToAppoint(h) ==
  /\ req[h].step = "staff"
  /\ IF \A t \in teachers : t.id # req[h].dt THEN Fails(h)
     ELSE Reads(h, [req[h] EXCEPT !.step = "name", !.seen = Reading(req[h].discipline)])
\* ... they make the types it lacks, one by one, and fail on a role that has none, ...
NameType(h) ==
  LET r == req[h]
      new == [id |-> made + 1, discipline |-> r.discipline, name |-> Head(r.adding)]
      found == Named(r.seen, new.name)
      Given(id) == [r EXCEPT !.adding = Tail(@), !.present = @ \cup {<<id, RoleOf(new.name)>>}]
  IN /\ r.step = "name" /\ r.adding # << >>
     /\ IF RoleOf(new.name) = "OTHER" THEN Fails(h)
        ELSE IF found = {}
        THEN LET reading == [Reading(r.discipline) EXCEPT !.types = @ \cup {new}]
             IN /\ \E t \in Named(reading, new.name) : Goes(h, [Given(t.id) EXCEPT !.seen = reading])
                /\ Makes({new}, {}, {}) /\ Quiet
        ELSE \E t \in found : Reads(h, Given(t.id))
\* ... and write the teacher with his roles, or the roles in place of those he had.
Appoint(h) ==
  LET r == req[h]
      id == IF r.dt = 0 THEN made + 1 ELSE r.dt
      given == {[dt |-> id, type |-> g[1], role |-> g[2]] : g \in r.present}
  IN /\ r.step = "name" /\ r.adding = << >>
     /\ IF (\E g \in given : ~Exists(g.type)) \/ (r.dt # 0 /\ \A t \in teachers : t.id # r.dt)
        THEN Fails(h)
        ELSE /\ roles' = (roles \ RolesOf(id)) \cup given
             /\ IF r.dt # 0 THEN UNCHANGED <<teachers, made, crossed>>
                ELSE /\ teachers' = teachers \cup {[id |-> id, teacher |-> r.body, discipline |-> r.discipline]}
                     /\ made' = id
                     /\ crossed' = (crossed \/ \E t \in TeachersOf(r.discipline) : t.teacher = r.body)
             /\ Goes(h, Idle) /\ UNCHANGED <<events, types, sent, lacking>>
\* updateByTeacherAndDiscipline looks for the row, and puts one there when there is none.
updateByTeacherAndDiscipline(h, teacher, discipline, names) ==
  LET found == {t \in TeachersOf(discipline) : t.teacher = teacher}
  IN /\ ~Working(h)
     /\ IF found # {} THEN \E t \in found : updateById(h, t, names)
        ELSE /\ Begins /\ UNCHANGED <<events, rows, lacking>>
             /\ Goes(h, [Idle EXCEPT !.step = "put", !.kind = "hand", !.body = teacher, !.present = {},
                         !.discipline = discipline, !.adding = names])
PutTeacher(h) ==
  /\ req[h].step = "put"
  /\ Makes({}, {[id |-> made + 1, teacher |-> req[h].body, discipline |-> req[h].discipline]}, {})
  /\ Goes(h, [req[h] EXCEPT !.step = "staff", !.dt = made + 1]) /\ Quiet
\* deleteById, which deleteByTeacherAndDiscipline calls with the row it found.
deleteById(h, t) ==
  /\ ~Working(h) /\ Begins /\ Gone({}, {t.id}) /\ UNCHANGED <<req, lacking>>

\* The server stops.
Stop ==
  /\ \E h \in Handlers : Working(h)
  /\ req' = [h \in Handlers |-> Idle] /\ crossed' = TRUE
  /\ UNCHANGED <<events, rows, sent, lacking>>

Step(h) ==
  \/ \E id \in EventIds, body \in CreateBodies : createGroupEvent(h, id, body)
  \/ \E id \in DOMAIN events : deleteEvent(h, id)
  \/ \E id \in DOMAIN events, body \in UpdateBodies : updateEvent(h, id, body)
  \/ \E moment \in Moments : WriteEvent(h, moment)
  \/ CountEvents(h) \/ ReadToClear(h) \/ clearDiscipline(h)
  \/ FindType(h) \/ MakeType(h) \/ removeTeacher(h) \/ Removed(h)
  \/ FindTeacher(h) \/ JoinTeacher(h) \/ GiveRole(h)
  \/ attachLesson(h) \/ updateDiscipline(h) \/ ReplaceLesson(h)
  \/ FindTarget(h) \/ ReadToDelete(h) \/ DeleteType(h)
  \/ \E teacher \in Teachers, discipline \in Disciplines, names \in Staff :
       \/ create(h, teacher, discipline, names)
       \/ updateByTeacherAndDiscipline(h, teacher, discipline, names)
  \/ \E t \in teachers :
       \/ deleteById(h, t)
       \/ \E names \in Staff : updateById(h, t, names)
  \/ PutTeacher(h) \/ ReadToAppoint(h) \/ NameType(h) \/ Appoint(h)

Next == Stop \/ \E h \in Handlers : Step(h)

Spec == Init /\ [][Next]_vars

-----------------------------------------------------------------------------
(* Properties *)

\* Every row has its columns and the rows it refers to, a role is of a type and a teacher
\* of one discipline, and ids are given once (schema.prisma:181-231, 373-384).
TypeOK ==
  /\ DOMAIN events \subseteq EventIds
  /\ \A e \in DOMAIN events :
       /\ events[e].period \in Periods
       /\ events[e].start \in Int /\ events[e].end \in Int /\ events[e].infos \subseteq Nat
       /\ \A id \in events[e].lessons : Exists(id)
  /\ \A t \in types : t.id \in 1..made /\ t.discipline \in Disciplines /\ t.name \in TypeNames
  /\ \A t \in teachers : t.id \in 1..made /\ t.teacher \in Teachers /\ t.discipline \in Disciplines
  /\ \A r \in roles : \E s \in types, t \in teachers :
       s.id = r.type /\ t.id = r.dt /\ s.discipline = t.discipline
  /\ \A s, t \in types : s.id = t.id => s = t
  /\ \A s, t \in teachers : s.id = t.id => s = t

Weeks == 1..Ceil(semester.endDate - semester.startDate, WEEK)

\* Its last occurrence is on the day of the week of the first and ends after it starts.  An
\* update that keeps the day of the start takes the day of the end as it is sent, and one
\* in the last fortnight gives an end before the start.  A lesson of no length, which no
\* check refuses, has an info too few.
Regular(e) ==
  /\ e.start <= e.end /\ getCurrentDay(e.start) = getCurrentDay(e.end)
  /\ e.start % DAY < e.end % DAY

\* An event takes place at least once, and an info is there for each time it does, but for
\* one that an update gave more occurrences (it lacks an info) or that two updates
\* wrote at once
\* (ScheduleService.ts:169-219, 281-296, 458-468, 540-560).
OccurrencesKept ==
  \A id \in DOMAIN events :
    LET e == events[id]
    IN Regular(e) =>
         /\ \E w \in Weeks : InWeek(e, w)
         /\ e.period # "NO_PERIOD" /\ id \notin lacking =>
              \A w \in Weeks : InWeek(e, w) => eventInfoIndex(e, w) \in e.infos

\* Whenever in the semester it is asked for, the page of a week shows every event that
\* takes place then, at a time in that week, on one of its days, and no fortnightly event
\* twice in two weeks; and the info that an update of the week writes is the one that the
\* event's page shows.  The page asked for without a week shows, of what takes place in the
\* present one, all but the fortnightly events; of the dates of those on it nothing is said,
\* for the code spoils them (ScheduleService.ts:56-72, 134-184, 316-352, 520-539, 666-672).
PagesAgree ==
  \A now \in Moments, week \in Weeks :
    LET listed == getAllGroupEvents(now, week)
        two == getFortnightEvents(now, week)
    IN /\ \A id \in DOMAIN events : InWeek(events[id], week) => id \in listed
       /\ \A id \in listed :
            Cardinality({day \in 1..7 : id \in getGroupEventsByDay(listed, now, week, day)}) = 1
       /\ \A id \in two[1] \cap two[2] : events[id].period # "EVERY_FORTNIGHT"
       /\ \A id \in listed : LET e == events[id] IN
            /\ Regular(e) /\ e.period # "NO_PERIOD" =>
                 LET time == setWeekTime(e, week)
                 IN /\ StartOfWeek(now, week) <= time.start /\ time.start <= time.end
                    /\ time.end <= EndOfWeek(now, week)
            /\ getIndexOfLesson(e, week, EndOfWeek(now, week)) = eventInfoIndex(e, week)
       /\ week = getCurrentWeek(now) =>
            \A id \in DOMAIN events : InWeek(events[id], week) =>
              (id \in getAllGroupEventsNow(now) <=> events[id].period # "EVERY_FORTNIGHT")

\* Without requests that cross or stop midway a discipline has no type and no teacher
\* twice (ScheduleService.ts:221-257, 631-664).
NoTwins ==
  ~crossed =>
    /\ \A s, t \in types : s.discipline = t.discipline /\ s.name = t.name => s = t
    /\ \A s, t \in teachers : s.discipline = t.discipline /\ s.teacher = t.teacher => s = t

\* Without requests that cross, a teacher leaves a discipline at the request of an event,
\* and the answers about him with him, only when nothing was left of his roles there but
\* one of the type that the event lost or kept others for, or the role OTHER when that type
\* gives it too: consultations and workouts share it, and the last event of either takes
\* those with it who teach the other (ScheduleService.ts:405-411, 588-629, 650-651).
LeftFor(r, lost) ==
  /\ lost # NONE
  /\ r.type = lost.id \/ (r.role = "OTHER" /\ RoleOf(lost.name) = "OTHER")
TeachersKept ==
  [][~crossed' =>
      \A t \in teachers \ teachers', h \in Handlers : Working(h) =>
        \A r \in roles : r.dt = t.id =>
          LeftFor(r, req[h].present) \/ r.type = req[h].type]_vars
=============================================================================
