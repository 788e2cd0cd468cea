----------------------------- MODULE MCSchedule -----------------------------
(* Values of the constants of Schedule for TLC. *)
EXTENDS Schedule, TLC

\* A semester of seven weeks from a Monday; the one before is long over.
Monday == 2 * WEEK
MCSemesterDates ==
  {[year |-> 2022, semester |-> 1, startDate |-> 0, endDate |-> WEEK],
   [year |-> 2022, semester |-> 2, startDate |-> Monday, endDate |-> Monday + 7 * WEEK - 1]}
MCMoments == {Monday + 1, Monday + 5 * WEEK + 6 * DAY}

\* A lesson of one third of a day on a day of a week, both counted from 0.
Dates(week, day) == [start |-> Monday + week * WEEK + day * DAY + 1, end |-> Monday + week * WEEK + day * DAY + 2]
Lesson(period, dates, discipline, type, staff) ==
  [period |-> period, start |-> dates.start, end |-> dates.end, discipline |-> discipline,
   type |-> type, teachers |-> staff]
\* Events of every period at either end of the semester, and two with a discipline.
MCCreateBodies ==
  {Lesson(p, Dates(w[1], w[2]), NONE, NONE, {}) : p \in Periods, w \in {<<0, 0>>, <<1, 6>>, <<5, 3>>}}
    \cup {Lesson("EVERY_WEEK", Dates(1, 1), "d1", type, {"t1", "t2"}) : type \in {"LECTURE", "WORKOUT"}}
Change(period, dates, change, week, discipline, type, staff) ==
  [period |-> period, start |-> dates.start, end |-> dates.end, change |-> change, week |-> week,
   discipline |-> discipline, type |-> type, teachers |-> staff]
Same == [start |-> NONE, end |-> NONE]
MCUpdateBodies ==
  {Change(p, d, c, NONE, NONE, NONE, NONE) : p \in Periods, d \in {Dates(0, 4), Dates(3, 0)}, c \in BOOLEAN}
    \cup {Change(p, Same, FALSE, w, NONE, NONE, NONE) : p \in {NONE, "EVERY_FORTNIGHT"}, w \in {NONE, 2, 3}}
    \cup {Change(NONE, Same, FALSE, NONE, d, type, staff) :
            d \in {NONE, "d2"}, type \in {NONE, "LECTURE", "CONSULTATION"}, staff \in {NONE, {"t2"}}}

\* The last is a teacher of other things, which is refused once his lectures are there.
MCStaff == {<<"PRACTICE", "LECTURE">>, << >>, <<"LECTURE", "WORKOUT">>}

MCFirstEvents ==
  [e \in {"e1"} |-> [period |-> "EVERY_FORTNIGHT", start |-> Dates(0, 1).start, end |-> Dates(4, 1).end,
                     infos |-> 0..2, lessons |-> {1}]]
\* One teaches consultations, whose role is that of the workouts; the other both kinds.
MCFirstTypes ==
  {[id |-> 1, discipline |-> "d1", name |-> "WORKOUT"], [id |-> 2, discipline |-> "d1", name |-> "CONSULTATION"],
   [id |-> 5, discipline |-> "d1", name |-> "LECTURE"]}
MCFirstTeachers == {[id |-> 3, teacher |-> "t1", discipline |-> "d1"], [id |-> 4, teacher |-> "t2", discipline |-> "d1"]}
MCFirstRoles ==
  {[dt |-> 3, type |-> 2, role |-> "OTHER"], [dt |-> 4, type |-> 1, role |-> "OTHER"],
   [dt |-> 4, type |-> 5, role |-> "LECTURER"]}
Symmetry == Permutations(Handlers)
=============================================================================
