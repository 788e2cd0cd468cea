------------------------------ MODULE Selective ------------------------------
(***************************************************************************)
(* Which selective disciplines a student has chosen: selectDisciplines,    *)
(* deselectDisciplines, changeGroup and putSelective of UserService, split *)
(* at their awaits.  A discipline belongs to a group, has a subject and a  *)
(* period (year and semester), and each group has an amount of selective   *)
(* disciplines per period.  How a student comes into a group is abridged   *)
(* here to one step per endpoint; Membership has the steps.                *)
(***************************************************************************)
EXTENDS Integers, FiniteSets

CONSTANTS
  Students, Groups, Subjects, Periods,
  Ids,          \* ids of disciplines, in use or to come
  Catalogue,    \* the disciplines at the beginning
  Amount,       \* selective_amounts; a missing row is 0, which refuses as well
  Home,         \* each student's group at the beginning
  Files,        \* the subjects and periods the selective/<year>.csv files list per student
  MaxAsked,     \* disciplines one request may name (only for the checker)
  Handlers,     \* requests that can be in progress at the same time
  None          \* no discipline

Row(g, subject, p, selective) ==
  [group |-> g, subject |-> subject, period |-> p, selective |-> selective]
Rows == [group : Groups, subject : Subjects, period : Periods, selective : BOOLEAN]

ASSUME SelectiveAssumption ==
  /\ None \notin Rows
  /\ IsFiniteSet(Ids)
  /\ Catalogue \in [Ids -> Rows \cup {None}]
  /\ Amount \in [Groups -> [Periods -> Nat]]
  /\ Home \in [Students -> Groups]
  /\ Files \in [Students -> SUBSET (Subjects \X Periods)]

VARIABLES
  discipline,  \* disciplines, by id
  chosen,      \* selective_disciplines: what each student has chosen
  member,      \* each student's group and state
  req,         \* the request each handler is serving
  events       \* what has happened to a student (only for the properties):
               \* "cross": a request began while another was busy with him, or
               \*          with a move when it was a move itself,
               \* "moved": he asked for another group with disciplines chosen,
               \* "file":  disciplines were put from a file

vars == <<discipline, chosen, member, req, events>>

States == {"PENDING", "APPROVED", "DECLINED"}
Asked ==
  [op : {"select", "deselect", "change", "put"},
   pc : {"group?", "chosen?", "attach", "detach", "new?", "clear", "create", "move", "put"},
   s : Students, g : Groups, ids : SUBSET Ids, todo : SUBSET Rows, bot : BOOLEAN]
Idle == [pc |-> "idle"]
Request == Asked \cup {Idle}

Busy(h) == req[h] # Idle
At(h, pc) == req[h].pc = pc
Exists(i) == discipline[i] # None

\* The ids of a set that are of a period, as getSortedDisciplinesByPeriod sorts them.
InPeriod(ids, p) == {i \in ids : discipline[i].period = p}

\* getSelectiveDisciplines of a group.
SelectiveOf(g) == {i \in Ids : Exists(i) /\ discipline[i].group = g /\ discipline[i].selective}

Init ==
  /\ discipline = Catalogue
  /\ chosen = [s \in Students |-> {}]
  /\ member = [s \in Students |-> [group |-> Home[s], state |-> "PENDING"]]
  /\ req = [h \in Handlers |-> Idle]
  /\ events = [s \in Students |-> {}]

Go(h, r) == req' = [req EXCEPT ![h] = r]
Done(h) == Go(h, Idle)

\* Who is in the way of a request of this kind for s.
Crossed(op, s) ==
  {t \in Students : \E g \in Handlers :
     /\ Busy(g)
     /\ t \in {s, req[g].s}
     /\ req[g].s = s \/ (op = "change" /\ req[g].op = "change")}

\* Where the group is still to be read, g is arbitrary.
Begin(h, r) ==
  /\ ~Busy(h)
  /\ Go(h, r)
  /\ events' = [t \in Students |-> events[t] \cup
                   (IF t \in Crossed(r.op, r.s) THEN {"cross"} ELSE {})]

-----------------------------------------------------------------------------
(* Choosing                                                                *)

\* StudentPipe and SelectiveDisciplinesPipe, then the handler.
Ask(h, op, s, ids) ==
  /\ member[s].state = "APPROVED"
  /\ ids # {} /\ Cardinality(ids) <= MaxAsked
  /\ \A i \in ids : Exists(i) /\ discipline[i].selective
  /\ Begin(h, [op |-> op, pc |-> "group?", s |-> s, g |-> Home[s], ids |-> ids,
               todo |-> {}, bot |-> FALSE])
  /\ UNCHANGED <<discipline, chosen, member>>

\* Variant: one of them is enough.
BelongSome(ids, g) == \E i \in ids : discipline[i].group = g

\* checkDisciplinesBelongToGroup.
Belong(ids, g) == \A i \in ids : discipline[i].group = g

\* The group is read after the pipe; putSelective reads it to look for its disciplines.
ReadGroup(h) ==
  /\ At(h, "group?")
  /\ LET g == member[req[h].s].group IN
     \/ /\ req[h].op = "put"
        /\ Go(h, [req[h] EXCEPT !.pc = "put",
                    !.todo = {Row(g, f[1], f[2], TRUE) : f \in Files[req[h].s]}])
     \/ /\ req[h].op # "put"
        /\ Go(h, IF Belong(req[h].ids, g) THEN [req[h] EXCEPT !.pc = "chosen?", !.g = g]
                 ELSE Idle)
  /\ UNCHANGED <<discipline, chosen, member, events>>

\* Variant: what is chosen already is not counted.
FitsAlone(g, old, ids) ==
  \A p \in Periods :
    InPeriod(ids, p) # {} => Cardinality(InPeriod(ids, p)) <= Amount[g][p]

\* Variant: the last place is never given.
FitsStrictly(g, old, ids) ==
  \A p \in Periods :
    InPeriod(ids, p) # {} =>
      Cardinality(InPeriod(ids, p)) + Cardinality(InPeriod(old, p)) < Amount[g][p]

\* checkExcessiveSelectiveDisciplines looks at the periods asked for.
Fits(g, old, ids) ==
  \A p \in Periods :
    InPeriod(ids, p) # {} =>
      Cardinality(InPeriod(ids, p)) + Cardinality(InPeriod(old, p)) <= Amount[g][p]

Accepts(g, old, ids) == ids \cap old = {} /\ Fits(g, old, ids)

ReadChosen(h) ==
  /\ At(h, "chosen?")
  /\ LET old == chosen[req[h].s] IN
     \/ /\ req[h].op = "select"
        /\ Go(h, IF Accepts(req[h].g, old, req[h].ids)
                 THEN [req[h] EXCEPT !.pc = "attach"] ELSE Idle)
     \/ /\ req[h].op = "deselect"
        /\ Go(h, IF req[h].ids \subseteq old THEN [req[h] EXCEPT !.pc = "detach"] ELSE Idle)
     \/ /\ req[h].op = "change"
        /\ Go(h, [req[h] EXCEPT !.pc = "new?", !.ids = old])
  /\ UNCHANGED <<discipline, chosen, member, events>>

\* createMany stores all rows or, when one is there already, none.
Attach(h) ==
  /\ At(h, "attach")
  /\ LET s == req[h].s IN
     chosen' = IF req[h].ids \cap chosen[s] = {}
               THEN [chosen EXCEPT ![s] = @ \cup req[h].ids] ELSE chosen
  /\ Done(h)
  /\ UNCHANGED <<discipline, member, events>>

Detach(h) ==
  /\ At(h, "detach")
  /\ chosen' = [chosen EXCEPT ![req[h].s] = @ \ req[h].ids]
  /\ Done(h)
  /\ UNCHANGED <<discipline, member, events>>

-----------------------------------------------------------------------------
(* Moving to another group                                                 *)

ChangeGroup(h, s, g) ==
  /\ member[s].state = "APPROVED"
  /\ Begin(h, [op |-> "change", pc |-> "chosen?", s |-> s, g |-> g, ids |-> {},
               todo |-> {}, bot |-> FALSE])
  /\ UNCHANGED <<discipline, chosen, member>>

\* Variant: what the new group has is not looked at.
MissingAll(ids, g) == {Row(g, discipline[i].subject, discipline[i].period, TRUE) : i \in ids}

\* Variant: the semester is forgotten.
MissingUndated(ids, g) == {Row(g, discipline[i].subject, None, TRUE) : i \in ids}

\* What the new group has no selective discipline for, whatever the period.
Missing(ids, g) ==
  {Row(g, discipline[i].subject, discipline[i].period, TRUE) :
     i \in {j \in ids : \A k \in SelectiveOf(g) : discipline[k].subject # discipline[j].subject}}

ReadNew(h) ==
  /\ At(h, "new?")
  /\ Go(h, [req[h] EXCEPT !.pc = "clear", !.todo = Missing(req[h].ids, req[h].g), !.ids = {}])
  /\ UNCHANGED <<discipline, chosen, member, events>>

\* deleteStudentSelective.
Clear(h) ==
  /\ At(h, "clear")
  /\ chosen' = [chosen EXCEPT ![req[h].s] = {}]
  /\ Go(h, [req[h] EXCEPT !.pc = "create"])
  /\ UNCHANGED <<discipline, member, events>>

\* createSelective, one by one; then the group is written, unless the role the same
\* update names is gone (see Membership).
Create(h) ==
  /\ At(h, "create")
  /\ \/ /\ req[h].todo = {}
        /\ Go(h, [req[h] EXCEPT !.pc = "move"])
        /\ UNCHANGED discipline
     \/ \E row \in req[h].todo, i \in Ids :
          /\ ~Exists(i)
          /\ discipline' = [discipline EXCEPT ![i] = row]
          /\ Go(h, [req[h] EXCEPT !.todo = @ \ {row}])
  /\ UNCHANGED <<chosen, member, events>>

Move(h) ==
  /\ At(h, "move")
  /\ \/ member' = [member EXCEPT ![req[h].s].group = req[h].g]
     \/ UNCHANGED member
  /\ Done(h)
  /\ UNCHANGED <<discipline, chosen, events>>

-----------------------------------------------------------------------------
(* Verification puts what the files list                                   *)

\* The bot's answer writes the state at the end, the captain's at the beginning.
Approve(h, s, bot) ==
  /\ member[s].state = "PENDING"
  /\ Begin(h, [op |-> "put", pc |-> "group?", s |-> s, g |-> Home[s], ids |-> {},
               todo |-> {}, bot |-> bot])
  /\ member' = IF bot THEN member ELSE [member EXCEPT ![s].state = "APPROVED"]
  /\ UNCHANGED <<discipline, chosen>>

\* One row after the other; a discipline the group does not have is only reported.
\* The bot may refuse the message that comes before the state.
Put(h) ==
  /\ At(h, "put")
  /\ LET s == req[h].s IN
     \/ /\ req[h].todo = {}
        /\ \/ req[h].bot /\ member' = [member EXCEPT ![s].state = "APPROVED"]
           \/ UNCHANGED member
        /\ Done(h)
        /\ UNCHANGED <<discipline, chosen, events>>
     \/ \E row \in req[h].todo :
          /\ LET found == {i \in Ids : discipline[i] = row} IN
             \/ found = {} /\ UNCHANGED <<chosen, events>>
             \/ \E i \in found :
                  /\ chosen' = [chosen EXCEPT ![s] = @ \cup {i}]
                  /\ events' = [events EXCEPT ![s] = @ \cup {"file"}]
          /\ Go(h, [req[h] EXCEPT !.todo = @ \ {row}])
          /\ UNCHANGED <<discipline, member>>

\* leaveGroup and removeStudent: what was chosen stays.
Leave(s) ==
  /\ member[s].state = "APPROVED"
  /\ member' = [member EXCEPT ![s].state = "DECLINED"]
  /\ UNCHANGED <<discipline, chosen, req, events>>

\* requestNewGroup: what was chosen stays here too.
RequestNewGroup(s, g) ==
  /\ member[s].state # "APPROVED"
  /\ member' = [member EXCEPT ![s] = [group |-> g, state |-> "PENDING"]]
  /\ events' = [events EXCEPT ![s] = @ \cup (IF chosen[s] # {} THEN {"moved"} ELSE {})
                                      \cup (IF Crossed("request", s) # {} THEN {"cross"} ELSE {})]
  /\ UNCHANGED <<discipline, chosen, req>>

-----------------------------------------------------------------------------
Continue(h) ==
  \/ ReadGroup(h) \/ ReadChosen(h) \/ Attach(h) \/ Detach(h)
  \/ ReadNew(h) \/ Clear(h) \/ Create(h) \/ Move(h) \/ Put(h)

Next ==
  \/ \E h \in Handlers, s \in Students :
       \/ \E op \in {"select", "deselect"}, ids \in SUBSET Ids : Ask(h, op, s, ids)
       \/ \E g \in Groups : ChangeGroup(h, s, g)
       \/ \E bot \in BOOLEAN : Approve(h, s, bot)
  \/ \E h \in Handlers : Continue(h)
  \/ \E s \in Students : Leave(s) \/ (\E g \in Groups : RequestNewGroup(s, g))

Spec == Init /\ [][Next]_vars

-----------------------------------------------------------------------------
(* Properties                                                              *)

\* The types of the variables.
TypeOK ==
  /\ discipline \in [Ids -> Rows \cup {None}]
  /\ chosen \in [Students -> SUBSET {i \in Ids : Exists(i)}]
  /\ member \in [Students -> [group : Groups, state : States]]
  /\ req \in [Handlers -> Request]
  /\ events \in [Students -> SUBSET {"cross", "moved", "file"}]

Undisturbed(s) == events[s] \cap {"cross", "moved"} = {}

\* "Discipline does not belong to this group": unless requests for a student crossed or
\* he went to another group by asking for it, all he has chosen is of his group.
OwnGroup ==
  \A s \in Students : Undisturbed(s) =>
    \A i \in chosen[s] : discipline[i].group = member[s].group

\* What requests in progress name exists.
Known == \A h \in Handlers : Busy(h) => \A i \in req[h].ids : Exists(i)

\* Two requests for one student are remembered as crossing.
Alone ==
  \A g, h \in Handlers :
    Busy(g) /\ Busy(h) /\ req[g].s = req[h].s /\ g # h => "cross" \in events[req[h].s]

\* What a request is about to store is of the student's group still, and who is about
\* to move has nothing.
Ready(r) ==
  /\ r.pc = "attach" \/ (r.pc = "chosen?" /\ r.op # "change")
     => Belong(r.ids, member[r.s].group)
  /\ r.pc = "put" => \A row \in r.todo : row.group = member[r.s].group
  /\ r.pc \in {"create", "move"} => chosen[r.s] = {}

InHand == \A h \in Handlers : Busy(h) /\ Undisturbed(req[h].s) => Ready(req[h])

\* Why what is chosen stays in the group.
ChoiceInv == OwnGroup /\ Known /\ Alone /\ InHand

\* "There are excessive selective disciplines in the request": under the same
\* conditions, and with none put from a file, no more than the amount of the group.
WithinAmount ==
  \A s \in Students, p \in Periods : events[s] = {} =>
    Cardinality(InPeriod(chosen[s], p)) <= Amount[member[s].group][p]

\* What getRemainingSelective offers for a period.
Available(s, p) == Amount[member[s].group][p] - Cardinality(InPeriod(chosen[s], p))
Remaining(s, p) == InPeriod(SelectiveOf(member[s].group), p) \ chosen[s]

\* The page and the endpoint agree, whatever happened before: a set of disciplines of
\* one period is accepted just when they are offered and as many are available.  The
\* page shows the periods that have begun, so Periods are those here.
OfferedAccepted ==
  \A s \in Students, p \in Periods :
    \A ids \in (SUBSET InPeriod({i \in Ids : Exists(i) /\ discipline[i].selective}, p)) \ {{}} :
      (Belong(ids, member[s].group) /\ Accepts(member[s].group, chosen[s], ids))
      <=> (ids \subseteq Remaining(s, p) /\ Cardinality(ids) <= Available(s, p))

\* Moving students does not give a group a selective discipline twice, unless moves
\* crossed or somebody took along disciplines of another group.
NoTwins ==
  (\A s \in Students : Undisturbed(s)) =>
    \A i, j \in Ids : Exists(i) /\ discipline[i] = discipline[j] => i = j
=============================================================================
