-------------------------- MODULE Membership_proofs --------------------------
(***************************************************************************)
(* A student has one role at most, in the group he belongs to unless his   *)
(* registration has moved him, and no removal takes a captain's role,      *)
(* however many requests that move roles about cross; with requests one    *)
(* after another the groups are in order between them.  For any number of  *)
(* students and groups.                                                    *)
(***************************************************************************)
EXTENDS Membership, FiniteSetTheorems, TLAPS

\* What an operation has at hand when it comes to use it.
Ready(r) ==
  /\ r.pc # "idle" => r.s \in Students
  /\ r.pc \in {"captain?", "give", "write", "move", "account", "regroup"} => r.g \in Groups
  /\ r.op \in {"change", "request", "verifyGroup"} => r.g \in Groups
  /\ r.pc \in {"role?", "promote?"} => r.op \in {"switch", "captain", "remove", "leave", "change"}
  /\ r.pc = "oldCaptain?" => r.op = "captain" /\ r.g \in Groups
  /\ r.pc = "approved?" => r.op = "leave"
  /\ r.pc = "set" => r.op \in {"switch", "captain"}
  /\ r.pc = "move" => r.op = "change"
  /\ r.pc \in {"set", "rank?", "take", "move"} => r.row \in RoleRow /\ r.row.student = r.s

Typed == TypeOK /\ NoOrphans /\ \A h \in Handlers : Ready(req[h])

\* The state space is rebuilt from the new rows and the new request.
LEMMA StepTyped ==
  ASSUME Typed, NEW h \in Handlers, NEW r \in Request, Go(h, r), Ready(r),
         student' \in [Students -> StudentRow], roles' \subseteq RoleRow, NoOrphans',
         strayed' = strayed
  PROVE  Typed'
BY DEF Typed, TypeOK, Go, Ready

\* The same when the tables stay.
LEMMA FrameTyped ==
  ASSUME Typed, NEW h \in Handlers, NEW r \in Request, Go(h, r), Ready(r), Frame
  PROVE  Typed'
BY DEF Typed, TypeOK, Go, Ready, Frame, NoOrphans, Here

\* A student who is there is in a group.
LEMMA HereInGroup ==
  ASSUME TypeOK, NEW s \in Students, Here(s)
  PROVE  student[s] \in [group : Groups, state : States, pseudo : BOOLEAN]
BY DEF TypeOK, StudentRow, Here, States

\* Nobody who was there goes when his row changes its columns only.
LEMMA ColumnsTyped ==
  ASSUME Typed, NEW s \in Students, Here(s),
         NEW g \in Groups, NEW st \in States,
         student' = [student EXCEPT ![s].state = st, ![s].group = g]
  PROVE  /\ student' \in [Students -> StudentRow]
         /\ \A t \in Students : Here(t) => Here(t)'
<1>1. student[s] \in [group : Groups, state : States, pseudo : BOOLEAN]
  BY HereInGroup DEF Typed
<1>2. student'[s] = [student[s] EXCEPT !.state = st, !.group = g]
  BY DEF Typed, TypeOK
<1>3. student'[s] \in [group : Groups, state : States, pseudo : BOOLEAN]
  BY <1>1, <1>2, ZenonT(60)
<1> QED BY <1>3 DEF Typed, TypeOK, StudentRow, Here

\* Every step keeps the types.
LEMMA TypesKept == Typed /\ [Next]_vars => Typed'
<1> SUFFICES ASSUME Typed, [Next]_vars PROVE Typed'
  OBVIOUS
<1> USE MembershipAssumption
<1>i. Idle \in Request /\ Ready(Idle)
  BY DEF Idle, Request, Ready, AllOps, Names, States
<1>t. /\ student \in [Students -> StudentRow] /\ roles \subseteq RoleRow
      /\ req \in [Handlers -> Request] /\ strayed \subseteq Students
      /\ \A h \in Handlers : req[h] \in Request /\ Ready(req[h])
  BY DEF Typed, TypeOK
<1>w. TypeOK
  BY DEF Typed
<1>c. ASSUME NEW h \in Handlers, NEW s \in Students, NEW g \in Groups, Claim(h, s, g)
      PROVE  Typed'
  <2> DEFINE r == [Idle EXCEPT !.op = "claim", !.pc = "account", !.s = s, !.g = g]
  <2>1. r \in Request /\ Ready(r)
    BY DEF Idle, Request, Ready, AllOps, Names, States
  <2> QED BY <1>c, <2>1, <1>t, FrameTyped DEF Claim
<1>d. ASSUME NEW h \in Handlers, TakeAccount(h) PROVE Typed'
  <2> DEFINE s == req[h].s
             r == [req[h] EXCEPT !.pc = "regroup"]
  <2>1. s \in Students /\ req[h].g \in Groups
    BY <1>d, <1>t DEF TakeAccount, At, Ready
  <2>2. CASE ~Here(s)
    BY <1>d, <1>i, <1>t, <2>2, FrameTyped DEF TakeAccount, Done, Frame
  <2>3. CASE Here(s)
    <3>1. student[s] \in [group : Groups, state : States, pseudo : BOOLEAN]
      BY <1>w, <2>1, <2>3, HereInGroup
    <3>2. student' = [student EXCEPT ![s].pseudo = FALSE]
      BY <1>d, <2>3 DEF TakeAccount
    <3>3. student'[s] = [student[s] EXCEPT !.pseudo = FALSE]
      BY <1>t, <2>1, <3>2
    <3>4. student'[s] \in [group : Groups, state : States, pseudo : BOOLEAN]
      BY <3>1, <3>3, ZenonT(60)
    <3>5. student' \in [Students -> StudentRow] /\ \A t \in Students : Here(t) => Here(t)'
      BY <1>t, <2>1, <3>2, <3>4 DEF StudentRow, Here
    <3>6. roles' \subseteq RoleRow /\ NoOrphans'
      BY <1>d, <1>t, <3>5 DEF TakeAccount, Typed, NoOrphans, RoleRow
    <3>7. /\ r \in Request /\ r.pc = "regroup" /\ r.s = s /\ r.g = req[h].g
          /\ r.op = req[h].op
      BY <1>t DEF Request
    <3>8. r \in Request /\ Ready(r)
      BY <2>1, <3>7 DEF Ready
    <3> QED BY <1>d, <2>3, <3>5, <3>6, <3>8, StepTyped DEF TakeAccount
  <2> QED BY <2>2, <2>3
<1>e. ASSUME NEW h \in Handlers, Regroup(h) PROVE Typed'
  <2> DEFINE s == req[h].s
  <2>1. s \in Students /\ req[h].g \in Groups
    BY <1>e, <1>t DEF Regroup, At, Ready
  <2>2. CASE ~Here(s)
    BY <1>e, <1>i, <2>2, FrameTyped DEF Regroup, Done, Frame
  <2>3. CASE Here(s)
    <3>1. student[s].state \in States
      BY <2>3 DEF Here
    <3>2. student' = [student EXCEPT ![s].state = student[s].state, ![s].group = req[h].g]
      BY <1>e, <1>t, <1>w, <2>1, <2>3, HereInGroup DEF Regroup
    <3>3. student' \in [Students -> StudentRow] /\ \A t \in Students : Here(t) => Here(t)'
      BY <2>1, <2>3, <3>1, <3>2, ColumnsTyped
    <3>4. roles' \subseteq RoleRow /\ NoOrphans'
      BY <1>e, <1>t, <3>3 DEF Regroup, Typed, NoOrphans, RoleRow
    <3>5. strayed' \subseteq Students
      BY <1>e, <1>t, <2>1 DEF Regroup
    <3> QED BY <1>e, <1>i, <1>t, <3>3, <3>4, <3>5 DEF Regroup, Done, Go, Typed, TypeOK
  <2> QED BY <2>2, <2>3
<1>1. ASSUME NEW h \in Handlers, NEW s \in Students, NEW g \in Groups, Register(h, s, g)
      PROVE  Typed'
  <2>1. student' \in [Students -> StudentRow]
    BY <1>1, <1>t DEF Register, StudentRow, States
  <2>2. NoOrphans'
    BY <1>1, <1>t DEF Register, Typed, NoOrphans, Here, States, RoleRow
  <2> QED BY <1>1, <1>t, <2>1, <2>2 DEF Register, Typed, TypeOK
<1>2. ASSUME NEW h \in Handlers, NEW s \in Students, NEW g \in Groups, AddUnregistered(h, s, g)
      PROVE  Typed'
  <2> DEFINE r == [Idle EXCEPT !.op = "pseudo", !.pc = "give", !.s = s, !.g = g]
  <2>1. r \in Request /\ Ready(r)
    BY DEF Idle, Request, Ready, AllOps, Names, States
  <2>2. student' \in [Students -> StudentRow]
    BY <1>2, <1>t DEF AddUnregistered, StudentRow, States
  <2>3. NoOrphans'
    BY <1>2, <1>t DEF AddUnregistered, Typed, NoOrphans, Here, States, RoleRow
  <2> QED BY <1>2, <2>1, <2>2, <2>3, <1>t, StepTyped DEF AddUnregistered
<1>3. ASSUME NEW h \in Handlers, NEW s \in Students, NEW c \in BOOLEAN, NEW state \in States,
             VerifyByBot(h, s, c, state)
      PROVE  Typed'
  <2>1. student[s].group \in Groups
    BY <1>3, <1>w, HereInGroup DEF VerifyByBot
  <2>2. PICK r : /\ Go(h, r) /\ Frame
                 /\ r = [Idle EXCEPT !.op = "verifyUser", !.s = s, !.g = student[s].group,
                             !.state = state, !.name = IF c THEN "CAPTAIN" ELSE "STUDENT",
                             !.pc = IF state # "APPROVED" THEN "tell"
                                    ELSE IF c THEN "captain?" ELSE "group?"]
    BY <1>3 DEF VerifyByBot
  <2>3. r \in Request /\ Ready(r)
    BY <2>1, <2>2, ZenonT(60) DEF Idle, Request, Ready, AllOps, Names, States
  <2> QED BY <2>2, <2>3, <1>t, FrameTyped
<1>4. ASSUME NEW h \in Handlers, CheckCaptain(h) PROVE Typed'
  <2>1. PICK p \in {"write", "group?"} : Go(h, Idle) \/ Go(h, [req[h] EXCEPT !.pc = p])
    BY <1>4 DEF CheckCaptain, Done
  <2>2. [req[h] EXCEPT !.pc = p] \in Request /\ Ready([req[h] EXCEPT !.pc = p])
    BY <1>4, <1>t DEF CheckCaptain, At, Request, Ready
  <2> QED BY <1>4, <1>i, <1>t, <2>1, <2>2, FrameTyped DEF CheckCaptain
<1>5. ASSUME NEW h \in Handlers, ReadGroup(h) PROVE Typed'
  <2>1. CASE Here(req[h].s)
    <3> DEFINE r == [req[h] EXCEPT !.pc = "give", !.g = student[req[h].s].group]
    <3>1. req[h].s \in Students
      BY <1>5, <1>t DEF ReadGroup, At, Ready
    <3>2. student[req[h].s].group \in Groups
      BY <2>1, <3>1, <1>w, HereInGroup
    <3>4. r \in Request
      BY <1>t, <3>2, ZenonT(60) DEF Request
    <3>5. r.pc = "give" /\ r.s = req[h].s /\ r.g \in Groups
      BY <1>t, <3>2 DEF Request
    <3>3. r \in Request /\ Ready(r)
      BY <3>1, <3>4, <3>5 DEF Ready
    <3> QED BY <1>5, <1>t, <2>1, <3>3, FrameTyped DEF ReadGroup
  <2>2. CASE ~Here(req[h].s)
    BY <1>5, <1>i, <1>t, <2>2, FrameTyped DEF ReadGroup, Done
  <2> QED BY <2>1, <2>2
<1>6. ASSUME NEW h \in Handlers, Give(h) PROVE Typed'
  <2>1. Row(req[h].s, req[h].g, req[h].name) \in RoleRow
    BY <1>6, <1>t DEF Give, At, Ready, Request, Row, RoleRow
  <2>2. roles' \subseteq RoleRow /\ student' \in [Students -> StudentRow]
    BY <1>6, <1>t, <2>1 DEF Give
  <2>4. NoOrphans'
    BY <1>6, <1>t DEF Give, Typed, NoOrphans, Here, Row
  <2>3. [req[h] EXCEPT !.pc = "tell"] \in Request /\ Ready([req[h] EXCEPT !.pc = "tell"])
    BY <1>6, <1>t DEF Give, At, Request, Ready
  <2> QED BY <1>6, <1>i, <2>2, <2>3, <2>4, StepTyped DEF Give, Done
<1>7. ASSUME NEW h \in Handlers, Tell(h) PROVE Typed'
  <2>1. [req[h] EXCEPT !.pc = "state"] \in Request /\ Ready([req[h] EXCEPT !.pc = "state"])
    BY <1>7, <1>t DEF Tell, At, Request, Ready
  <2>2. [req[h] EXCEPT !.pc = "failed"] \in Request /\ Ready([req[h] EXCEPT !.pc = "failed"])
    BY <1>7, <1>t DEF Tell, At, Request, Ready
  <2> QED BY <1>7, <1>t, <2>1, <2>2, FrameTyped DEF Tell
<1>8. ASSUME NEW h \in Handlers, NEW s \in Students, NEW state \in States,
             VerifyInGroup(h, s, state)
      PROVE  Typed'
  <2> DEFINE r == [Idle EXCEPT !.op = "verifyGroup", !.pc = "state", !.s = s,
                        !.g = student[s].group, !.state = state]
  <2>1. student[s].group \in Groups
    BY <1>8, <1>w, HereInGroup DEF VerifyInGroup
  <2>2. r \in Request /\ Ready(r)
    BY <2>1 DEF Idle, Request, Ready, AllOps, Names
  <2> QED BY <1>8, <2>2, <1>t, FrameTyped DEF VerifyInGroup
<1>9. ASSUME NEW h \in Handlers, WriteState(h) PROVE Typed'
  <2> DEFINE r == [req[h] EXCEPT !.pc = "give"]
  <2>1. CASE Here(req[h].s)
    <3>1. req[h].s \in Students /\ req[h].state \in States
      BY <1>9, <1>t DEF WriteState, At, Ready, Request
    <3>2. student[req[h].s].group \in Groups
      BY <1>w, <2>1, <3>1, HereInGroup
    <3>3. student' = [student EXCEPT ![req[h].s].state = req[h].state,
                                     ![req[h].s].group = student[req[h].s].group]
      BY <1>9, <1>t, <1>w, <2>1, <3>1, HereInGroup DEF WriteState
    <3>4. student' \in [Students -> StudentRow] /\ NoOrphans'
      BY <1>9, <1>t, <2>1, <3>1, <3>2, <3>3, ColumnsTyped DEF WriteState, Typed, NoOrphans, RoleRow
    <3>5. req[h].op = "verifyGroup" => r \in Request /\ Ready(r)
      BY <1>9, <1>t DEF WriteState, At, Request, Ready
    <3> QED BY <1>9, <1>i, <1>t, <2>1, <3>4, <3>5, StepTyped DEF WriteState, Done
  <2>2. CASE ~Here(req[h].s)
    BY <1>9, <1>i, <1>t, <2>2, FrameTyped DEF WriteState, Done, Frame
  <2> QED BY <2>1, <2>2
<1>10. ASSUME NEW h \in Handlers, NEW s \in Students, NEW g \in Groups, NEW c \in BOOLEAN,
              RequestNewGroup(h, s, g, c)
       PROVE  Typed'
  <2>1. PICK r : /\ Go(h, r) /\ Frame
                 /\ r = [Idle EXCEPT !.op = "request", !.s = s, !.g = g,
                             !.pc = IF c THEN "captain?" ELSE "write"]
    BY <1>10 DEF RequestNewGroup
  <2>2. r \in Request /\ Ready(r)
    BY <2>1 DEF Idle, Request, Ready, AllOps, Names, States
  <2> QED BY <2>1, <2>2, <1>t, FrameTyped
<1>11. ASSUME NEW h \in Handlers, WriteRequest(h) PROVE Typed'
  <2>1. req[h].s \in Students /\ req[h].g \in Groups
    BY <1>11, <1>t DEF WriteRequest, At, Ready
  <2>2. CASE Here(req[h].s)
    <3>1. student' \in [Students -> StudentRow] /\ NoOrphans'
      BY <1>11, <1>t, <2>1, <2>2, ColumnsTyped DEF WriteRequest, Typed, NoOrphans, States, RoleRow
    <3> QED BY <1>11, <1>i, <1>t, <3>1, StepTyped DEF WriteRequest, Done
  <2>3. CASE ~Here(req[h].s)
    BY <1>11, <1>i, <2>3, FrameTyped DEF WriteRequest, Done, Frame
  <2> QED BY <2>2, <2>3
<1>12. ASSUME NEW h \in Handlers, NEW s \in Students, NEW name \in SwitchNames,
              ModeratorSwitch(h, s, name)
       PROVE  Typed'
  <2> DEFINE r == [Idle EXCEPT !.op = "switch", !.pc = "role?", !.s = s, !.name = name]
  <2>1. r \in Request /\ Ready(r)
    BY DEF Idle, Request, Ready, AllOps, Names, States
  <2> QED BY <1>12, <2>1, <1>t, FrameTyped DEF ModeratorSwitch
<1>13. ASSUME NEW h \in Handlers, NEW s \in Students, SwitchCaptain(h, s) PROVE Typed'
  <2> DEFINE r == [Idle EXCEPT !.op = "captain", !.pc = "oldCaptain?", !.s = s,
                        !.g = student[s].group, !.name = "CAPTAIN"]
  <2>1. student[s].group \in Groups
    BY <1>13, <1>w, HereInGroup DEF SwitchCaptain
  <2>2. r \in Request /\ Ready(r)
    BY <2>1 DEF Idle, Request, Ready, AllOps, Names, States
  <2> QED BY <1>13, <2>2, <1>t, FrameTyped DEF SwitchCaptain
<1>14. ASSUME NEW h \in Handlers, OldCaptain(h) PROVE Typed'
  <2>1. CASE Go(h, Idle)
    BY <1>14, <2>1, <1>i, <1>t, FrameTyped DEF OldCaptain
  <2>2. CASE Go(h, [req[h] EXCEPT !.pc = "role?"])
    <3> DEFINE r == [req[h] EXCEPT !.pc = "role?"]
    <3>2. /\ r \in Request /\ r.pc = "role?"
          /\ r.s = req[h].s /\ r.op = req[h].op /\ r.g = req[h].g
      BY <1>t DEF Request
    <3>3. req[h].s \in Students /\ req[h].op = "captain"
      BY <1>14, <1>t DEF OldCaptain, At, Ready
    <3>1. r \in Request /\ Ready(r)
      BY <3>2, <3>3 DEF Ready
    <3> QED BY <1>14, <2>2, <3>1, <1>t, FrameTyped DEF OldCaptain
  <2>3. ASSUME NEW c \in Students,
               Go(h, [req[h] EXCEPT !.pc = "role?", !.s = c, !.name = "STUDENT",
                                    !.next = req[h].s])
        PROVE  Typed'
    <3> DEFINE r == [req[h] EXCEPT !.pc = "role?", !.s = c, !.name = "STUDENT",
                                   !.next = req[h].s]
    <3>1. req[h] \in Request /\ req[h].s \in Students /\ req[h].op = "captain"
      BY <1>14, <1>t DEF OldCaptain, At, Ready
    <3>2. r \in Request
      BY <3>1 DEF Request, Names
    <3>3. r \in Request /\ Ready(r)
      BY <3>1, <3>2 DEF Ready, Request
    <3> QED BY <1>14, <2>3, <3>3, <1>t, FrameTyped DEF OldCaptain
  <2> QED BY <1>14, <2>1, <2>2, <2>3 DEF OldCaptain, Captains, Done
<1>15. ASSUME NEW h \in Handlers, ReadRole(h) PROVE Typed'
  <2>1. CASE Go(h, Idle)
    BY <1>15, <2>1, <1>i, <1>t, FrameTyped DEF ReadRole
  <2>2. ASSUME NEW q \in GroupRoles(req[h].s),
               Go(h, [req[h] EXCEPT !.pc = AfterRole[req[h].op], !.row = q])
        PROVE  Typed'
    <3> DEFINE r == [req[h] EXCEPT !.pc = AfterRole[req[h].op], !.row = q]
    <3>1. /\ req[h].op \in {"switch", "captain", "remove", "leave", "change"}
          /\ q \in RoleRow /\ q.student = req[h].s /\ req[h].s \in Students
      BY <1>15, <1>t DEF ReadRole, Ready, GroupRoles
    <3>2. /\ AfterRole[req[h].op] \in {"set", "rank?", "take", "move"}
          /\ AfterRole[req[h].op] = "move" => req[h].op = "change"
      BY <3>1 DEF AfterRole
    <3> HIDE DEF AfterRole
    <3> DEFINE p == AfterRole[req[h].op]
    <3>4. /\ r \in Request /\ r.pc = p /\ r.row = q
          /\ r.s = req[h].s /\ r.op = req[h].op /\ r.g = req[h].g
      BY <1>t, <3>1, <3>2, ZenonT(60) DEF Request
    <3>5. /\ req[h].op \in {"change", "request", "verifyGroup"} => req[h].g \in Groups
          /\ p = "set" => req[h].op \in {"switch", "captain"}
      BY <1>t, <3>1 DEF Ready, AfterRole
    <3>3. r \in Request /\ Ready(r)
      BY <3>1, <3>2, <3>4, <3>5 DEF Ready
    <3> QED BY <1>15, <2>2, <3>3, <1>t, FrameTyped DEF ReadRole
  <2> QED BY <1>15, <2>1, <2>2 DEF ReadRole, Done
<1>16. ASSUME NEW h \in Handlers, SetRole(h) PROVE Typed'
  <2>1. NewRow(h) \in RoleRow
    BY <1>16, <1>t DEF SetRole, At, Ready, NewRow, Row, RoleRow, Request
  <2>2. /\ student' \in [Students -> StudentRow] /\ roles' \subseteq RoleRow
        /\ NoOrphans'
    <3>1. req[h].row.student = req[h].s
      BY <1>16, <1>t DEF SetRole, At, Ready
    <3> QED
      BY <1>16, <1>t, <2>1, <3>1 DEF SetRole, Replaced, CanReplace, NewRow, Row,
                                     Typed, NoOrphans, Here
  <2>3. CASE Go(h, Idle)
    BY <1>16, <2>2, <2>3, <1>i, StepTyped DEF SetRole
  <2> DEFINE r == [Idle EXCEPT !.op = "captain", !.pc = "promote?", !.g = req[h].g,
                               !.s = req[h].next, !.name = "CAPTAIN"]
  <2>4. CASE req[h].next # NoStudent /\ Go(h, r)
    <3>1. req[h].next \in Students /\ req[h].g \in Groups \cup {NoGroup}
      BY <1>t, <2>4 DEF Request
    <3>2. r \in Request /\ Ready(r)
      BY <3>1 DEF Idle, Request, Ready, AllOps, Names, States
    <3> QED BY <1>16, <2>2, <2>4, <3>2, StepTyped DEF SetRole
  <2> QED BY <1>16, <2>3, <2>4 DEF SetRole, Done
<1>17. ASSUME NEW h \in Handlers, NEW s \in Students, NEW by \in Students, NEW g \in Groups,
              RemoveStudent(h, s, by, g)
       PROVE  Typed'
  <2> DEFINE r == [Idle EXCEPT !.op = "remove", !.pc = "role?", !.s = s, !.g = g, !.next = by]
  <2>1. r \in Request /\ Ready(r)
    BY DEF Idle, Request, Ready, AllOps, Names, States
  <2> QED BY <1>17, <2>1, <1>t, FrameTyped DEF RemoveStudent
<1>18. ASSUME NEW h \in Handlers, CompareRanks(h) PROVE Typed'
  <2>1. [req[h] EXCEPT !.pc = "take"] \in Request /\ Ready([req[h] EXCEPT !.pc = "take"])
    BY <1>18, <1>t, SMTT(40) DEF CompareRanks, At, Request, Ready
  <2> QED BY <1>18, <1>i, <1>t, <2>1, FrameTyped DEF CompareRanks, Done
<1>19. ASSUME NEW h \in Handlers, TakeRole(h) PROVE Typed'
  <2>1. [req[h] EXCEPT !.pc = "decline"] \in Request /\ Ready([req[h] EXCEPT !.pc = "decline"])
    BY <1>19, <1>t DEF TakeRole, At, Request, Ready
  <2>2. req[h].s \in Students
    BY <1>19, <1>t DEF TakeRole, At, Ready
  <2>3. CASE req[h].row \in roles /\ req[h].op # "remove"
    <3>1. Here(req[h].s)
      BY <1>19, <1>t, <2>3 DEF TakeRole, At, Ready, Typed, NoOrphans
    <3>2. student[req[h].s].group \in Groups
      BY <1>w, <2>2, <3>1, HereInGroup
    <3>3. student' = [student EXCEPT ![req[h].s].state = "DECLINED",
                                     ![req[h].s].group = student[req[h].s].group]
      BY <1>19, <1>t, <1>w, <2>2, <2>3, <3>1, HereInGroup DEF TakeRole
    <3>5. /\ student' \in [Students -> StudentRow]
          /\ \A t \in Students : Here(t) => Here(t)'
      BY <2>2, <3>1, <3>2, <3>3, ColumnsTyped DEF States
    <3>6. roles' \subseteq roles
      BY <1>19, <2>3 DEF TakeRole
    <3>4. student' \in [Students -> StudentRow] /\ NoOrphans'
      BY <1>t, <3>5, <3>6 DEF Typed, NoOrphans, RoleRow
    <3> QED BY <1>19, <1>i, <1>t, <2>3, <3>4, <3>6, StepTyped DEF TakeRole, Done
  <2>4. CASE req[h].row \in roles /\ req[h].op = "remove"
    <3>1. NoOrphans' /\ student' = student /\ roles' \subseteq RoleRow
      BY <1>19, <1>t, <2>4 DEF TakeRole, Typed, NoOrphans, Here
    <3> QED BY <1>19, <1>t, <2>1, <2>4, <3>1, StepTyped DEF TakeRole
  <2>5. CASE req[h].row \notin roles
    BY <1>19, <1>i, <2>5, FrameTyped DEF TakeRole, Done, Frame
  <2> QED BY <2>3, <2>4, <2>5
<1>20. ASSUME NEW h \in Handlers, Decline(h) PROVE Typed'
  <2> DEFINE s == req[h].s
  <2>1. s \in Students
    BY <1>20, <1>t DEF Decline, At, Ready
  <2>2. CASE ~Here(s)
    <3>1. student' = student /\ roles' \subseteq roles
      BY <1>20, <2>2 DEF Decline, Cascade
    <3>2. NoOrphans' /\ roles' \subseteq RoleRow
      BY <3>1, <1>t DEF Typed, NoOrphans, Here
    <3> QED BY <1>20, <1>i, <1>t, <3>1, <3>2, StepTyped DEF Decline, Done
  <2>3. CASE Here(s) /\ student[s].pseudo
    <3>1. student' = [student EXCEPT ![s] = Gone] /\ roles' = Cascade(s)
      BY <1>20, <2>3 DEF Decline
    <3>2. student' \in [Students -> StudentRow] /\ roles' \subseteq RoleRow
      BY <1>t, <2>1, <3>1 DEF StudentRow, Gone, Cascade
    <3>3. NoOrphans'
      BY <1>t, <2>1, <3>1 DEF Typed, NoOrphans, Here, Cascade, GroupRoles, RoleRow
    <3> QED BY <1>20, <1>i, <3>2, <3>3, StepTyped DEF Decline, Done
  <2>4. CASE Here(s) /\ ~student[s].pseudo
    <3>1. student[s].group \in Groups
      BY <1>w, <2>1, <2>4, HereInGroup
    <3>2. student' = [student EXCEPT ![s].state = "DECLINED"] /\ roles' = roles
      BY <1>20, <2>4 DEF Decline
    <3>3. student' = [student EXCEPT ![s].state = "DECLINED",
                                     ![s].group = student[s].group]
      BY <1>t, <1>w, <2>1, <2>4, <3>2, HereInGroup
    <3>4. student' \in [Students -> StudentRow] /\ NoOrphans'
      BY <1>t, <2>1, <2>4, <3>1, <3>2, <3>3, ColumnsTyped
      DEF Typed, NoOrphans, States, RoleRow
    <3> QED BY <1>20, <1>i, <1>t, <3>2, <3>4, StepTyped DEF Decline, Done
  <2> QED BY <2>2, <2>3, <2>4
<1>21. ASSUME NEW h \in Handlers, NEW s \in Students, LeaveGroup(h, s) PROVE Typed'
  <2> DEFINE r == [Idle EXCEPT !.op = "leave", !.pc = "approved?", !.s = s]
  <2>1. r \in Request /\ Ready(r)
    BY DEF Idle, Request, Ready, AllOps, Names, States
  <2> QED BY <1>21, <2>1, <1>t, FrameTyped DEF LeaveGroup
<1>22. ASSUME NEW h \in Handlers, CheckApproved(h) PROVE Typed'
  <2>1. [req[h] EXCEPT !.pc = "role?"] \in Request /\ Ready([req[h] EXCEPT !.pc = "role?"])
    BY <1>22, <1>t DEF CheckApproved, At, Request, Ready
  <2> QED BY <1>22, <1>i, <1>t, <2>1, FrameTyped DEF CheckApproved, Done
<1>23. ASSUME NEW h \in Handlers, NEW s \in Students, NEW g \in Groups, ChangeGroup(h, s, g)
       PROVE  Typed'
  <2> DEFINE r == [Idle EXCEPT !.op = "change", !.pc = "role?", !.s = s, !.g = g]
  <2>1. r \in Request /\ Ready(r)
    BY DEF Idle, Request, Ready, AllOps, Names, States
  <2> QED BY <1>23, <2>1, <1>t, FrameTyped DEF ChangeGroup
<1>24. ASSUME NEW h \in Handlers, Move(h) PROVE Typed'
  <2> DEFINE new == Row(req[h].s, req[h].g, "STUDENT")
  <2>1. /\ req[h].s \in Students /\ req[h].g \in Groups
        /\ req[h].row.student = req[h].s
    BY <1>24, <1>t DEF Move, At, Ready
  <2>2. CASE CanReplace(req[h].row, new)
    <3>1. /\ roles' = Replaced(req[h].row, new)
          /\ student' = [student EXCEPT ![req[h].s].group = req[h].g]
      BY <1>24, <2>2 DEF Move
    <3>2. Here(req[h].s)
      BY <2>1, <2>2 DEF CanReplace, Typed, NoOrphans
    <3>3. /\ student[req[h].s].state \in States
          /\ student' = [student EXCEPT ![req[h].s].state = student[req[h].s].state,
                                        ![req[h].s].group = req[h].g]
      BY <1>t, <1>w, <2>1, <3>1, <3>2, HereInGroup DEF Here
    <3>4. /\ student' \in [Students -> StudentRow]
          /\ \A t \in Students : Here(t) => Here(t)'
      BY <2>1, <3>2, <3>3, ColumnsTyped
    <3>5. roles' \subseteq RoleRow
      BY <1>t, <2>1, <3>1 DEF Replaced, Row, RoleRow, Names
    <3>6. NoOrphans'
      BY <1>t, <2>1, <3>1, <3>2, <3>4 DEF Replaced, Row, RoleRow, Typed, NoOrphans
    <3> QED BY <1>24, <1>i, <3>4, <3>5, <3>6, StepTyped DEF Move, Done
  <2>3. CASE ~CanReplace(req[h].row, new)
    BY <1>24, <1>i, <2>3, FrameTyped DEF Move, Done, Frame
  <2> QED BY <2>2, <2>3
<1>25. ASSUME NEW h \in Handlers, NEW s \in Students, Delete(h, s) PROVE Typed'
  <2>1. student' \in [Students -> StudentRow] /\ roles' \subseteq RoleRow
    BY <1>25, <1>t DEF Delete, StudentRow, Gone, Cascade
  <2>2. NoOrphans'
    BY <1>25, <1>t DEF Delete, Typed, NoOrphans, Here, Cascade, GroupRoles, RoleRow
  <2> QED BY <1>25, <1>t, <2>1, <2>2 DEF Delete, Typed, TypeOK
<1>26. CASE UNCHANGED vars
  BY <1>26 DEF vars, Typed, TypeOK, NoOrphans, Here
<1>27. ASSUME NEW h \in Handlers, Begin(h) PROVE Typed'
  BY <1>27, <1>1, <1>2, <1>3, <1>8, <1>10, <1>12, <1>13, <1>17, <1>21, <1>23, <1>25, <1>c
  DEF Begin
<1>28. ASSUME NEW h \in Handlers, Continue(h) PROVE Typed'
  BY <1>28, <1>4, <1>5, <1>6, <1>7, <1>9, <1>11, <1>14, <1>15, <1>16, <1>18, <1>19, <1>20,
     <1>22, <1>24, <1>d, <1>e
  DEF Continue
<1> QED BY <1>26, <1>27, <1>28 DEF Next

\* Types: rows and the locals of the requests keep their types, and what an
\* operation has read it has when it uses it.
LEMMA AlwaysTyped == Spec => []Typed
<1>1. Init => Typed
  <2> SUFFICES ASSUME Init PROVE Typed
    OBVIOUS
  <2>1. student \in [Students -> StudentRow]
    BY DEF Init
  <2>2. PICK rank \in [Students -> Names] :
          roles = {Row(s, student[s].group, rank[s]) :
                     s \in {t \in Students : student[t].state = "APPROVED"}}
    BY DEF Init
  <2>3. \A s \in Students : student[s].state = "APPROVED" => Here(s) /\ student[s].group \in Groups
    BY <2>1 DEF StudentRow, Here, States
  <2>4. roles \subseteq RoleRow /\ NoOrphans
    BY <2>2, <2>3 DEF Row, RoleRow, NoOrphans
  <2>5. Idle \in Request /\ Ready(Idle)
    BY DEF Idle, Request, Ready, AllOps, Names, States
  <2> QED BY <2>1, <2>4, <2>5 DEF Init, Typed, TypeOK
<1> QED BY <1>1, TypesKept, PTL DEF Spec

\* The type invariant, whatever the requests do.
THEOREM TypeCorrect == Spec => []TypeOK
<1>1. Typed => TypeOK
  BY DEF Typed
<1> QED BY <1>1, AlwaysTyped, PTL

\* Nobody holds a role who is not there any more, whatever the requests do.
THEOREM NobodyGone == Spec => []NoOrphans
<1>1. Typed => NoOrphans
  BY DEF Typed
<1> QED BY <1>1, AlwaysTyped, PTL

-----------------------------------------------------------------------------
(* One role at most                                                        *)

\* The operations that admit nobody who asked before.
MovingOps == AllOps \ {"verifyUser", "verifyGroup"}

\* A step of one request that leaves the tables alone.
LEMMA FrameRoles ==
  ASSUME Typed, RoleInv, NEW h \in Handlers, NEW r \in Request, Go(h, r), Frame,
         r.pc \notin {"give", "decline", "group?", "tell", "state"},
         r.pc # "idle" => /\ student[r.s] # New
                          /\ r.next # NoStudent => student[r.next] # New,
         r.pc \in {"captain?", "write"} => r.op = "request" /\ student[r.s].state # "APPROVED",
         r.pc \in {"set", "rank?", "take", "move"} =>
           \A g \in Handlers \ {h} : req[g].pc = "give" => req[g].s # r.s
  PROVE  RoleInv'
<1>1. req'[h] = r /\ \A g \in Handlers \ {h} : req'[g] = req[g]
  BY DEF Typed, TypeOK, Go
<1>2. student' = student /\ roles' = roles /\ strayed' = strayed
  BY DEF Frame
<1>3. OneRole'
  BY <1>2 DEF RoleInv, Known, Asking, Giving, Alone, Declining, NoneVerified, OneRole
<1> QED BY <1>1, <1>2, <1>3 DEF RoleInv, Known, Asking, Giving, Alone, Declining, NoneVerified, GroupRoles, Here

\* The same when the request ends.
LEMMA DoneRoles ==
  ASSUME Typed, RoleInv, NEW h \in Handlers, Done(h), Frame
  PROVE  RoleInv'
<1>1. /\ Idle \in Request /\ Idle.pc = "idle"
  BY DEF Idle, Request, AllOps, Names, States
<1> QED BY <1>1, FrameRoles DEF Done

\* Every step of an operation that moves roles keeps them in order.
\* The request of h takes the roles of a student, all or none of them, and declines
\* him or ends; his row may be written, but makes no member of him.
LosesRoles(h, s, gone) ==
  /\ s \in Students /\ gone \in SUBSET roles /\ roles' = roles \ gone
  /\ \A r \in gone : r.student = s
  /\ \A r \in roles : r.student = s => r \in gone
  /\ \A k \in Handlers : req[k].pc = "give" /\ req[k].s = s => ~Here(s)'
  /\ student'[s] # New
  /\ student'[s].state = "APPROVED" => student[s].state = "APPROVED"
  /\ \A x \in Students \ {s} : student'[x] = student[x]
  /\ \/ req'[h] = req[h] \/ req'[h].pc = "idle"
     \/ /\ req'[h].pc = "decline" /\ req'[h].s = req[h].s /\ req'[h].next = req[h].next
        /\ req[h].pc = "take" /\ req[h].s = s
  /\ \A k \in Handlers \ {h} : req'[k] = req[k]
  /\ strayed' = strayed

LEMMA RolesKept ==
  ASSUME Ops \subseteq MovingOps, Typed, Typed', RoleInv, [Next]_vars
  PROVE  RoleInv'
<1> USE MembershipAssumption
<1>t. /\ student \in [Students -> StudentRow] /\ roles \subseteq RoleRow
      /\ req \in [Handlers -> Request]
      /\ \A h \in Handlers : req[h] \in Request /\ Ready(req[h])
  BY DEF Typed, TypeOK
<1>n. \A s \in Students : Here(s) => student[s] # New /\ student[s] # Gone
  BY DEF Here, New, Gone, States
<1>m. \A s \in Students : ~Here(s) => GroupRoles(s) = {}
  BY <1>t DEF Typed, NoOrphans, GroupRoles, RoleRow
<1>1. ASSUME NEW h \in Handlers, NEW s \in Students, NEW g \in Groups, Register(h, s, g)
      PROVE  RoleInv'
  <2>1. student[s] = New /\ ~Here(s)
    BY <1>1, <1>n DEF Register
  <2>2. /\ student'[s] # New /\ student'[s].state = "PENDING"
        /\ \A x \in Students \ {s} : student'[x] = student[x]
        /\ roles' = roles /\ req' = req /\ strayed' = strayed
    BY <1>1, <1>t DEF Register, New
  <2>3. \A q \in roles : q.student # s /\ q.student \in Students
    BY <1>m, <1>t, <2>1 DEF GroupRoles, RoleRow
  <2>4. OneRole'
    BY <2>2, <2>3 DEF RoleInv, Known, Asking, Giving, Alone, Declining, NoneVerified, OneRole
  <2>5. \A k \in Handlers : req[k].pc # "idle" => req[k].s \in Students \ {s}
    BY <1>t, <2>1 DEF Ready, RoleInv, Known, Asking, Giving, Alone, Declining, NoneVerified
  <2>6. \A k \in Handlers : req[k].next \in Students \cup {NoStudent}
    BY <1>t DEF Request
  <2> QED BY <2>2, <2>4, <2>5, <2>6 DEF RoleInv, Known, Asking, Giving, Alone, Declining, NoneVerified, GroupRoles, Here
<1>2. ASSUME NEW h \in Handlers, NEW s \in Students, NEW g \in Groups, AddUnregistered(h, s, g)
      PROVE  RoleInv'
  <2>1. student[s] = New /\ ~Here(s)
    BY <1>2, <1>n DEF AddUnregistered
  <2>2. /\ student'[s] # New /\ student'[s].state = "APPROVED" /\ student'[s].group = g
        /\ \A x \in Students \ {s} : student'[x] = student[x]
        /\ roles' = roles /\ strayed' = strayed
        /\ req'[h].pc = "give" /\ req'[h].op = "pseudo" /\ req'[h].s = s /\ req'[h].g = g
        /\ req'[h].next = NoStudent
        /\ \A k \in Handlers \ {h} : req'[k] = req[k]
    BY <1>2, <1>t DEF AddUnregistered, New, Go, Idle
  <2>3. \A q \in roles : q.student # s /\ q.student \in Students
    BY <1>m, <1>t, <2>1 DEF GroupRoles, RoleRow
  <2>4. OneRole'
    BY <2>2, <2>3 DEF RoleInv, Known, Asking, Giving, Alone, Declining, NoneVerified, OneRole
  <2>5. \A k \in Handlers : req[k].pc # "idle" => req[k].s \in Students \ {s}
    BY <1>t, <2>1 DEF Ready, RoleInv, Known, Asking, Giving, Alone, Declining, NoneVerified
  <2>6. \A k \in Handlers : req[k].next \in Students \cup {NoStudent}
    BY <1>t DEF Request
  <2>7. GroupRoles(s) = {}
    BY <1>m, <2>1
  <2> QED BY <2>2, <2>4, <2>5, <2>6, <2>7 DEF RoleInv, Known, Asking, Giving, Alone, Declining, NoneVerified, GroupRoles, Here
<1>3. ASSUME NEW h \in Handlers, CheckCaptain(h) PROVE RoleInv'
  <2>1. CASE Done(h)
    BY <1>3, <2>1, DoneRoles DEF CheckCaptain
  <2>2. CASE Go(h, [req[h] EXCEPT !.pc = "write"])
    <3> DEFINE r == [req[h] EXCEPT !.pc = "write"]
    <3>1. /\ r \in Request /\ r.pc = "write" /\ r.op = req[h].op /\ r.s = req[h].s
          /\ r.next = req[h].next
      BY <1>t DEF Request
    <3>2. /\ req[h].op = "request" /\ student[req[h].s].state # "APPROVED"
          /\ student[req[h].s] # New
          /\ req[h].next # NoStudent => student[req[h].next] # New
      BY <1>3 DEF CheckCaptain, At, RoleInv, Known, Asking, Giving, Alone, Declining, NoneVerified
    <3> HIDE DEF r
    <3> QED BY <1>3, <2>2, <3>1, <3>2, FrameRoles DEF CheckCaptain, r
  <2>3. req[h].op = "request"
    BY <1>3 DEF CheckCaptain, At, RoleInv, Known, Asking, Giving, Alone, Declining, NoneVerified
  <2> QED BY <1>3, <2>1, <2>2, <2>3 DEF CheckCaptain
<1>4. ASSUME NEW h \in Handlers, Give(h) PROVE RoleInv'
  <2> DEFINE s == req[h].s
  <2>1. /\ s \in Students /\ req[h].op = "pseudo"
        /\ Here(s) => /\ student[s].state = "APPROVED" /\ GroupRoles(s) = {}
                      /\ s \notin strayed => student[s].group = req[h].g
    BY <1>4, <1>t DEF Give, At, Ready, RoleInv, Known, Asking, Giving, Alone, Declining, NoneVerified
  <2>2. CASE ~Here(s)
    BY <1>4, <2>1, <2>2, DoneRoles DEF Give, Frame
  <2>3. CASE Here(s)
    <3> DEFINE q == Row(s, req[h].g, req[h].name)
    <3>1. /\ roles' = roles \cup {q} /\ student' = student /\ strayed' = strayed
          /\ q.student = s /\ q.group = req[h].g
      BY <1>4, <2>3 DEF Give, Row
    <3>2. /\ req'[h].pc = "idle" /\ \A k \in Handlers \ {h} : req'[k] = req[k]
      BY <1>4, <1>t, <2>1 DEF Give, Done, Go, Idle
    <3>3. \A r \in roles : r.student # s
      BY <2>1, <2>3 DEF GroupRoles
    <3>4. OneRole'
      BY <2>1, <2>3, <3>1, <3>3 DEF RoleInv, Known, Asking, Giving, Alone, Declining, NoneVerified, OneRole
    <3>5. \A k \in Handlers \ {h} :
            req[k].pc \in {"give", "set", "rank?", "take", "move", "decline"} => req[k].s # s
      BY <1>4 DEF Give, At, RoleInv, Known, Asking, Giving, Alone, Declining, NoneVerified
    <3>6. \A x \in Students \ {s} : GroupRoles(x)' = GroupRoles(x)
      BY <3>1 DEF GroupRoles
    <3>7. \A k \in Handlers : req[k].pc # "idle" => req[k].s \in Students
      BY <1>t DEF Ready
    <3> QED BY <3>1, <3>2, <3>4, <3>5, <3>6, <3>7 DEF RoleInv, Known, Asking, Giving, Alone, Declining, NoneVerified, Here
  <2> QED BY <2>2, <2>3
<1>5. ASSUME NEW h \in Handlers, NEW s \in Students, NEW g \in Groups, NEW c \in BOOLEAN,
             RequestNewGroup(h, s, g, c)
      PROVE  RoleInv'
  <2>1. PICK r : /\ Go(h, r) /\ Frame
                 /\ r = [Idle EXCEPT !.op = "request", !.s = s, !.g = g,
                             !.pc = IF c THEN "captain?" ELSE "write"]
    BY <1>5 DEF RequestNewGroup
  <2>2. /\ r \in Request /\ r.pc \in {"captain?", "write"} /\ r.op = "request" /\ r.s = s
        /\ r.next = NoStudent
    BY <2>1 DEF Idle, Request, AllOps, Names, States
  <2>3. student[s] # New /\ student[s].state # "APPROVED"
    BY <1>5, <1>n DEF RequestNewGroup
  <2> QED BY <2>1, <2>2, <2>3, FrameRoles
<1>6. ASSUME NEW h \in Handlers, WriteRequest(h) PROVE RoleInv'
  <2> DEFINE s == req[h].s
  <2>1. s \in Students /\ student[s].state # "APPROVED"
    BY <1>6, <1>t DEF WriteRequest, At, Ready, RoleInv, Known, Asking, Giving, Alone, Declining, NoneVerified
  <2>2. CASE ~Here(s)
    BY <1>6, <2>2, DoneRoles DEF WriteRequest, Frame
  <2>3. CASE Here(s)
    <3>1. /\ roles' = roles /\ student'[s].state = "PENDING" /\ strayed' = strayed
          /\ \A x \in Students \ {s} : student'[x] = student[x]
      BY <1>6, <1>t, <2>1, <2>3 DEF WriteRequest
    <3>2. /\ req'[h].pc = "idle" /\ \A k \in Handlers \ {h} : req'[k] = req[k]
      BY <1>6, <1>t DEF WriteRequest, Done, Go, Idle
    <3>3. student'[s] # New
      BY <3>1 DEF New
    <3>4. \A r \in roles : r.student # s /\ r.student \in Students
      BY <1>t, <2>1 DEF RoleInv, Known, Asking, Giving, Alone, Declining, NoneVerified, OneRole, RoleRow
    <3>5. OneRole'
      BY <3>1, <3>4 DEF RoleInv, Known, Asking, Giving, Alone, Declining, NoneVerified, OneRole
    <3>6. \A k \in Handlers : req[k].pc = "give" => req[k].s # s
      BY <2>1, <2>3 DEF RoleInv, Known, Asking, Giving, Alone, Declining, NoneVerified
    <3>7. \A k \in Handlers : /\ req[k].pc # "idle" => req[k].s \in Students
                              /\ req[k].next \in Students \cup {NoStudent}
      BY <1>t DEF Ready, Request
    <3> QED BY <3>1, <3>2, <3>3, <3>5, <3>6, <3>7 DEF RoleInv, Known, Asking, Giving, Alone, Declining, NoneVerified, Here, GroupRoles
  <2> QED BY <2>2, <2>3
<1>7. ASSUME NEW h \in Handlers, NEW s \in Students, NEW r \in Request, Go(h, r), Frame,
             Here(s), r.s = s, r.next = NoStudent \/ (r.next \in Students /\ Here(r.next)),
             r.pc \in {"role?", "oldCaptain?", "approved?"}
      PROVE  RoleInv'
  BY <1>7, <1>n, FrameRoles
<1>8. ASSUME NEW h \in Handlers, NEW s \in Students, NEW name \in SwitchNames,
             ModeratorSwitch(h, s, name)
      PROVE  RoleInv'
  <2> DEFINE r == [Idle EXCEPT !.op = "switch", !.pc = "role?", !.s = s, !.name = name]
  <2>1. r \in Request /\ r.pc = "role?" /\ r.s = s /\ r.next = NoStudent
    BY DEF Idle, Request, AllOps, Names, States
  <2> QED BY <1>7, <1>8, <2>1 DEF ModeratorSwitch
<1>9. ASSUME NEW h \in Handlers, NEW s \in Students, SwitchCaptain(h, s) PROVE RoleInv'
  <2> DEFINE r == [Idle EXCEPT !.op = "captain", !.pc = "oldCaptain?", !.s = s,
                        !.g = student[s].group, !.name = "CAPTAIN"]
  <2>1. student[s].group \in Groups
    BY <1>9, HereInGroup DEF SwitchCaptain, Typed
  <2>2. r \in Request /\ r.pc = "oldCaptain?" /\ r.s = s /\ r.next = NoStudent
    BY <2>1 DEF Idle, Request, AllOps, Names, States
  <2> QED BY <1>7, <1>9, <2>2 DEF SwitchCaptain
<1>10. ASSUME NEW h \in Handlers, NEW s \in Students, NEW by \in Students, NEW g \in Groups,
              RemoveStudent(h, s, by, g)
       PROVE  RoleInv'
  <2> DEFINE r == [Idle EXCEPT !.op = "remove", !.pc = "role?", !.s = s, !.g = g, !.next = by]
  <2>1. r \in Request /\ r.pc = "role?" /\ r.s = s /\ r.next = by
    BY DEF Idle, Request, AllOps, Names, States
  <2> QED BY <1>7, <1>10, <2>1 DEF RemoveStudent
<1>11. ASSUME NEW h \in Handlers, NEW s \in Students, LeaveGroup(h, s) PROVE RoleInv'
  <2> DEFINE r == [Idle EXCEPT !.op = "leave", !.pc = "approved?", !.s = s]
  <2>1. r \in Request /\ r.pc = "approved?" /\ r.s = s /\ r.next = NoStudent
    BY DEF Idle, Request, AllOps, Names, States
  <2> QED BY <1>7, <1>11, <2>1 DEF LeaveGroup
<1>12. ASSUME NEW h \in Handlers, NEW s \in Students, NEW g \in Groups, ChangeGroup(h, s, g)
       PROVE  RoleInv'
  <2> DEFINE r == [Idle EXCEPT !.op = "change", !.pc = "role?", !.s = s, !.g = g]
  <2>1. r \in Request /\ r.pc = "role?" /\ r.s = s /\ r.next = NoStudent
    BY DEF Idle, Request, AllOps, Names, States
  <2>2. Here(s)
    BY <1>12 DEF ChangeGroup, Here, States
  <2> QED BY <1>7, <1>12, <2>1, <2>2 DEF ChangeGroup
<1>13. ASSUME NEW h \in Handlers, OldCaptain(h) PROVE RoleInv'
  <2>1. CASE Done(h)
    BY <1>13, <2>1, DoneRoles DEF OldCaptain
  <2>2. CASE Go(h, [req[h] EXCEPT !.pc = "role?"])
    <3> DEFINE r == [req[h] EXCEPT !.pc = "role?"]
    <3>1. r \in Request /\ r.pc = "role?" /\ r.s = req[h].s /\ r.next = req[h].next
      BY <1>t DEF Request
    <3>2. /\ student[req[h].s] # New
          /\ req[h].next # NoStudent => student[req[h].next] # New
      BY <1>13 DEF OldCaptain, At, RoleInv, Known, Asking, Giving, Alone, Declining, NoneVerified
    <3> HIDE DEF r
    <3> QED BY <1>13, <2>2, <3>1, <3>2, FrameRoles DEF OldCaptain, r
  <2>3. ASSUME NEW c \in Captains(req[h].g),
               Go(h, [req[h] EXCEPT !.pc = "role?", !.s = c, !.name = "STUDENT",
                                    !.next = req[h].s])
        PROVE  RoleInv'
    <3> DEFINE r == [req[h] EXCEPT !.pc = "role?", !.s = c, !.name = "STUDENT",
                                   !.next = req[h].s]
    <3>1. req[h] \in Request /\ req[h].s \in Students /\ c \in Students /\ Here(c)
      BY <1>13, <1>t DEF OldCaptain, At, Ready, Captains
    <3>2. r \in Request /\ r.pc = "role?" /\ r.s = c /\ r.next = req[h].s
      BY <3>1 DEF Request, Names
    <3>3. student[req[h].s] # New /\ student[c] # New
      BY <1>13, <1>n, <3>1 DEF OldCaptain, At, RoleInv, Known, Asking, Giving, Alone, Declining, NoneVerified
    <3> HIDE DEF r
    <3> QED BY <1>13, <2>3, <3>2, <3>3, FrameRoles DEF OldCaptain, r
  <2> QED BY <1>13, <2>1, <2>2, <2>3 DEF OldCaptain
<1>14. ASSUME NEW h \in Handlers, ReadRole(h) PROVE RoleInv'
  <2>1. CASE Done(h)
    BY <1>14, <2>1, DoneRoles DEF ReadRole
  <2>2. ASSUME NEW q \in GroupRoles(req[h].s),
               Go(h, [req[h] EXCEPT !.pc = AfterRole[req[h].op], !.row = q])
        PROVE  RoleInv'
    <3> DEFINE p == AfterRole[req[h].op]
               r == [req[h] EXCEPT !.pc = p, !.row = q]
    <3>1. /\ req[h].op \in {"switch", "captain", "remove", "leave", "change"}
          /\ q \in roles /\ q.student = req[h].s /\ req[h].s \in Students
      BY <1>14, <1>t DEF ReadRole, Ready, GroupRoles
    <3>2. p \in {"set", "rank?", "take", "move"}
      BY <3>1 DEF AfterRole
    <3>3. r \in Request /\ r.pc = p /\ r.s = req[h].s /\ r.next = req[h].next
      BY <1>t, <3>1, <3>2, ZenonT(60) DEF Request
    <3>4. /\ student[req[h].s] # New
          /\ req[h].next # NoStudent => student[req[h].next] # New
      BY <1>14 DEF ReadRole, RoleInv, Known, Asking, Giving, Alone, Declining, NoneVerified
    <3>5. \A g \in Handlers \ {h} : req[g].pc = "give" => req[g].s # req[h].s
      BY <1>m, <3>1 DEF RoleInv, Known, Asking, Giving, Alone, Declining, NoneVerified, GroupRoles
    <3> HIDE DEF r, p
    <3> QED BY <1>14, <2>2, <3>2, <3>3, <3>4, <3>5, FrameRoles DEF ReadRole, r, p
  <2> QED BY <1>14, <2>1, <2>2 DEF ReadRole
<1>15. ASSUME NEW h \in Handlers, CompareRanks(h) PROVE RoleInv'
  <2>1. CASE Done(h)
    BY <1>15, <2>1, DoneRoles DEF CompareRanks
  <2>2. CASE Go(h, [req[h] EXCEPT !.pc = "take"])
    <3> DEFINE r == [req[h] EXCEPT !.pc = "take"]
    <3>1. r \in Request /\ r.pc = "take" /\ r.s = req[h].s /\ r.next = req[h].next
      BY <1>t DEF Request
    <3>2. /\ student[req[h].s] # New
          /\ req[h].next # NoStudent => student[req[h].next] # New
          /\ \A g \in Handlers \ {h} : req[g].pc = "give" => req[g].s # req[h].s
      BY <1>15 DEF CompareRanks, At, RoleInv, Known, Asking, Giving, Alone, Declining, NoneVerified
    <3> HIDE DEF r
    <3> QED BY <1>15, <2>2, <3>1, <3>2, FrameRoles DEF CompareRanks, r
  <2> QED BY <1>15, <2>1, <2>2 DEF CompareRanks
<1>16. ASSUME NEW h \in Handlers, CheckApproved(h) PROVE RoleInv'
  <2>1. CASE Done(h)
    BY <1>16, <2>1, DoneRoles DEF CheckApproved
  <2>2. CASE Go(h, [req[h] EXCEPT !.pc = "role?"])
    <3> DEFINE r == [req[h] EXCEPT !.pc = "role?"]
    <3>1. r \in Request /\ r.pc = "role?" /\ r.s = req[h].s /\ r.next = req[h].next
      BY <1>t DEF Request
    <3>2. /\ student[req[h].s] # New
          /\ req[h].next # NoStudent => student[req[h].next] # New
      BY <1>16 DEF CheckApproved, At, RoleInv, Known, Asking, Giving, Alone, Declining, NoneVerified
    <3> HIDE DEF r
    <3> QED BY <1>16, <2>2, <3>1, <3>2, FrameRoles DEF CheckApproved, r
  <2> QED BY <1>16, <2>1, <2>2 DEF CheckApproved
<1>17. ASSUME NEW h \in Handlers, NEW q \in roles, NEW new \in RoleRow,
              req[h].pc \in {"set", "move"}, q = req[h].row,
              new.student = req[h].s, strayed' = strayed,
              req[h].s \notin strayed => new.group = student'[req[h].s].group,
              roles' = Replaced(q, new),
              student'[req[h].s].state = student[req[h].s].state,
              \A x \in Students \ {req[h].s} : student'[x] = student[x],
              req'[h].pc = "idle"
                \/ /\ req'[h].pc = "promote?" /\ req'[h].s = req[h].next
                   /\ req[h].next \in Students /\ req'[h].next = NoStudent,
              \A k \in Handlers \ {h} : req'[k] = req[k]
       PROVE  RoleInv'
  <2> DEFINE s == req[h].s
  <2>1. /\ s \in Students /\ q.student = s
        /\ student[s].state = "APPROVED" /\ Here(s)
        /\ \A r \in roles : r.student = s => r = q
    BY <1>17, <1>t DEF Ready, RoleInv, Known, Asking, Giving, Alone, Declining, NoneVerified, OneRole, Here, States
  <2>2. /\ \A r \in roles' : r \in roles \/ r = new
        /\ \A r \in roles' : r.student = s => r = new
    BY <1>17, <2>1 DEF Replaced
  <2>3. OneRole'
    BY <1>17, <1>t, <2>1, <2>2 DEF RoleInv, Known, Asking, Giving, Alone, Declining, NoneVerified, OneRole, RoleRow
  <2>4. \A x \in Students \ {s} : GroupRoles(x)' = GroupRoles(x)
    BY <1>17, <2>1 DEF Replaced, GroupRoles
  <2>5. \A k \in Handlers : /\ req[k].pc = "give" => req[k].s # s
                            /\ req[k].pc = "decline" => req[k].s # s
    BY <1>17, <2>1 DEF RoleInv, Known, Asking, Giving, Alone, Declining, NoneVerified, GroupRoles
  <2>6. \A k \in Handlers : /\ req[k].pc # "idle" => req[k].s \in Students
                            /\ req[k].next \in Students \cup {NoStudent}
    BY <1>t DEF Ready, Request
  <2>7. student'[s] # New
    BY <1>17, <2>1 DEF New
  <2>8. Known'
    BY <1>17, <2>6, <2>7 DEF RoleInv, Known
  <2>9. Asking' /\ NoneVerified'
    BY <1>17, <2>1, <2>6 DEF RoleInv, Asking, NoneVerified
  <2>10. \A k \in Handlers : req'[k].pc \in {"give", "decline"} =>
           /\ req'[k] = req[k] /\ req[k].s \in Students \ {s}
           /\ student'[req[k].s] = student[req[k].s]
           /\ GroupRoles(req[k].s)' = GroupRoles(req[k].s)
    BY <1>17, <2>4, <2>5, <2>6
  <2>11. Giving'
    BY <1>17, <2>10 DEF RoleInv, Giving, Here
  <2>12. Declining'
    BY <2>10 DEF RoleInv, Declining
  <2>13. Alone'
    BY <1>17 DEF RoleInv, Alone
  <2> QED BY <2>3, <2>8, <2>9, <2>11, <2>12, <2>13 DEF RoleInv
<1>18. ASSUME NEW h \in Handlers, SetRole(h) PROVE RoleInv'
  <2> DEFINE new == NewRow(h)
             r == [Idle EXCEPT !.op = "captain", !.pc = "promote?", !.g = req[h].g,
                               !.s = req[h].next, !.name = "CAPTAIN"]
  <2>1. /\ new \in RoleRow /\ new.student = req[h].s /\ new.group = req[h].row.group
        /\ req[h].pc = "set" /\ req[h].s \in Students /\ req[h].row.student = req[h].s
    BY <1>18, <1>t DEF SetRole, At, Ready, NewRow, Row, RoleRow, Request
  <2>2. CASE ~CanReplace(req[h].row, new)
    BY <1>18, <2>2, DoneRoles DEF SetRole, Frame
  <2>3. CASE CanReplace(req[h].row, new)
    <3>1. /\ req[h].row \in roles /\ roles' = Replaced(req[h].row, new) /\ student' = student
          /\ req[h].s \notin strayed => student[req[h].s].group = req[h].row.group
      BY <1>18, <2>1, <2>3 DEF SetRole, CanReplace, RoleInv, Known, Asking, Giving, Alone, Declining, NoneVerified, OneRole
    <3>2. req[h].next \in Students \cup {NoStudent}
      BY <1>t DEF Request
    <3>3. /\ \A k \in Handlers \ {h} : req'[k] = req[k]
          /\ \/ req'[h] = Idle
             \/ req[h].next # NoStudent /\ req'[h] = r
      BY <1>18, <1>t, <2>3 DEF SetRole, Done, Go
    <3>4. Idle.pc = "idle" /\ r.pc = "promote?" /\ r.s = req[h].next /\ r.next = NoStudent
      BY DEF Idle
    <3>5. req'[h].pc = "idle"
            \/ /\ req'[h].pc = "promote?" /\ req'[h].s = req[h].next
               /\ req[h].next \in Students /\ req'[h].next = NoStudent
      BY <3>2, <3>3, <3>4
    <3>6. strayed' = strayed
      BY <1>18 DEF SetRole
    <3> HIDE DEF new, r
    <3> QED BY <1>17, <2>1, <3>1, <3>3, <3>5, <3>6
  <2> QED BY <2>2, <2>3
<1>19. ASSUME NEW h \in Handlers, Move(h) PROVE RoleInv'
  <2> DEFINE new == Row(req[h].s, req[h].g, "STUDENT")
  <2>1. /\ new \in RoleRow /\ new.student = req[h].s /\ new.group = req[h].g
        /\ req[h].pc = "move" /\ req[h].s \in Students
    BY <1>19, <1>t DEF Move, At, Ready, Row, RoleRow, Names
  <2>2. CASE ~CanReplace(req[h].row, new)
    BY <1>19, <2>2, DoneRoles DEF Move, Frame
  <2>3. CASE CanReplace(req[h].row, new)
    <3>1. /\ req[h].row \in roles /\ roles' = Replaced(req[h].row, new)
          /\ student'[req[h].s].group = req[h].g
          /\ student'[req[h].s].state = student[req[h].s].state
          /\ \A x \in Students \ {req[h].s} : student'[x] = student[x]
      <4>1. student[req[h].s] \in [group : Groups, state : States, pseudo : BOOLEAN]
        BY <1>t, <2>1, <2>3, HereInGroup
        DEF CanReplace, RoleInv, Known, Asking, Giving, Alone, Declining, NoneVerified, OneRole, Typed, NoOrphans, Move, At, Ready
      <4>2. student' = [student EXCEPT ![req[h].s].group = req[h].g]
        BY <1>19, <2>3 DEF Move
      <4>3. student'[req[h].s] = [student[req[h].s] EXCEPT !.group = req[h].g]
        BY <1>t, <2>1, <4>2
      <4> QED BY <1>19, <1>t, <2>1, <2>3, <4>1, <4>2, <4>3 DEF Move, CanReplace
    <3>2. req'[h].pc = "idle" /\ \A k \in Handlers \ {h} : req'[k] = req[k]
      BY <1>19, <1>t DEF Move, Done, Go, Idle
    <3>3. strayed' = strayed
      BY <1>19 DEF Move
    <3> HIDE DEF new
    <3> QED BY <1>17, <2>1, <3>1, <3>2, <3>3
  <2> QED BY <2>2, <2>3
<1>20. ASSUME NEW h \in Handlers, NEW s, NEW gone, LosesRoles(h, s, gone)
       PROVE  RoleInv'
  <2> USE <1>20 DEF LosesRoles
  <2>1. \A r \in roles' : r \in roles /\ r.student # s /\ r.student \in Students
    BY <1>t DEF RoleRow
  <2>2. OneRole'
    BY <2>1 DEF RoleInv, Known, Asking, Giving, Alone, Declining, NoneVerified, OneRole
  <2>3. \A x \in Students : x = s \/ GroupRoles(x) = {} => GroupRoles(x)' = {}
    BY <2>1 DEF GroupRoles
  <2>6. \A k \in Handlers : /\ req[k].pc # "idle" => req[k].s \in Students
                            /\ req[k].next \in Students \cup {NoStudent}
    BY <1>t DEF Ready, Request
  <2>8. Known'
    BY <2>6 DEF RoleInv, Known
  <2>9. Asking' /\ NoneVerified'
    BY <2>6 DEF RoleInv, Asking, NoneVerified
  <2>10. \A k \in Handlers : req'[k].pc = "give" =>
           /\ req'[k] = req[k] /\ req[k].s \in Students
           /\ Here(req[k].s)' => student'[req[k].s] = student[req[k].s]
    BY <2>6
  <2>11. Giving'
    BY <2>3, <2>10 DEF RoleInv, Giving, Here
  <2>12. Declining'
    BY <2>3, <2>6 DEF RoleInv, Declining
  <2>13. Alone'
    BY DEF RoleInv, Alone
  <2> QED BY <2>2, <2>8, <2>9, <2>11, <2>12, <2>13 DEF RoleInv
<1>21. ASSUME NEW h \in Handlers, TakeRole(h) PROVE RoleInv'
  <2> DEFINE s == req[h].s
             q == req[h].row
  <2>1. /\ s \in Students /\ q.student = s /\ req[h].pc = "take"
        /\ student[s] # New
        /\ \A k \in Handlers : req[k].pc = "give" => req[k].s # s
    BY <1>21, <1>t DEF TakeRole, At, Ready, RoleInv, Known, Alone
  <2>2. CASE q \notin roles
    BY <1>21, <2>2, DoneRoles DEF TakeRole, Frame
  <2>3. CASE q \in roles
    <3> DEFINE gone == {q}
    <3>1. /\ roles' = roles \ gone /\ gone \in SUBSET roles
          /\ \A r \in gone : r.student = s
          /\ \A r \in roles : r.student = s => r \in gone
      BY <1>21, <2>1, <2>3 DEF TakeRole, RoleInv, OneRole
    <3>2. /\ student'[s] # New
          /\ student'[s].state = "APPROVED" => student[s].state = "APPROVED"
          /\ \A x \in Students \ {s} : student'[x] = student[x]
      <4>1. CASE student' = student
        BY <2>1, <4>1
      <4>2. CASE student' = [student EXCEPT ![s].state = "DECLINED"]
        <5>1. student[s] \in [group : Groups, state : States, pseudo : BOOLEAN]
          BY <2>1, <2>3, HereInGroup DEF Typed, NoOrphans
        <5>2. student'[s] = [student[s] EXCEPT !.state = "DECLINED"]
          BY <1>t, <2>1, <4>2
        <5> QED BY <1>t, <4>2, <5>1, <5>2 DEF New
      <4> QED BY <1>21, <2>3, <4>1, <4>2 DEF TakeRole
    <3>3. /\ \A k \in Handlers \ {h} : req'[k] = req[k]
          /\ \/ req'[h].pc = "idle"
             \/ /\ req'[h].pc = "decline" /\ req'[h].s = s
                /\ req'[h].next = req[h].next
      <4>1. req[h] \in Request
        BY <1>t
      <4> QED BY <1>21, <1>t, <2>3, <4>1 DEF TakeRole, Done, Go, Idle, Request
    <3>4. LosesRoles(h, s, gone)
      BY <1>21, <2>1, <3>1, <3>2, <3>3 DEF TakeRole, LosesRoles
    <3> QED BY <1>20, <3>4
  <2> QED BY <2>2, <2>3
<1>22. ASSUME NEW h \in Handlers, Decline(h) PROVE RoleInv'
  <2> DEFINE s == req[h].s
  <2>1. /\ s \in Students /\ student[s] # New /\ GroupRoles(s) = {}
        /\ \A k \in Handlers : req[k].pc = "give" => req[k].s # s
    BY <1>22, <1>t DEF Decline, At, Ready, RoleInv, Known, Alone, Declining
  <2> DEFINE gone == {}
  <2>2. /\ roles' = roles \ gone /\ gone \in SUBSET roles
        /\ \A r \in gone : r.student = s
        /\ \A r \in roles : r.student = s => r \in gone
    BY <1>22, <2>1 DEF Decline, Cascade, GroupRoles
  <2>3. /\ student'[s] # New
        /\ student'[s].state = "APPROVED" => student[s].state = "APPROVED"
        /\ \A x \in Students \ {s} : student'[x] = student[x]
    <3>1. CASE ~Here(s)
      BY <1>22, <2>1, <3>1 DEF Decline
    <3>2. CASE Here(s) /\ student[s].pseudo
      BY <1>22, <1>t, <2>1, <3>2 DEF Decline, New, Gone
    <3>3. CASE Here(s) /\ ~student[s].pseudo
      <4>1. student[s] \in [group : Groups, state : States, pseudo : BOOLEAN]
        BY <2>1, <3>3, HereInGroup DEF Typed
      <4>2. student' = [student EXCEPT ![s].state = "DECLINED"]
        BY <1>22, <3>3 DEF Decline
      <4>3. student'[s] = [student[s] EXCEPT !.state = "DECLINED"]
        BY <1>t, <2>1, <4>2
      <4> QED BY <1>t, <4>1, <4>2, <4>3 DEF New
    <3> QED BY <3>1, <3>2, <3>3
  <2>4. req'[h].pc = "idle" /\ \A k \in Handlers \ {h} : req'[k] = req[k]
    BY <1>22, <1>t DEF Decline, Done, Go, Idle
  <2>5. LosesRoles(h, s, gone)
    BY <1>22, <2>1, <2>2, <2>3, <2>4 DEF Decline, LosesRoles
  <2> QED BY <1>20, <2>5
<1>23. ASSUME NEW h \in Handlers, NEW s \in Students, Delete(h, s) PROVE RoleInv'
  <2> DEFINE gone == GroupRoles(s)
  <2>1. /\ roles' = roles \ gone /\ gone \in SUBSET roles
        /\ \A r \in gone : r.student = s
        /\ \A r \in roles : r.student = s => r \in gone
    BY <1>23 DEF Delete, Cascade, GroupRoles
  <2>2. /\ student'[s] = Gone /\ req' = req
        /\ \A x \in Students \ {s} : student'[x] = student[x]
    BY <1>23, <1>t DEF Delete
  <2>3. student'[s] # New /\ ~Here(s)' /\ student'[s].state # "APPROVED"
    BY <2>2 DEF Gone, New, Here, States
  <2>4. LosesRoles(h, s, gone)
    BY <1>23, <2>1, <2>2, <2>3 DEF Delete, LosesRoles
  <2> QED BY <1>20, <2>4
<1>a. ASSUME NEW h \in Handlers, NEW s \in Students, NEW g \in Groups, Claim(h, s, g)
      PROVE  RoleInv'
  <2> DEFINE r == [Idle EXCEPT !.op = "claim", !.pc = "account", !.s = s, !.g = g]
  <2>1. r \in Request /\ r.pc = "account" /\ r.s = s /\ r.next = NoStudent
    BY DEF Idle, Request, AllOps, Names, States
  <2> HIDE DEF r
  <2> QED BY <1>a, <1>n, <2>1, FrameRoles DEF Claim, r
<1>b. ASSUME NEW h \in Handlers, NEW s \in Students, Here(s), s = req[h].s, roles' = roles,
             student'[s].state = student[s].state,
             student'[s].group # student[s].group => s \in strayed',
             strayed \subseteq strayed', strayed' \subseteq strayed \cup {s},
             \A x \in Students \ {s} : student'[x] = student[x],
             req[h].pc # "idle",
             \/ req'[h].pc = "idle"
             \/ req'[h].pc = "regroup" /\ req'[h].s = s /\ req'[h].next = req[h].next,
             \A k \in Handlers \ {h} : req'[k] = req[k]
      PROVE  RoleInv'
  <2>1. student'[s] # New /\ Here(s)'
    BY <1>b DEF Here, New, States
  <2>2. \A k \in Handlers : /\ req[k].pc # "idle" => req[k].s \in Students
                            /\ req[k].next \in Students \cup {NoStudent}
    BY <1>t DEF Ready, Request
  <2>3. \A x \in Students : /\ GroupRoles(x)' = GroupRoles(x)
                            /\ student'[x].state = student[x].state
                            /\ x \notin strayed' => student'[x].group = student[x].group
    BY <1>b DEF GroupRoles
  <2>4. OneRole'
    BY <1>b, <1>t, <2>3 DEF RoleInv, OneRole, RoleRow
  <2>5. Known'
    BY <1>b, <2>1, <2>2 DEF RoleInv, Known
  <2>6. Asking' /\ NoneVerified' /\ Declining' /\ Alone'
    BY <1>b, <2>2, <2>3 DEF RoleInv, Asking, NoneVerified, Declining, Alone
  <2>7. Giving'
    BY <1>b, <2>2, <2>3 DEF RoleInv, Giving, Here
  <2> QED BY <2>4, <2>5, <2>6, <2>7 DEF RoleInv
<1>c. ASSUME NEW h \in Handlers, TakeAccount(h) PROVE RoleInv'
  <2> DEFINE s == req[h].s
             r == [req[h] EXCEPT !.pc = "regroup"]
  <2>1. s \in Students /\ req[h].pc = "account"
    BY <1>c, <1>t DEF TakeAccount, At, Ready
  <2>2. CASE ~Here(s)
    BY <1>c, <2>2, DoneRoles DEF TakeAccount, Frame
  <2>3. CASE Here(s)
    <3>1. student[s] \in [group : Groups, state : States, pseudo : BOOLEAN]
      BY <2>1, <2>3, HereInGroup DEF Typed
    <3>2. student' = [student EXCEPT ![s].pseudo = FALSE]
      BY <1>c, <2>3 DEF TakeAccount
    <3>3. student'[s] = [student[s] EXCEPT !.pseudo = FALSE]
      BY <1>t, <2>1, <3>2
    <3>4. /\ student'[s].state = student[s].state /\ student'[s].group = student[s].group
          /\ \A x \in Students \ {s} : student'[x] = student[x]
      BY <1>t, <2>1, <3>1, <3>2, <3>3
    <3>5. r.pc = "regroup" /\ r.s = s /\ r.next = req[h].next
      BY <1>t DEF Request
    <3>6. req'[h] = r /\ \A k \in Handlers \ {h} : req'[k] = req[k]
      BY <1>c, <1>t, <2>3 DEF TakeAccount, Go
    <3>7. roles' = roles /\ strayed' = strayed
      BY <1>c DEF TakeAccount
    <3> HIDE DEF s, r
    <3> QED BY <1>b, <2>1, <2>3, <3>4, <3>5, <3>6, <3>7 DEF s
  <2> QED BY <2>2, <2>3
<1>d. ASSUME NEW h \in Handlers, Regroup(h) PROVE RoleInv'
  <2> DEFINE s == req[h].s
  <2>1. s \in Students /\ req[h].pc = "regroup"
    BY <1>d, <1>t DEF Regroup, At, Ready
  <2>2. CASE ~Here(s)
    BY <1>d, <2>2, DoneRoles DEF Regroup, Frame
  <2>3. CASE Here(s)
    <3>1. student[s] \in [group : Groups, state : States, pseudo : BOOLEAN]
      BY <2>1, <2>3, HereInGroup DEF Typed
    <3>2. student' = [student EXCEPT ![s].group = req[h].g]
      BY <1>d, <2>3 DEF Regroup
    <3>3. student'[s] = [student[s] EXCEPT !.group = req[h].g]
      BY <1>t, <2>1, <3>2
    <3>4. /\ student'[s].state = student[s].state /\ student'[s].group = req[h].g
          /\ \A x \in Students \ {s} : student'[x] = student[x]
      BY <1>t, <2>1, <3>1, <3>2, <3>3
    <3>5. /\ student'[s].group # student[s].group => s \in strayed'
          /\ strayed \subseteq strayed' /\ strayed' \subseteq strayed \cup {s}
      BY <1>d, <2>3, <3>4 DEF Regroup
    <3>6. req'[h].pc = "idle" /\ \A k \in Handlers \ {h} : req'[k] = req[k]
      BY <1>d, <1>t DEF Regroup, Done, Go, Idle
    <3>7. roles' = roles
      BY <1>d DEF Regroup
    <3>8. req[h].pc # "idle"
      BY <2>1
    <3> QED BY <1>b, <2>1, <2>3, <3>4, <3>5, <3>6, <3>7, <3>8
  <2> QED BY <2>2, <2>3
<1>24. CASE UNCHANGED vars
  BY <1>24
  DEF vars, RoleInv, OneRole, Known, Asking, Giving, Alone, Declining, NoneVerified,
      GroupRoles, Here
<1>25. ASSUME NEW h \in Handlers, Begin(h) PROVE RoleInv'
  <2>1. "verifyUser" \notin Ops /\ "verifyGroup" \notin Ops
    BY DEF MovingOps
  <2> QED BY <1>25, <2>1, <1>1, <1>2, <1>5, <1>8, <1>9, <1>10, <1>11, <1>12, <1>23,
             <1>a
      DEF Begin, VerifyByBot, VerifyInGroup, Starts
<1>26. ASSUME NEW h \in Handlers, Continue(h) PROVE RoleInv'
  <2>1. ~ReadGroup(h) /\ ~Tell(h) /\ ~WriteState(h)
    BY DEF RoleInv, NoneVerified, ReadGroup, Tell, WriteState, At
  <2> QED BY <1>26, <2>1, <1>3, <1>4, <1>6, <1>13, <1>14, <1>15, <1>16, <1>18, <1>19, <1>21,
             <1>22, <1>c, <1>d
      DEF Continue
<1> QED BY <1>24, <1>25, <1>26 DEF Next

LEMMA AlwaysRoles ==
  ASSUME Ops \subseteq MovingOps
  PROVE  Spec => []RoleInv
<1>1. Init => RoleInv
  <2> SUFFICES ASSUME Init PROVE RoleInv
    OBVIOUS
  <2>1. \A h \in Handlers : req[h].pc = "idle"
    BY DEF Init, Idle
  <2>2. PICK rank \in [Students -> Names] :
          roles = {Row(s, student[s].group, rank[s]) :
                     s \in {t \in Students : student[t].state = "APPROVED"}}
    BY DEF Init
  <2>3. OneRole
    BY <2>2 DEF OneRole, Row
  <2> QED BY <2>1, <2>3 DEF RoleInv, Known, Asking, Giving, Alone, Declining, NoneVerified
<1>2. Typed /\ Typed' /\ RoleInv /\ [Next]_vars => RoleInv'
  BY RolesKept
<1> QED BY <1>1, <1>2, AlwaysTyped, PTL DEF Spec

\* Of requests that cross, move roles about and verify nobody, however many there
\* are: no student ends up with two roles, with one that makes no member of him, or
\* with one outside his group unless his registration has moved him.
THEOREM RolesInOrder ==
  ASSUME Ops \subseteq MovingOps
  PROVE  Spec => []OneRole
<1>1. RoleInv => OneRole
  BY DEF RoleInv
<1> QED BY <1>1, AlwaysRoles, PTL

-----------------------------------------------------------------------------
(* One request at a time.  Between the steps of a request the group may be  *)
(* out of order, but only in the one student the request is about, and in a *)
(* way the rest of the request puts right: Stage says which.                *)

Serial == \A g, h \in Handlers : g = h

\* One student of a population in good order.
Settled(s) ==
  IF student[s].state = "APPROVED"
  THEN \E n \in Names : GroupRoles(s) = {Row(s, student[s].group, n)}
  ELSE GroupRoles(s) = {}

OneCaptain == \A g \in Groups : \A s, t \in Captains(g) : s = t

\* Where the student of a request may be out of order: given his role before his
\* state is written, or the other way round, or his role taken first.
HalfDone == {"give", "tell", "state", "decline", "failed"}

Others(r) == \A t \in Students : (r.pc \in HalfDone /\ t = r.s) \/ Settled(t)

\* The student of the request is there and still no member.
NoMember(r) == Here(r.s) /\ student[r.s].state # "APPROVED"

\* Nobody is captain where the request makes one.
NoRival(r, g) == r.name = "CAPTAIN" => Captains(g) = {}

Verifying(r) ==
  /\ r.pc = "captain?" =>
       /\ NoMember(r) /\ r.op \in {"request", "verifyUser"}
       /\ r.op = "verifyUser" => r.state = "APPROVED" /\ student[r.s].group = r.g
  /\ r.pc = "group?" =>
       /\ NoMember(r) /\ r.op = "verifyUser" /\ r.state = "APPROVED"
       /\ student[r.s].group = r.g /\ NoRival(r, r.g)
  /\ r.pc = "give" =>
       /\ Here(r.s) /\ student[r.s].group = r.g /\ GroupRoles(r.s) = {}
       /\ NoRival(r, r.g)
       /\ IF r.op = "verifyUser"
          THEN NoMember(r) /\ r.state = "APPROVED" ELSE student[r.s].state = "APPROVED"
  /\ r.pc = "tell" => r.op = "verifyUser"
  /\ r.pc \in {"tell", "state"} /\ r.op = "verifyUser" =>
       /\ NoMember(r)
       /\ IF r.state = "APPROVED"
          THEN \E n \in Names : GroupRoles(r.s) = {Row(r.s, student[r.s].group, n)}
          ELSE GroupRoles(r.s) = {}
  /\ r.pc = "state" /\ r.op # "verifyUser" =>
       /\ r.op = "verifyGroup" /\ NoMember(r) /\ GroupRoles(r.s) = {}
       /\ student[r.s].group = r.g /\ r.name = "STUDENT"
  /\ r.pc = "write" => NoMember(r)

Promoting(r) ==
  /\ r.pc = "oldCaptain?" =>
       /\ Here(r.s) /\ student[r.s].group = r.g /\ r.name = "CAPTAIN"
       /\ r.next = NoStudent
  /\ r.pc = "promote?" => r.op = "captain"
  /\ r.pc \in {"role?", "promote?"} /\ r.op \in {"captain", "switch"} =>
       /\ r.name = "CAPTAIN" =>
            Here(r.s) /\ student[r.s].group = r.g /\ Captains(r.g) = {}
       /\ r.next # NoStudent =>
            /\ r.op = "captain" /\ r.name = "STUDENT" /\ r.s \in Captains(r.g)
            /\ Here(r.next) /\ student[r.next].group = r.g
  /\ r.pc \in {"set", "rank?", "take", "move"} => r.row \in GroupRoles(r.s)
  /\ r.pc = "set" =>
       /\ NoRival(r, r.row.group)
       /\ r.next # NoStudent =>
            /\ r.name = "STUDENT" /\ r.row.name = "CAPTAIN" /\ r.row.group = r.g
            /\ Here(r.next) /\ student[r.next].group = r.g

Removing(r) ==
  /\ r.pc = "rank?" => r.op = "remove"
  /\ r.pc = "take" => r.op \in {"remove", "leave"}
  /\ r.pc = "decline" => Here(r.s) /\ GroupRoles(r.s) = {}

Stage(r) == Verifying(r) /\ Promoting(r) /\ Removing(r)

StageInv == OneCaptain /\ \A h \in Handlers : Stage(req[h]) /\ Others(req[h])

\* The student of a request with no student's order left to restore.
LEMMA AllSettled ==
  ASSUME NEW r, Others(r), r.pc \notin HalfDone
  PROVE  \A t \in Students : Settled(t)
BY DEF Others

\* With one request at a time only that one is anywhere.
LEMMA OneStage ==
  ASSUME Serial, NEW h \in Handlers, OneCaptain', Stage(req[h])', Others(req[h])'
  PROVE  StageInv'
<1>1. \A k \in Handlers : k = h
  BY DEF Serial
<1>2. \A k \in Handlers : Stage(req[k])' /\ Others(req[k])'
  BY <1>1
<1> QED BY <1>2 DEF StageInv

\* A step that leaves the tables alone.
LEMMA FrameStage ==
  ASSUME Serial, Typed, OneCaptain, NEW h \in Handlers, NEW r \in Request,
         Go(h, r), Frame, Stage(r), Others(r)
  PROVE  StageInv'
<1>1. req'[h] = r /\ student' = student /\ roles' = roles
  BY DEF Typed, TypeOK, Go, Frame
<1>2. \A x : GroupRoles(x)' = GroupRoles(x)
  BY <1>1 DEF GroupRoles
<1>3. \A g : Captains(g)' = Captains(g)
  BY <1>1 DEF Captains, GroupRoles, Here
<1>4. OneCaptain'
  BY <1>3 DEF OneCaptain
<1>5. Verifying(r)' <=> Verifying(r)
  BY <1>1, <1>2, <1>3 DEF Verifying, NoMember, NoRival, Here
<1>6. Promoting(r)' <=> Promoting(r)
  BY <1>1, <1>2, <1>3 DEF Promoting, NoRival, Here
<1>7. Removing(r)' <=> Removing(r)
  BY <1>1, <1>2 DEF Removing, Here
<1>8. Others(r)' <=> Others(r)
  BY <1>1, <1>2 DEF Others, Settled
<1>9. Stage(req[h])' /\ Others(req[h])'
  BY <1>1, <1>5, <1>6, <1>7, <1>8 DEF Stage, Verifying, Promoting, Removing, Others
<1> QED BY <1>4, <1>9, OneStage

\* The same when the request ends.
LEMMA EndStage ==
  ASSUME Serial, Typed, OneCaptain, NEW h \in Handlers, Done(h), Frame,
         \A t \in Students : Settled(t)
  PROVE  StageInv'
<1>1. Idle \in Request /\ Idle.pc = "idle"
  BY DEF Idle, Request, AllOps, Names, States
<1>2. Stage(Idle)
  BY <1>1 DEF Stage, Verifying, Promoting, Removing
<1>3. Others(Idle)
  BY DEF Others
<1> QED BY <1>1, <1>2, <1>3, FrameStage DEF Done

\* A step that changes one student and his roles leaves the others in order; it
\* makes him captain only where nobody else is.
LEMMA OneChanged ==
  ASSUME OneCaptain, NEW s \in Students,
         \A t \in Students \ {s} : student'[t] = student[t] /\ Settled(t),
         \A r : r.student # s => (r \in roles <=> r \in roles'),
         \A g \in Groups : s \in Captains(g)' => s \in Captains(g) \/ Captains(g) \subseteq {s}
  PROVE  OneCaptain' /\ \A t \in Students \ {s} : Settled(t)'
<1>1. \A t \in Students \ {s} : GroupRoles(t)' = GroupRoles(t)
  BY DEF GroupRoles
<1>2. \A t \in Students \ {s} : Settled(t)'
  BY <1>1 DEF Settled
<1>3. \A g \in Groups : \A t \in Students \ {s} : t \in Captains(g)' <=> t \in Captains(g)
  BY <1>1 DEF Captains, Here
<1>4. \A g \in Groups : Captains(g)' \subseteq Students
  BY DEF Captains
<1>5. OneCaptain'
  <2> SUFFICES ASSUME NEW g \in Groups, NEW x \in Captains(g)', NEW y \in Captains(g)'
               PROVE  x = y
    BY DEF OneCaptain
  <2>1. x \in Students /\ y \in Students
    BY <1>4
  <2>2. \A u, v \in Captains(g) : u = v
    BY DEF OneCaptain
  <2> QED BY <1>3, <2>1, <2>2
<1> QED BY <1>2, <1>5

\* The same when it ends the request and leaves him in order too.
LEMMA EndChanged ==
  ASSUME Serial, OneCaptain, NEW h \in Handlers, NEW s \in Students,
         \A t \in Students \ {s} : student'[t] = student[t] /\ Settled(t),
         \A r : r.student # s => (r \in roles <=> r \in roles'),
         \A g \in Groups : s \in Captains(g)' => s \in Captains(g) \/ Captains(g) \subseteq {s},
         Settled(s)', req'[h].pc = "idle"
  PROVE  StageInv'
<1>1. OneCaptain' /\ \A t \in Students \ {s} : Settled(t)'
  BY OneChanged
<1>2. Others(req[h])'
  BY <1>1 DEF Others
<1>3. Stage(req[h])'
  BY DEF Stage, Verifying, Promoting, Removing
<1> QED BY <1>1, <1>2, <1>3, OneStage

\* The same when he is half-way.
LEMMA HalfChanged ==
  ASSUME Serial, OneCaptain, NEW h \in Handlers, NEW s \in Students,
         \A t \in Students \ {s} : student'[t] = student[t] /\ Settled(t),
         \A r : r.student # s => (r \in roles <=> r \in roles'),
         \A g \in Groups : s \in Captains(g)' => s \in Captains(g) \/ Captains(g) \subseteq {s},
         req'[h].pc \in HalfDone, req'[h].s = s, Stage(req[h])'
  PROVE  StageInv'
<1>1. OneCaptain' /\ \A t \in Students \ {s} : Settled(t)'
  BY OneChanged
<1>2. Others(req[h])'
  BY <1>1 DEF Others
<1> QED BY <1>1, <1>2, OneStage

\* A member's only role, whose group is his.
LEMMA OnlyRole ==
  ASSUME NEW s \in Students, Settled(s), NEW r \in GroupRoles(s)
  PROVE  /\ student[s].state = "APPROVED" /\ GroupRoles(s) = {r}
         /\ r.student = s /\ r.group = student[s].group /\ r.name \in Names
         /\ r = Row(s, student[s].group, r.name) /\ r \in roles
BY DEF Settled, Row, GroupRoles

LEMMA StagesKept ==
  ASSUME Serial, PendingOnly, "CAPTAIN" \notin SwitchNames, Typed, StageInv, [Next]_vars,
         strayed' = {}
  PROVE  StageInv'
<1> USE MembershipAssumption
<1>t. /\ TypeOK
      /\ student \in [Students -> StudentRow] /\ roles \subseteq RoleRow
      /\ req \in [Handlers -> Request]
      /\ \A h \in Handlers : req[h] \in Request /\ Ready(req[h])
  BY DEF Typed, TypeOK
<1>s. /\ OneCaptain
      /\ \A h \in Handlers : /\ Others(req[h]) /\ Verifying(req[h])
                             /\ Promoting(req[h]) /\ Removing(req[h])
  BY DEF StageInv, Stage
<1>i. ASSUME NEW h \in Handlers, req[h].pc \notin HalfDone
      PROVE  \A t \in Students : Settled(t)
  BY <1>i, <1>s, AllSettled
<1>j. ASSUME NEW h \in Handlers, req[h] = Idle
      PROVE  \A t \in Students : Settled(t)
  BY <1>i, <1>j DEF Idle, HalfDone
<1>1. ASSUME NEW h \in Handlers, NEW s \in Students, NEW g \in Groups, Register(h, s, g)
      PROVE  StageInv'
  <2>1. /\ \A t \in Students : Settled(t)
        /\ student[s] = New /\ roles' = roles /\ req' = req /\ req[h] = Idle
        /\ student' = [student EXCEPT ![s] = [group |-> g, state |-> "PENDING", pseudo |-> FALSE]]
    BY <1>1, <1>j DEF Register, Starts
  <2>2. GroupRoles(s) = {} /\ GroupRoles(s)' = {}
    BY <2>1 DEF Settled, New, GroupRoles
  <2>3. student'[s].state = "PENDING" /\ \A t \in Students \ {s} : student'[t] = student[t]
    BY <1>t, <2>1
  <2>4. Settled(s)'
    BY <2>2, <2>3 DEF Settled
  <2>5. \A k \in Groups : s \notin Captains(k)'
    BY <2>2 DEF Captains
  <2>6. req'[h].pc = "idle"
    BY <2>1 DEF Idle
  <2> QED BY <1>s, <2>1, <2>3, <2>4, <2>5, <2>6, EndChanged
<1>2. ASSUME NEW h \in Handlers, NEW s \in Students, NEW g \in Groups, AddUnregistered(h, s, g)
      PROVE  StageInv'
  <2>1. /\ \A t \in Students : Settled(t)
        /\ student[s] = New /\ roles' = roles
        /\ student' = [student EXCEPT ![s] = [group |-> g, state |-> "APPROVED", pseudo |-> TRUE]]
    BY <1>2, <1>j DEF AddUnregistered, Starts
  <2>2. GroupRoles(s) = {} /\ GroupRoles(s)' = {}
    BY <2>1 DEF Settled, New, GroupRoles
  <2>3. /\ student'[s].state = "APPROVED" /\ student'[s].group = g
        /\ \A t \in Students \ {s} : student'[t] = student[t]
    BY <1>t, <2>1
  <2>4. \A k \in Groups : s \notin Captains(k)'
    BY <2>2 DEF Captains
  <2>5. /\ req'[h].pc = "give" /\ req'[h].s = s /\ req'[h].g = g
        /\ req'[h].op = "pseudo" /\ req'[h].name = "STUDENT"
    BY <1>2, <1>t DEF AddUnregistered, Go, Idle
  <2>6. Stage(req[h])'
    BY <2>2, <2>3, <2>5
    DEF Stage, Verifying, Promoting, Removing, NoRival, Here, States
  <2> QED BY <1>s, <2>1, <2>3, <2>4, <2>5, <2>6, HalfChanged DEF HalfDone
<1>3. ASSUME NEW h \in Handlers, NEW s \in Students, NEW c \in BOOLEAN, NEW state \in States,
             VerifyByBot(h, s, c, state)
      PROVE  StageInv'
  <2>1. /\ \A t \in Students : Settled(t)
        /\ Here(s) /\ student[s].state = "PENDING" /\ Frame
    BY <1>3, <1>j DEF VerifyByBot, Starts
  <2>2. student[s].group \in Groups
    BY <1>t, <2>1, HereInGroup
  <2>3. PICK r : /\ Go(h, r)
                 /\ r = [Idle EXCEPT !.op = "verifyUser", !.s = s, !.g = student[s].group,
                             !.state = state, !.name = IF c THEN "CAPTAIN" ELSE "STUDENT",
                             !.pc = IF state # "APPROVED" THEN "tell"
                                    ELSE IF c THEN "captain?" ELSE "group?"]
    BY <1>3 DEF VerifyByBot
  <2>4. /\ r \in Request /\ r.s = s /\ r.g = student[s].group /\ r.op = "verifyUser"
        /\ r.state = state
        /\ \/ r.pc = "tell" /\ state # "APPROVED"
           \/ r.pc = "captain?" /\ state = "APPROVED"
           \/ r.pc = "group?" /\ state = "APPROVED" /\ r.name = "STUDENT"
    BY <2>2, <2>3, ZenonT(60) DEF Idle, Request, AllOps, Names, States
  <2>5. GroupRoles(s) = {}
    BY <2>1 DEF Settled
  <2>6. Stage(r) /\ Others(r)
    BY <2>1, <2>4, <2>5
    DEF Stage, Verifying, Promoting, Removing, NoMember, NoRival, Others
  <2> QED BY <1>s, <2>1, <2>3, <2>4, <2>6, FrameStage
<1>4. ASSUME NEW h \in Handlers, CheckCaptain(h) PROVE StageInv'
  <2>1. /\ \A t \in Students : Settled(t)
        /\ Frame /\ req[h].pc = "captain?" /\ Verifying(req[h])
    BY <1>4, <1>i, <1>s DEF CheckCaptain, At, HalfDone
  <2>2. CASE Done(h)
    BY <1>s, <2>1, <2>2, EndStage
  <2>3. ASSUME ~HasCaptain(req[h].g),
               Go(h, [req[h] EXCEPT !.pc = IF req[h].op = "request" THEN "write" ELSE "group?"])
        PROVE  StageInv'
    <3>1. PICK r : /\ Go(h, r)
                   /\ r = [req[h] EXCEPT !.pc = IF req[h].op = "request" THEN "write"
                                                ELSE "group?"]
      BY <2>3
    <3>2. /\ r \in Request /\ r.s = req[h].s /\ r.g = req[h].g /\ r.op = req[h].op
          /\ r.state = req[h].state /\ r.name = req[h].name
          /\ r.pc = IF req[h].op = "request" THEN "write" ELSE "group?"
      BY <1>t, <3>1 DEF Request
    <3>3. Captains(r.g) = {}
      BY <2>3, <3>2 DEF HasCaptain
    <3>4. Verifying(r)
      BY <2>1, <3>2, <3>3 DEF Verifying, NoMember, NoRival
    <3>5. Stage(r) /\ Others(r)
      BY <2>1, <3>2, <3>4 DEF Stage, Promoting, Removing, Others
    <3> QED BY <1>s, <2>1, <3>1, <3>2, <3>5, FrameStage
  <2> QED BY <1>4, <2>2, <2>3 DEF CheckCaptain
<1>5. ASSUME NEW h \in Handlers, ReadGroup(h) PROVE StageInv'
  <2>1. /\ \A t \in Students : Settled(t)
        /\ Frame /\ req[h].pc = "group?" /\ Verifying(req[h])
    BY <1>5, <1>i, <1>s DEF ReadGroup, At, HalfDone
  <2>2. CASE Done(h)
    BY <1>s, <2>1, <2>2, EndStage
  <2>3. CASE Go(h, [req[h] EXCEPT !.pc = "give", !.g = student[req[h].s].group])
    <3>1. PICK r : /\ Go(h, r)
                   /\ r = [req[h] EXCEPT !.pc = "give", !.g = student[req[h].s].group]
      BY <2>3
    <3>2. /\ NoMember(req[h]) /\ req[h].op = "verifyUser" /\ req[h].state = "APPROVED"
          /\ student[req[h].s].group = req[h].g /\ NoRival(req[h], req[h].g)
          /\ req[h].s \in Students
      BY <1>t, <2>1 DEF Verifying, Ready
    <3>3. /\ r \in Request /\ r.s = req[h].s /\ r.g = req[h].g /\ r.op = "verifyUser"
          /\ r.state = "APPROVED" /\ r.name = req[h].name /\ r.pc = "give"
      BY <1>t, <3>1, <3>2, ZenonT(60) DEF Request
    <3>4. GroupRoles(r.s) = {}
      BY <2>1, <3>2, <3>3 DEF Settled, NoMember
    <3>5. Stage(r) /\ Others(r)
      BY <2>1, <3>2, <3>3, <3>4
      DEF Stage, Verifying, Promoting, Removing, Others, NoMember, NoRival
    <3> QED BY <1>s, <2>1, <3>1, <3>3, <3>5, FrameStage
  <2> QED BY <1>5, <2>2, <2>3 DEF ReadGroup
<1>6. ASSUME NEW h \in Handlers, Give(h) PROVE StageInv'
  <2>0. PICK s, g, n : s = req[h].s /\ g = req[h].g /\ n = req[h].name
    OBVIOUS
  <2>1. /\ req[h].pc = "give" /\ Verifying(req[h]) /\ Others(req[h])
        /\ s \in Students /\ g \in Groups /\ n \in Names
    BY <2>0, <1>6, <1>s, <1>t DEF Give, At, Ready, Request
  <2>2. /\ Here(s) /\ student[s].group = g /\ GroupRoles(s) = {}
        /\ n = "CAPTAIN" => Captains(g) = {}
        /\ IF req[h].op = "verifyUser"
           THEN student[s].state # "APPROVED" /\ req[h].state = "APPROVED"
           ELSE student[s].state = "APPROVED"
    BY <2>0, <2>1 DEF Verifying, NoRival, NoMember
  <2>3. roles' = roles \cup {Row(s, g, n)} /\ student' = student
    BY <2>0, <1>6, <2>2 DEF Give
  <2>4. GroupRoles(s)' = {Row(s, g, n)}
    BY <2>2, <2>3 DEF GroupRoles, Row
  <2>5. \A t \in Students \ {s} : student'[t] = student[t] /\ Settled(t)
    BY <2>0, <2>1, <2>3 DEF Others
  <2>6. \A r : r.student # s => (r \in roles <=> r \in roles')
    BY <2>3 DEF Row
  <2>7. \A k \in Groups : s \in Captains(k)' => s \in Captains(k) \/ Captains(k) \subseteq {s}
    BY <2>2, <2>3, <2>4 DEF Captains, Row
  <2>8. CASE req[h].op = "verifyUser"
    <3>1. /\ req'[h].pc = "tell" /\ req'[h].s = s /\ req'[h].op = "verifyUser"
          /\ req'[h].state = "APPROVED"
      BY <2>0, <1>6, <1>t, <2>2, <2>8 DEF Give, Go, Request
    <3>2. Here(s)' /\ student'[s].state # "APPROVED" /\ student'[s].group = g
      BY <2>2, <2>3, <2>8 DEF Here
    <3>3. Verifying(req[h])'
      BY <2>1, <2>4, <3>1, <3>2 DEF Verifying, NoMember
    <3>4. Stage(req[h])'
      BY <3>1, <3>3 DEF Stage, Promoting, Removing
    <3> QED BY <1>s, <2>1, <2>5, <2>6, <2>7, <3>1, <3>4, HalfChanged DEF HalfDone
  <2>9. CASE req[h].op # "verifyUser"
    <3>1. req'[h].pc = "idle"
      BY <1>6, <1>t, <2>9 DEF Give, Done, Go, Idle
    <3>2. Settled(s)'
      BY <2>1, <2>2, <2>3, <2>4, <2>9 DEF Settled
    <3> QED BY <1>s, <2>1, <2>5, <2>6, <2>7, <3>1, <3>2, EndChanged
  <2> QED BY <2>8, <2>9
<1>7. ASSUME NEW h \in Handlers, Tell(h) PROVE StageInv'
  <2>1. /\ req[h].pc = "tell" /\ Verifying(req[h]) /\ Others(req[h]) /\ Frame
        /\ req[h] \in Request
    BY <1>7, <1>s, <1>t DEF Tell, At
  <2>2. PICK p \in {"state", "failed"} : Go(h, [req[h] EXCEPT !.pc = p])
    BY <1>7 DEF Tell
  <2>3. PICK r : Go(h, r) /\ r = [req[h] EXCEPT !.pc = p]
    BY <2>2
  <2>4. /\ r \in Request /\ r.pc = p /\ r.s = req[h].s /\ r.op = req[h].op
        /\ r.state = req[h].state
    BY <2>1, <2>3 DEF Request
  <2>5. Verifying(r)
    BY <2>1, <2>4 DEF Verifying, NoMember
  <2>6. Stage(r) /\ Others(r)
    BY <2>1, <2>4, <2>5 DEF Stage, Promoting, Removing, Others, HalfDone
  <2> QED BY <1>s, <2>1, <2>3, <2>4, <2>6, FrameStage
<1>8. ASSUME NEW h \in Handlers, NEW s \in Students, NEW state \in States,
             VerifyInGroup(h, s, state)
      PROVE  StageInv'
  <2>1. /\ \A t \in Students : Settled(t)
        /\ Here(s) /\ student[s].state = "PENDING" /\ Frame
    BY <1>8, <1>j DEF VerifyInGroup, Starts
  <2>2. student[s].group \in Groups
    BY <1>t, <2>1, HereInGroup
  <2>3. PICK r : /\ Go(h, r)
                 /\ r = [Idle EXCEPT !.op = "verifyGroup", !.pc = "state", !.s = s,
                        !.g = student[s].group, !.state = state]
    BY <1>8 DEF VerifyInGroup
  <2>4. /\ r \in Request /\ r.s = s /\ r.g = student[s].group /\ r.op = "verifyGroup"
        /\ r.pc = "state" /\ r.name = "STUDENT"
    BY <2>2, <2>3 DEF Idle, Request, AllOps, Names, States
  <2>5. GroupRoles(s) = {}
    BY <2>1 DEF Settled
  <2>6. Stage(r) /\ Others(r)
    BY <2>1, <2>4, <2>5 DEF Stage, Verifying, Promoting, Removing, NoMember, Others
  <2> QED BY <1>s, <2>1, <2>3, <2>4, <2>6, FrameStage
<1>9. ASSUME NEW h \in Handlers, WriteState(h) PROVE StageInv'
  <2>0. PICK s : s = req[h].s
    OBVIOUS
  <2>1. /\ req[h].pc = "state" /\ Verifying(req[h]) /\ Others(req[h])
        /\ s \in Students /\ req[h].state \in States
    BY <2>0, <1>9, <1>s, <1>t DEF WriteState, At, Ready, Request
  <2>2. Here(s)
    BY <2>0, <2>1 DEF Verifying, NoMember
  <2>3. student[s] \in [group : Groups, state : States, pseudo : BOOLEAN]
    BY <1>t, <2>1, <2>2, HereInGroup
  <2>4. /\ student' = [student EXCEPT ![s].state = req[h].state] /\ roles' = roles
    BY <2>0, <1>9, <2>2 DEF WriteState
  <2>5. /\ student'[s].state = req[h].state /\ student'[s].group = student[s].group
        /\ \A t \in Students \ {s} : student'[t] = student[t]
    BY <1>t, <2>1, <2>3, <2>4
  <2>6. GroupRoles(s)' = GroupRoles(s)
    BY <2>4 DEF GroupRoles
  <2>7. \A t \in Students \ {s} : student'[t] = student[t] /\ Settled(t)
    BY <2>0, <2>1, <2>5 DEF Others
  <2>8. \A k \in Groups : s \in Captains(k)' => s \in Captains(k)
    BY <2>2, <2>5, <2>6 DEF Captains
  <2>9. CASE req[h].op = "verifyUser"
    <3>1. req'[h].pc = "idle"
      BY <1>9, <1>t, <2>2, <2>9 DEF WriteState, Done, Go, Idle
    <3>2. Settled(s)'
      BY <2>0, <2>1, <2>5, <2>6, <2>9 DEF Settled, Verifying
    <3> QED BY <1>s, <2>1, <2>4, <2>7, <2>8, <3>1, <3>2, EndChanged
  <2>10. CASE req[h].op # "verifyUser"
    <3>1. /\ req[h].op = "verifyGroup" /\ GroupRoles(s) = {}
          /\ student[s].group = req[h].g /\ req[h].name = "STUDENT"
      BY <2>0, <2>1, <2>10 DEF Verifying
    <3>2. CASE req[h].state = "APPROVED"
      <4>1. /\ req'[h].pc = "give" /\ req'[h].s = s /\ req'[h].op = "verifyGroup"
            /\ req'[h].g = req[h].g /\ req'[h].name = "STUDENT"
        BY <2>0, <1>9, <1>t, <2>2, <3>1, <3>2 DEF WriteState, Go, Request
      <4>2. Here(s)'
        BY <2>1, <2>5 DEF Here
      <4>3. Verifying(req[h])'
        BY <2>5, <2>6, <3>1, <3>2, <4>1, <4>2 DEF Verifying, NoRival
      <4>4. Stage(req[h])'
        BY <4>1, <4>3 DEF Stage, Promoting, Removing
      <4> QED BY <1>s, <2>1, <2>4, <2>7, <2>8, <4>1, <4>4, HalfChanged DEF HalfDone
    <3>3. CASE req[h].state # "APPROVED"
      <4>1. req'[h].pc = "idle"
        BY <1>9, <1>t, <2>2, <3>3 DEF WriteState, Done, Go, Idle
      <4>2. Settled(s)'
        BY <2>5, <2>6, <3>1, <3>3 DEF Settled
      <4> QED BY <1>s, <2>1, <2>4, <2>7, <2>8, <4>1, <4>2, EndChanged
    <3> QED BY <3>2, <3>3
  <2> QED BY <2>9, <2>10
<1>10. ASSUME NEW h \in Handlers, NEW s \in Students, NEW g \in Groups, NEW c \in BOOLEAN,
              RequestNewGroup(h, s, g, c)
       PROVE  StageInv'
  <2>1. /\ \A t \in Students : Settled(t)
        /\ Here(s) /\ student[s].state # "APPROVED" /\ Frame
    BY <1>10, <1>j DEF RequestNewGroup, Starts
  <2>2. PICK r : /\ Go(h, r)
                 /\ r = [Idle EXCEPT !.op = "request", !.s = s, !.g = g,
                             !.pc = IF c THEN "captain?" ELSE "write"]
    BY <1>10 DEF RequestNewGroup
  <2>3. /\ r \in Request /\ r.s = s /\ r.op = "request" /\ r.pc \in {"captain?", "write"}
    BY <2>2 DEF Idle, Request, AllOps, Names, States
  <2>4. Stage(r) /\ Others(r)
    BY <2>1, <2>3 DEF Stage, Verifying, Promoting, Removing, NoMember, Others
  <2> QED BY <1>s, <2>1, <2>2, <2>3, <2>4, FrameStage
<1>11. ASSUME NEW h \in Handlers, WriteRequest(h) PROVE StageInv'
  <2>0. PICK s : s = req[h].s
    OBVIOUS
  <2>1. /\ \A t \in Students : Settled(t)
        /\ Here(s) /\ student[s].state # "APPROVED" /\ s \in Students
    BY <2>0, <1>11, <1>i, <1>s, <1>t DEF WriteRequest, At, HalfDone, Verifying, NoMember, Ready
  <2>2. student[s] \in [group : Groups, state : States, pseudo : BOOLEAN]
    BY <1>t, <2>1, HereInGroup
  <2>3. /\ student' = [student EXCEPT ![s].state = "PENDING", ![s].group = req[h].g]
        /\ roles' = roles
    BY <2>0, <1>11, <2>1 DEF WriteRequest
  <2>4. /\ student'[s].state = "PENDING"
        /\ \A t \in Students \ {s} : student'[t] = student[t]
    BY <1>t, <2>1, <2>2, <2>3
  <2>5. GroupRoles(s)' = {}
    BY <2>1, <2>3 DEF GroupRoles, Settled
  <2>6. Settled(s)' /\ \A k \in Groups : s \notin Captains(k)'
    BY <2>4, <2>5 DEF Settled, Captains
  <2>7. req'[h].pc = "idle"
    BY <1>11, <1>t DEF WriteRequest, Done, Go, Idle
  <2> QED BY <1>s, <2>1, <2>3, <2>4, <2>6, <2>7, EndChanged
<1>12. ASSUME NEW h \in Handlers, NEW s \in Students, NEW name \in SwitchNames,
              ModeratorSwitch(h, s, name)
       PROVE  StageInv'
  <2>1. (\A t \in Students : Settled(t)) /\ Frame
    BY <1>12, <1>j DEF ModeratorSwitch, Starts
  <2>2. PICK r : /\ Go(h, r)
                 /\ r = [Idle EXCEPT !.op = "switch", !.pc = "role?", !.s = s, !.name = name]
    BY <1>12 DEF ModeratorSwitch
  <2>3. /\ r \in Request /\ r.pc = "role?" /\ r.op = "switch" /\ r.name # "CAPTAIN"
        /\ r.next = NoStudent
    BY <2>2 DEF Idle, Request, AllOps, Names, States
  <2>4. Stage(r) /\ Others(r)
    BY <2>1, <2>3 DEF Stage, Verifying, Promoting, Removing, Others
  <2> QED BY <1>s, <2>1, <2>2, <2>3, <2>4, FrameStage
<1>13. ASSUME NEW h \in Handlers, NEW s \in Students, SwitchCaptain(h, s) PROVE StageInv'
  <2>1. (\A t \in Students : Settled(t)) /\ Here(s) /\ Frame
    BY <1>13, <1>j DEF SwitchCaptain, Starts
  <2>2. student[s].group \in Groups
    BY <1>t, <2>1, HereInGroup
  <2>3. PICK r : /\ Go(h, r)
                 /\ r = [Idle EXCEPT !.op = "captain", !.pc = "oldCaptain?", !.s = s,
                                     !.g = student[s].group, !.name = "CAPTAIN"]
    BY <1>13 DEF SwitchCaptain
  <2>4. /\ r \in Request /\ r.pc = "oldCaptain?" /\ r.op = "captain" /\ r.name = "CAPTAIN"
        /\ r.next = NoStudent /\ r.s = s /\ r.g = student[s].group
    BY <2>2, <2>3 DEF Idle, Request, AllOps, Names, States
  <2>5. Stage(r) /\ Others(r)
    BY <2>1, <2>4 DEF Stage, Verifying, Promoting, Removing, Others
  <2> QED BY <1>s, <2>1, <2>3, <2>4, <2>5, FrameStage
<1>14. ASSUME NEW h \in Handlers, OldCaptain(h) PROVE StageInv'
  <2>1. /\ \A t \in Students : Settled(t)
        /\ Frame /\ req[h].pc = "oldCaptain?" /\ req[h] \in Request
        /\ req[h].op = "captain" /\ Here(req[h].s) /\ student[req[h].s].group = req[h].g
        /\ req[h].name = "CAPTAIN" /\ req[h].next = NoStudent /\ req[h].s \in Students
    BY <1>14, <1>i, <1>s, <1>t DEF OldCaptain, At, HalfDone, Promoting, Ready
  <2>2. CASE Done(h)
    BY <1>s, <2>1, <2>2, EndStage
  <2>3. CASE ~HasCaptain(req[h].g) /\ Go(h, [req[h] EXCEPT !.pc = "role?"])
    <3>1. PICK r : Go(h, r) /\ r = [req[h] EXCEPT !.pc = "role?"]
      BY <2>3
    <3>2. /\ r \in Request /\ r.pc = "role?" /\ r.op = "captain" /\ r.s = req[h].s
          /\ r.g = req[h].g /\ r.next = NoStudent
      BY <2>1, <3>1 DEF Request
    <3>3. Captains(r.g) = {}
      BY <2>3, <3>2 DEF HasCaptain
    <3>4. Stage(r) /\ Others(r)
      BY <2>1, <3>2, <3>3 DEF Stage, Verifying, Promoting, Removing, Others
    <3> QED BY <1>s, <2>1, <3>1, <3>2, <3>4, FrameStage
  <2>4. ASSUME NEW c \in Captains(req[h].g),
               Go(h, [req[h] EXCEPT !.pc = "role?", !.s = c, !.name = "STUDENT",
                                    !.next = req[h].s])
        PROVE  StageInv'
    <3>1. PICK r : /\ Go(h, r)
                   /\ r = [req[h] EXCEPT !.pc = "role?", !.s = c, !.name = "STUDENT",
                                         !.next = req[h].s]
      BY <2>4
    <3>2. c \in Students
      BY DEF Captains
    <3>3. /\ r \in Request /\ r.pc = "role?" /\ r.op = "captain" /\ r.s = c
          /\ r.name = "STUDENT" /\ r.g = req[h].g /\ r.next = req[h].s
      BY <2>1, <3>1, <3>2 DEF Request, Names
    <3>4. Stage(r) /\ Others(r)
      BY <2>1, <3>3 DEF Stage, Verifying, Promoting, Removing, Others
    <3> QED BY <1>s, <2>1, <3>1, <3>3, <3>4, FrameStage
  <2> QED BY <1>14, <2>2, <2>3, <2>4 DEF OldCaptain
<1>15. ASSUME NEW h \in Handlers, ReadRole(h) PROVE StageInv'
  <2>1. /\ \A t \in Students : Settled(t)
        /\ Frame /\ req[h].pc \in {"role?", "promote?"} /\ req[h] \in Request
        /\ req[h].op \in {"switch", "captain", "remove", "leave", "change"}
        /\ req[h].s \in Students /\ Promoting(req[h]) /\ Removing(req[h])
    BY <1>15, <1>i, <1>s, <1>t DEF ReadRole, HalfDone, Ready
  <2>2. CASE Done(h)
    BY <1>s, <2>1, <2>2, EndStage
  <2>3. ASSUME NEW q \in GroupRoles(req[h].s),
               Go(h, [req[h] EXCEPT !.pc = AfterRole[req[h].op], !.row = q])
        PROVE  StageInv'
    <3>1. PICK p : p = AfterRole[req[h].op]
      OBVIOUS
    <3>2. /\ p \in {"set", "rank?", "take", "move"}
          /\ p = "set" <=> req[h].op \in {"switch", "captain"}
          /\ p = "rank?" <=> req[h].op = "remove"
          /\ p = "take" <=> req[h].op = "leave"
      BY <2>1, <3>1 DEF AfterRole
    <3>3. PICK r : Go(h, r) /\ r = [req[h] EXCEPT !.pc = p, !.row = q]
      BY <2>3, <3>1
    <3>4. q \in RoleRow
      BY <1>t DEF GroupRoles
    <3>5. /\ r \in Request /\ r.pc = p /\ r.row = q /\ r.op = req[h].op /\ r.s = req[h].s
          /\ r.g = req[h].g /\ r.name = req[h].name /\ r.next = req[h].next
      BY <2>1, <3>2, <3>3, <3>4 DEF Request
    <3>6. q.group = student[req[h].s].group /\ GroupRoles(req[h].s) = {q}
      BY <2>1, OnlyRole
    <3>7. req[h].s \in Captains(req[h].g) => q.name = "CAPTAIN" /\ q.group = req[h].g
      BY <3>6 DEF Captains
    <3>8. Promoting(r)
      BY <2>1, <3>2, <3>5, <3>6, <3>7 DEF Promoting, NoRival
    <3>9. Removing(r)
      <4>1. r.pc = "rank?" => req[h].op = "remove" /\ req[h].pc = "role?"
        BY <1>s, <1>t, <2>1, <3>2, <3>5 DEF Promoting, Removing, Ready
      <4> QED BY <2>1, <3>2, <3>5, <4>1 DEF Removing
    <3>10. Stage(r) /\ Others(r)
      BY <2>1, <3>2, <3>5, <3>8, <3>9 DEF Stage, Verifying, Others
    <3> QED BY <1>s, <2>1, <3>3, <3>5, <3>10, FrameStage
  <2> QED BY <1>15, <2>2, <2>3 DEF ReadRole
<1>16. ASSUME NEW h \in Handlers, SetRole(h) PROVE StageInv'
  <2>0. PICK s, old, n, next : /\ s = req[h].s /\ old = req[h].row /\ n = req[h].name
                               /\ next = req[h].next
    OBVIOUS
  <2>1. /\ \A t \in Students : Settled(t)
        /\ req[h].pc = "set" /\ s \in Students /\ n \in Names
        /\ next \in Students \cup {NoStudent}
        /\ old \in GroupRoles(s) /\ (n = "CAPTAIN" => Captains(old.group) = {})
        /\ next # NoStudent => /\ n = "STUDENT" /\ old.name = "CAPTAIN"
                               /\ old.group = req[h].g
                               /\ Here(next) /\ student[next].group = old.group
    BY <1>16, <1>i, <1>s, <1>t, <2>0
    DEF SetRole, At, HalfDone, Promoting, NoRival, Ready, Request
  <2>2. /\ student[s].state = "APPROVED" /\ GroupRoles(s) = {old} /\ old.student = s
        /\ old.group = student[s].group /\ old \in roles
    BY <2>1, OnlyRole
  <2>3. PICK new : new = Row(s, old.group, n)
    OBVIOUS
  <2>4. new = NewRow(h) /\ new.student = s /\ new.name = n
    BY <2>0, <2>3 DEF NewRow, Row
  <2>5. CASE ~CanReplace(old, new)
    BY <1>16, <1>s, <2>0, <2>1, <2>4, <2>5, EndStage DEF SetRole, Frame
  <2>6. CASE CanReplace(old, new)
    <3>1. roles' = (roles \ {old}) \cup {new} /\ student' = student
      BY <1>16, <2>0, <2>4, <2>6 DEF SetRole, Replaced
    <3>2. GroupRoles(s)' = {new}
      BY <2>2, <2>4, <3>1 DEF GroupRoles
    <3>3. \A r : r.student # s => (r \in roles <=> r \in roles')
      BY <2>2, <2>4, <3>1
    <3>4. Settled(s)'
      BY <2>1, <2>2, <2>3, <3>1, <3>2 DEF Settled
    <3>5. \A k \in Groups : s \in Captains(k)' => k = old.group /\ n = "CAPTAIN"
      BY <2>2, <2>4, <3>1, <3>2 DEF Captains
    <3>6. \A k \in Groups : s \in Captains(k)' => s \in Captains(k) \/ Captains(k) \subseteq {s}
      BY <2>1, <3>5
    <3>7. \A t \in Students \ {s} : student'[t] = student[t] /\ Settled(t)
      BY <2>1, <3>1
    <3>8. CASE next = NoStudent
      <4>1. req'[h].pc = "idle"
        BY <1>16, <1>t, <2>0, <2>4, <2>6, <3>8 DEF SetRole, Done, Go, Idle
      <4> QED BY <1>s, <2>1, <3>3, <3>4, <3>6, <3>7, <4>1, EndChanged
    <3>9. CASE next # NoStudent
      <4>1. /\ req'[h].pc = "promote?" /\ req'[h].op = "captain" /\ req'[h].s = next
            /\ req'[h].g = old.group /\ req'[h].next = NoStudent
        <5>1. PICK r : /\ req' = [req EXCEPT ![h] = r]
                       /\ r = [Idle EXCEPT !.op = "captain", !.pc = "promote?",
                                 !.g = req[h].g, !.s = next, !.name = "CAPTAIN"]
          BY <1>16, <2>0, <2>4, <2>6, <3>9 DEF SetRole, Go
        <5>2. /\ r.pc = "promote?" /\ r.op = "captain" /\ r.s = next
              /\ r.g = req[h].g /\ r.next = NoStudent
          BY <5>1 DEF Idle
        <5>3. req'[h] = r
          BY <1>t, <5>1
        <5> QED BY <2>1, <3>9, <5>2, <5>3
      <4>2. OneCaptain' /\ \A t \in Students : Settled(t)'
        BY <1>s, <2>1, <3>3, <3>4, <3>6, <3>7, OneChanged
      <4>3. Captains(old.group)' = {}
        <5> SUFFICES ASSUME NEW x \in Captains(old.group)' PROVE FALSE
          OBVIOUS
        <5>1. old.group \in Groups
          BY <1>t, <2>2 DEF RoleRow
        <5>2. s \in Captains(old.group)
          BY <2>1, <2>2, <3>9 DEF Captains, Here, States
        <5>3. x \in Students /\ x # s
          BY <2>1, <3>5, <3>9, <5>1 DEF Captains
        <5>4. GroupRoles(x)' = GroupRoles(x)
          BY <3>3, <5>3 DEF GroupRoles
        <5>5. x \in Captains(old.group)
          BY <3>1, <5>3, <5>4 DEF Captains, Here
        <5> QED BY <1>s, <5>1, <5>2, <5>3, <5>5 DEF OneCaptain
      <4>4. Here(next)' /\ student'[next].group = old.group
        BY <2>1, <3>1, <3>9 DEF Here
      <4>5. Promoting(req[h])'
        BY <4>1, <4>3, <4>4 DEF Promoting
      <4>6. Stage(req[h])'
        BY <4>1, <4>5 DEF Stage, Verifying, Removing
      <4>7. Others(req[h])'
        BY <4>2 DEF Others
      <4> QED BY <4>2, <4>6, <4>7, OneStage
    <3> QED BY <3>8, <3>9
  <2> QED BY <2>5, <2>6
<1>17. ASSUME NEW h \in Handlers, NEW s \in Students, NEW by \in Students, NEW g \in Groups,
              RemoveStudent(h, s, by, g)
       PROVE  StageInv'
  <2>1. /\ \A t \in Students : Settled(t)
        /\ Frame
    BY <1>17, <1>j DEF RemoveStudent, Starts
  <2>2. PICK r : /\ Go(h, r)
                 /\ r = [Idle EXCEPT !.op = "remove", !.pc = "role?", !.s = s, !.g = g,
                                     !.next = by]
    BY <1>17 DEF RemoveStudent
  <2>3. /\ r \in Request /\ r.pc = "role?" /\ r.op = "remove" /\ r.g = g /\ r.next = by
    BY <2>2 DEF Idle, Request, AllOps, Names, States
  <2>4. Stage(r) /\ Others(r)
    BY <2>1, <2>3 DEF Stage, Verifying, Promoting, Removing, Others
  <2> QED BY <1>s, <2>1, <2>2, <2>3, <2>4, FrameStage
<1>18. ASSUME NEW h \in Handlers, CompareRanks(h) PROVE StageInv'
  <2>1. /\ \A t \in Students : Settled(t)
        /\ Frame /\ req[h].pc = "rank?" /\ req[h].op = "remove" /\ req[h] \in Request
        /\ req[h].row \in GroupRoles(req[h].s)
    BY <1>18, <1>i, <1>s, <1>t DEF CompareRanks, At, HalfDone, Promoting, Removing
  <2>2. CASE Done(h)
    BY <1>s, <2>1, <2>2, EndStage
  <2>3. ASSUME NEW mine \in GroupRoles(req[h].next),
               Outranks(mine.name, req[h].row.name), req[h].row.group = req[h].g,
               Go(h, [req[h] EXCEPT !.pc = "take"])
        PROVE  StageInv'
    <3>1. PICK r : Go(h, r) /\ r = [req[h] EXCEPT !.pc = "take"]
      BY <2>3
    <3>2. /\ r \in Request /\ r.pc = "take" /\ r.op = "remove" /\ r.s = req[h].s
          /\ r.next = req[h].next /\ r.row = req[h].row
      BY <2>1, <3>1 DEF Request
    <3>7. Stage(r) /\ Others(r)
      BY <2>1, <3>2 DEF Stage, Verifying, Promoting, Removing, Others
    <3> QED BY <1>s, <2>1, <3>1, <3>2, <3>7, FrameStage
  <2> QED BY <1>18, <2>2, <2>3 DEF CompareRanks
<1>19. ASSUME NEW h \in Handlers, TakeRole(h) PROVE StageInv'
  <2>0. PICK s, row : s = req[h].s /\ row = req[h].row
    OBVIOUS
  <2>1. /\ \A t \in Students : Settled(t)
        /\ req[h].pc = "take" /\ s \in Students /\ row \in GroupRoles(s)
        /\ req[h].op \in {"remove", "leave"}
    BY <1>19, <1>i, <1>s, <1>t, <2>0 DEF TakeRole, At, HalfDone, Promoting, Removing, Ready
  <2>2. /\ student[s].state = "APPROVED" /\ GroupRoles(s) = {row} /\ row.student = s
        /\ row \in roles
    BY <2>1, OnlyRole
  <2>3. roles' = roles \ {row}
    BY <1>19, <2>0, <2>2 DEF TakeRole
  <2>4. GroupRoles(s)' = {} /\ \A r : r.student # s => (r \in roles <=> r \in roles')
    BY <2>2, <2>3 DEF GroupRoles
  <2>5. \A k \in Groups : s \notin Captains(k)'
    BY <2>4 DEF Captains
  <2>6. CASE req[h].op = "remove"
    <3>1. student' = student /\ req'[h].pc = "decline" /\ req'[h].s = s
      BY <1>19, <1>t, <2>0, <2>2, <2>6 DEF TakeRole, Go, Request
    <3>2. Here(s)'
      BY <2>2, <3>1 DEF Here, States
    <3>3. Stage(req[h])'
      BY <2>4, <3>1, <3>2 DEF Stage, Verifying, Promoting, Removing
    <3>4. \A t \in Students \ {s} : student'[t] = student[t] /\ Settled(t)
      BY <2>1, <3>1
    <3> QED BY <1>s, <2>1, <2>4, <2>5, <3>1, <3>3, <3>4, HalfChanged DEF HalfDone
  <2>7. CASE req[h].op # "remove"
    <3>1. /\ student' = [student EXCEPT ![s].state = "DECLINED"] /\ req'[h].pc = "idle"
      BY <1>19, <1>t, <2>0, <2>2, <2>7 DEF TakeRole, Done, Go, Idle
    <3>2. student[s] \in [group : Groups, state : States, pseudo : BOOLEAN]
      BY <1>t, <2>1, <2>2, HereInGroup DEF Here, States
    <3>3. /\ student'[s].state = "DECLINED"
          /\ \A t \in Students \ {s} : student'[t] = student[t] /\ Settled(t)
      BY <1>t, <2>1, <3>1, <3>2
    <3>4. Settled(s)'
      BY <2>4, <3>3 DEF Settled
    <3> QED BY <1>s, <2>1, <2>4, <2>5, <3>1, <3>3, <3>4, EndChanged
  <2> QED BY <2>6, <2>7
<1>20. ASSUME NEW h \in Handlers, Decline(h) PROVE StageInv'
  <2>0. PICK s : s = req[h].s
    OBVIOUS
  <2>1. /\ req[h].pc = "decline" /\ s \in Students /\ Here(s) /\ GroupRoles(s) = {}
        /\ \A t \in Students \ {s} : Settled(t)
    BY <1>20, <1>s, <1>t, <2>0 DEF Decline, At, Removing, Ready, Others
  <2>2. /\ GroupRoles(s)' = {} /\ \A r : r.student # s => (r \in roles <=> r \in roles')
    BY <1>20, <2>0, <2>1 DEF Decline, Cascade, GroupRoles
  <2>3. student[s] \in [group : Groups, state : States, pseudo : BOOLEAN]
    BY <1>t, <2>1, HereInGroup
  <2>4. /\ student'[s].state # "APPROVED"
        /\ \A t \in Students \ {s} : student'[t] = student[t]
    <3>1. CASE student[s].pseudo
      BY <1>20, <1>t, <2>0, <2>1, <3>1 DEF Decline, Gone
    <3>2. CASE ~student[s].pseudo
      <4>1. student' = [student EXCEPT ![s].state = "DECLINED"]
        BY <1>20, <2>0, <2>1, <3>2 DEF Decline
      <4> QED BY <1>t, <2>1, <2>3, <4>1
    <3> QED BY <3>1, <3>2
  <2>5. Settled(s)' /\ \A k \in Groups : s \notin Captains(k)'
    BY <2>2, <2>4 DEF Settled, Captains
  <2>6. req'[h].pc = "idle"
    BY <1>20, <1>t DEF Decline, Done, Go, Idle
  <2> QED BY <1>s, <2>1, <2>2, <2>4, <2>5, <2>6, EndChanged
<1>21. ASSUME NEW h \in Handlers, NEW s \in Students, LeaveGroup(h, s) PROVE StageInv'
  <2>1. (\A t \in Students : Settled(t)) /\ Frame
    BY <1>21, <1>j DEF LeaveGroup, Starts
  <2>2. PICK r : Go(h, r) /\ r = [Idle EXCEPT !.op = "leave", !.pc = "approved?", !.s = s]
    BY <1>21 DEF LeaveGroup
  <2>3. r \in Request /\ r.pc = "approved?"
    BY <2>2 DEF Idle, Request, AllOps, Names, States
  <2>4. Stage(r) /\ Others(r)
    BY <2>1, <2>3 DEF Stage, Verifying, Promoting, Removing, Others
  <2> QED BY <1>s, <2>1, <2>2, <2>3, <2>4, FrameStage
<1>22. ASSUME NEW h \in Handlers, CheckApproved(h) PROVE StageInv'
  <2>1. /\ \A t \in Students : Settled(t)
        /\ Frame /\ req[h].pc = "approved?" /\ req[h] \in Request /\ req[h].op = "leave"
    BY <1>22, <1>i, <1>t DEF CheckApproved, At, HalfDone, Ready
  <2>2. CASE Done(h)
    BY <1>s, <2>1, <2>2, EndStage
  <2>3. CASE Go(h, [req[h] EXCEPT !.pc = "role?"])
    <3>1. PICK r : Go(h, r) /\ r = [req[h] EXCEPT !.pc = "role?"]
      BY <2>3
    <3>2. r \in Request /\ r.pc = "role?" /\ r.op = "leave"
      BY <2>1, <3>1 DEF Request
    <3>3. Stage(r) /\ Others(r)
      BY <2>1, <3>2 DEF Stage, Verifying, Promoting, Removing, Others
    <3> QED BY <1>s, <2>1, <3>1, <3>2, <3>3, FrameStage
  <2> QED BY <1>22, <2>2, <2>3 DEF CheckApproved
<1>23. ASSUME NEW h \in Handlers, NEW s \in Students, NEW g \in Groups, ChangeGroup(h, s, g)
       PROVE  StageInv'
  <2>1. (\A t \in Students : Settled(t)) /\ Frame
    BY <1>23, <1>j DEF ChangeGroup, Starts
  <2>2. PICK r : /\ Go(h, r)
                 /\ r = [Idle EXCEPT !.op = "change", !.pc = "role?", !.s = s, !.g = g]
    BY <1>23 DEF ChangeGroup
  <2>3. r \in Request /\ r.pc = "role?" /\ r.op = "change"
    BY <2>2 DEF Idle, Request, AllOps, Names, States
  <2>4. Stage(r) /\ Others(r)
    BY <2>1, <2>3 DEF Stage, Verifying, Promoting, Removing, Others
  <2> QED BY <1>s, <2>1, <2>2, <2>3, <2>4, FrameStage
<1>24. ASSUME NEW h \in Handlers, Move(h) PROVE StageInv'
  <2>0. PICK s, g, old : s = req[h].s /\ g = req[h].g /\ old = req[h].row
    OBVIOUS
  <2>1. /\ \A t \in Students : Settled(t)
        /\ s \in Students /\ old \in GroupRoles(s)
    BY <1>24, <1>i, <1>s, <1>t, <2>0 DEF Move, At, HalfDone, Promoting, Ready
  <2>2. /\ student[s].state = "APPROVED" /\ GroupRoles(s) = {old} /\ old.student = s
        /\ old \in roles
    BY <2>1, OnlyRole
  <2>3. PICK new : new = Row(s, g, "STUDENT")
    OBVIOUS
  <2>4. req'[h].pc = "idle"
    BY <1>24, <1>t DEF Move, Done, Go, Idle
  <2>5. CASE ~CanReplace(old, new)
    BY <1>24, <1>s, <2>0, <2>1, <2>3, <2>5, EndStage DEF Move, Frame
  <2>6. CASE CanReplace(old, new)
    <3>1. /\ roles' = (roles \ {old}) \cup {new}
          /\ student' = [student EXCEPT ![s].group = g]
      BY <1>24, <2>0, <2>3, <2>6 DEF Move, Replaced
    <3>2. new.student = s /\ new.name = "STUDENT"
      BY <2>3 DEF Row
    <3>3. GroupRoles(s)' = {new} /\ \A r : r.student # s => (r \in roles <=> r \in roles')
      BY <2>2, <3>1, <3>2 DEF GroupRoles
    <3>4. student[s] \in [group : Groups, state : States, pseudo : BOOLEAN]
      BY <1>t, <2>1, <2>2, HereInGroup DEF Here, States
    <3>5. /\ student'[s].state = "APPROVED" /\ student'[s].group = g
          /\ \A t \in Students \ {s} : student'[t] = student[t] /\ Settled(t)
      BY <1>t, <2>1, <2>2, <3>1, <3>4
    <3>6. Settled(s)'
      BY <2>3, <3>3, <3>5 DEF Settled, Names
    <3>7. \A k \in Groups : s \notin Captains(k)'
      BY <3>2, <3>3 DEF Captains
    <3> QED BY <1>s, <2>1, <2>4, <3>3, <3>5, <3>6, <3>7, EndChanged
  <2> QED BY <2>5, <2>6
<1>25. ASSUME NEW h \in Handlers, NEW s \in Students, Delete(h, s) PROVE StageInv'
  <2>1. /\ \A t \in Students : Settled(t)
        /\ student' = [student EXCEPT ![s] = Gone] /\ roles' = roles \ GroupRoles(s)
        /\ req'[h].pc = "idle"
    BY <1>25, <1>j DEF Delete, Starts, Cascade, Idle
  <2>2. GroupRoles(s)' = {} /\ \A r : r.student # s => (r \in roles <=> r \in roles')
    BY <2>1 DEF GroupRoles
  <2>3. /\ student'[s].state # "APPROVED"
        /\ \A t \in Students \ {s} : student'[t] = student[t]
    BY <1>t, <2>1 DEF Gone
  <2>4. Settled(s)' /\ \A k \in Groups : s \notin Captains(k)'
    BY <2>2, <2>3 DEF Settled, Captains
  <2> QED BY <1>s, <2>1, <2>2, <2>3, <2>4, EndChanged
<1>a. ASSUME NEW h \in Handlers, NEW s \in Students, NEW g \in Groups, Claim(h, s, g)
      PROVE  StageInv'
  <2>1. (\A t \in Students : Settled(t)) /\ Frame
    BY <1>a, <1>j DEF Claim, Starts
  <2>2. PICK r : /\ Go(h, r)
                 /\ r = [Idle EXCEPT !.op = "claim", !.pc = "account", !.s = s, !.g = g]
    BY <1>a DEF Claim
  <2>3. /\ r \in Request /\ r.pc = "account" /\ r.op = "claim"
    BY <2>2 DEF Idle, Request, AllOps, Names, States
  <2>4. Stage(r) /\ Others(r)
    BY <2>1, <2>3 DEF Stage, Verifying, Promoting, Removing, Others
  <2> QED BY <1>s, <2>1, <2>2, <2>3, <2>4, FrameStage
<1>b. ASSUME NEW h \in Handlers, NEW s \in Students, roles' = roles,
             \A t \in Students : Settled(t),
             student'[s].state = student[s].state, student'[s].group = student[s].group,
             \A t \in Students \ {s} : student'[t] = student[t],
             req'[h].pc \in {"idle", "regroup"}
      PROVE  StageInv'
  <2>1. \A x : GroupRoles(x)' = GroupRoles(x)
    BY <1>b DEF GroupRoles
  <2>2. \A g : Captains(g)' = Captains(g)
    BY <1>b, <2>1 DEF Captains, Here
  <2>3. OneCaptain' /\ \A t \in Students : Settled(t)'
    BY <1>b, <1>s, <2>1, <2>2 DEF OneCaptain, Settled
  <2>4. Stage(req[h])' /\ Others(req[h])'
    BY <1>b, <2>3 DEF Stage, Verifying, Promoting, Removing, Others
  <2> QED BY <2>3, <2>4, OneStage
<1>c. ASSUME NEW h \in Handlers, TakeAccount(h) PROVE StageInv'
  <2>0. PICK s : s = req[h].s
    OBVIOUS
  <2>1. (\A t \in Students : Settled(t)) /\ s \in Students /\ req[h] \in Request
    BY <1>c, <1>i, <1>t, <2>0 DEF TakeAccount, At, HalfDone, Ready
  <2>2. CASE ~Here(s)
    BY <1>c, <1>s, <2>0, <2>1, <2>2, EndStage DEF TakeAccount, Frame
  <2>3. CASE Here(s)
    <3>1. student[s] \in [group : Groups, state : States, pseudo : BOOLEAN]
      BY <1>t, <2>1, <2>3, HereInGroup
    <3>2. student' = [student EXCEPT ![s].pseudo = FALSE] /\ roles' = roles
      BY <1>c, <2>0, <2>3 DEF TakeAccount
    <3>3. student'[s] = [student[s] EXCEPT !.pseudo = FALSE]
      BY <1>t, <2>1, <3>2
    <3>4. /\ student'[s].state = student[s].state /\ student'[s].group = student[s].group
          /\ \A t \in Students \ {s} : student'[t] = student[t]
      BY <1>t, <2>1, <3>1, <3>2, <3>3
    <3>5. req'[h].pc = "regroup"
      BY <1>c, <1>t, <2>0, <2>1, <2>3 DEF TakeAccount, Go, Request
    <3> QED BY <1>b, <2>1, <3>2, <3>4, <3>5
  <2> QED BY <2>2, <2>3
<1>d. ASSUME NEW h \in Handlers, Regroup(h) PROVE StageInv'
  <2>0. PICK s, g : s = req[h].s /\ g = req[h].g
    OBVIOUS
  <2>1. (\A t \in Students : Settled(t)) /\ s \in Students
    BY <1>d, <1>i, <1>t, <2>0 DEF Regroup, At, HalfDone, Ready
  <2>2. CASE ~Here(s)
    BY <1>d, <1>s, <2>0, <2>1, <2>2, EndStage DEF Regroup, Frame
  <2>3. CASE Here(s)
    <3>1. student[s] \in [group : Groups, state : States, pseudo : BOOLEAN]
      BY <1>t, <2>1, <2>3, HereInGroup
    <3>2. student' = [student EXCEPT ![s].group = g] /\ roles' = roles
      BY <1>d, <2>0, <2>3 DEF Regroup
    <3>3. student'[s] = [student[s] EXCEPT !.group = g]
      BY <1>t, <2>1, <3>2
    <3>4. student[s].group = g
      BY <1>d, <2>0, <2>3 DEF Regroup
    <3>5. /\ student'[s].state = student[s].state /\ student'[s].group = student[s].group
          /\ \A t \in Students \ {s} : student'[t] = student[t]
      BY <1>t, <2>1, <3>1, <3>2, <3>3, <3>4
    <3>6. req'[h].pc = "idle"
      BY <1>d, <1>t DEF Regroup, Done, Go, Idle
    <3> QED BY <1>b, <2>1, <3>2, <3>5, <3>6
  <2> QED BY <2>2, <2>3
<1>26. CASE UNCHANGED vars
  <2>1. student' = student /\ roles' = roles /\ req' = req
    BY <1>26 DEF vars
  <2>2. \A x : GroupRoles(x)' = GroupRoles(x)
    BY <2>1 DEF GroupRoles
  <2>3. \A g : Captains(g)' = Captains(g)
    BY <2>1 DEF Captains, GroupRoles, Here
  <2>4. OneCaptain' /\ \A h \in Handlers : Others(req[h])'
    BY <1>s, <2>1, <2>2, <2>3 DEF OneCaptain, Others, Settled
  <2>5. \A h \in Handlers : Verifying(req[h])' /\ Promoting(req[h])' /\ Removing(req[h])'
    BY <1>s, <2>1, <2>2, <2>3, SMTT(40)
    DEF Verifying, Promoting, Removing, NoMember, NoRival, Here
  <2> QED BY <2>4, <2>5 DEF StageInv, Stage
<1>27. ASSUME NEW h \in Handlers, Begin(h) PROVE StageInv'
  BY <1>27, <1>1, <1>2, <1>3, <1>8, <1>10, <1>12, <1>13, <1>17, <1>21, <1>23, <1>25, <1>a
  DEF Begin
<1>28. ASSUME NEW h \in Handlers, Continue(h) PROVE StageInv'
  BY <1>28, <1>4, <1>5, <1>6, <1>7, <1>9, <1>11, <1>14, <1>15, <1>16, <1>18, <1>19, <1>20,
     <1>22, <1>24, <1>c, <1>d
  DEF Continue
<1> QED BY <1>26, <1>27, <1>28 DEF Next

\* A population in good order is one where everybody is, with one captain at most.
LEMMA InOrder == Orderly <=> OneCaptain /\ \A s \in Students : Settled(s)
<1>1. \A g \in Groups : IsFiniteSet(Captains(g))
  <2> SUFFICES ASSUME NEW g \in Groups PROVE IsFiniteSet(Captains(g))
    OBVIOUS
  <2>1. Captains(g) \in SUBSET Students
    BY DEF Captains
  <2> QED BY <2>1, MembershipAssumption, FS_Subset
<1>2. ASSUME NEW g \in Groups
      PROVE  Cardinality(Captains(g)) <= 1 <=> \A s, t \in Captains(g) : s = t
  <2>1. Cardinality(Captains(g)) \in Nat
    BY <1>1, FS_CardinalityType
  <2>2. Cardinality(Captains(g)) = 0 <=> Captains(g) = {}
    BY <1>1, FS_EmptySet
  <2>3. Cardinality(Captains(g)) = 1 <=> \E s : Captains(g) = {s}
    BY <1>1, FS_Singleton
  <2>4. Cardinality(Captains(g)) <= 1
          <=> Captains(g) = {} \/ \E s : Captains(g) = {s}
    BY <2>1, <2>2, <2>3
  <2> QED BY <2>4
<1> QED BY <1>2 DEF Orderly, OneCaptain, Settled

LEMMA StagesStart == Init => StageInv
<1> SUFFICES ASSUME Init PROVE StageInv
  OBVIOUS
<1>1. OneCaptain /\ \A s \in Students : Settled(s)
  BY InOrder DEF Init
<1>2. \A h \in Handlers : Stage(req[h]) /\ Others(req[h])
  BY <1>1 DEF Init, Idle, Stage, Verifying, Promoting, Removing, Others
<1> QED BY <1>1, <1>2 DEF StageInv

\* Nothing is forgotten of the registrations that moved somebody.
LEMMA StrayedStay == [Next]_vars /\ strayed' = {} => strayed = {}
<1> SUFFICES ASSUME [Next]_vars, strayed' # strayed PROVE strayed \subseteq strayed'
  OBVIOUS
<1>1. PICK h \in Handlers : Begin(h) \/ Continue(h)
  BY DEF Next, vars
<1>2. ~Begin(h)
  BY DEF Begin, Register, AddUnregistered, Claim, ChangeGroup, VerifyByBot, VerifyInGroup,
         RequestNewGroup, ModeratorSwitch, SwitchCaptain, RemoveStudent, LeaveGroup, Delete,
         Frame
<1>3. Regroup(h)
  BY <1>1, <1>2
  DEF Continue, TakeAccount, CheckCaptain, ReadGroup, Give, Tell, WriteState, WriteRequest,
      OldCaptain, ReadRole, SetRole, CompareRanks, TakeRole, Decline, CheckApproved, Move,
      Frame
<1> QED BY <1>3 DEF Regroup

\* One request at a time leaves the groups in good order: members have one role, in
\* their group, others none, and a group has one captain at most, for any number of
\* students and groups, wherever a request gives up, as long as no registration has
\* moved a student to another group.
THEOREM OrderIsKept ==
  ASSUME Serial, PendingOnly, "CAPTAIN" \notin SwitchNames, NEW h \in Handlers
  PROVE  Spec => []OrderKept
<1> DEFINE Inv == strayed = {} => StageInv
<1>1. Inv => OrderKept
  <2> SUFFICES ASSUME StageInv, req[h] = Idle PROVE Orderly
    BY DEF OrderKept, Quiet
  <2>1. \A s \in Students : Settled(s)
    BY AllSettled DEF StageInv, Idle, HalfDone
  <2> QED BY <2>1, InOrder DEF StageInv
<1>2. Init => Inv
  BY StagesStart
<1>3. Typed /\ Inv /\ [Next]_vars => Inv'
  BY StagesKept, StrayedStay
<1> QED BY <1>1, <1>2, <1>3, AlwaysTyped, PTL DEF Spec

-----------------------------------------------------------------------------
(* Removals and captains                                                   *)

\* A step is one of a single request.
LEMMA OneActs ==
  ASSUME Typed, NEW k \in Handlers, Begin(k) \/ Continue(k)
  PROVE  \A h \in Handlers \ {k} : req'[h] = req[h]
<1>t. req \in [Handlers -> Request]
  BY DEF Typed, TypeOK
<1>1. CASE Begin(k)
  BY <1>1, <1>t
  DEF Begin, Register, AddUnregistered, Claim, ChangeGroup, VerifyByBot, VerifyInGroup,
      RequestNewGroup, ModeratorSwitch, SwitchCaptain, RemoveStudent, LeaveGroup, Delete, Go
<1>2. CASE Continue(k)
  BY <1>2, <1>t
  DEF Continue, TakeAccount, Regroup, CheckCaptain, ReadGroup, Give, Tell, WriteState,
      WriteRequest, OldCaptain, ReadRole, SetRole, CompareRanks, TakeRole, Decline,
      CheckApproved, Move, Done, Go
<1> QED BY <1>1, <1>2

\* Whose role was compared was no captain: nobody stands higher.
LEMMA ComparedKept == Typed /\ NotTheCaptain /\ [Next]_vars => NotTheCaptain'
<1> SUFFICES ASSUME Typed, NotTheCaptain, [Next]_vars, NEW h \in Handlers,
                    req'[h].op = "remove", req'[h].pc = "take", req'[h] # req[h]
             PROVE  req'[h].row.name # "CAPTAIN"
  BY DEF NotTheCaptain
<1>1. PICK k \in Handlers : Begin(k) \/ Continue(k)
  BY DEF Next, vars
<1>2. k = h
  BY <1>1, OneActs
<1>3. req \in [Handlers -> Request] /\ req[h] \in Request /\ Ready(req[h])
  BY DEF Typed, TypeOK
<1>4. \A r : Go(h, r) => r = req'[h]
  BY <1>3 DEF Go
<1>5. ~Done(h)
  BY <1>4 DEF Done, Idle
<1>6. ~Begin(h)
  <2>1. \A r : Go(h, r) => r.pc = "take"
    BY <1>4
  <2>3. ASSUME NEW s \in Students
        PROVE  /\ \A g \in Groups : /\ ~Register(h, s, g) /\ ~AddUnregistered(h, s, g)
                                    /\ ~Claim(h, s, g) /\ ~ChangeGroup(h, s, g)
               /\ ~SwitchCaptain(h, s) /\ ~LeaveGroup(h, s) /\ ~Delete(h, s)
               /\ \A name \in SwitchNames : ~ModeratorSwitch(h, s, name)
               /\ \A by \in Students, g \in Groups : ~RemoveStudent(h, s, by, g)
               /\ \A state \in States : ~VerifyInGroup(h, s, state)
    <3>1. \A g \in Groups : ~Register(h, s, g)
      BY DEF Register
    <3>2. ~Delete(h, s)
      BY DEF Delete
    <3>3. ASSUME NEW g \in Groups, AddUnregistered(h, s, g) PROVE FALSE
      <4>1. PICK r : /\ Go(h, r)
                     /\ r = [Idle EXCEPT !.op = "pseudo", !.pc = "give", !.s = s, !.g = g]
        BY <3>3 DEF AddUnregistered
      <4>2. r.pc = "give"
        BY <4>1 DEF Idle
      <4> QED BY <2>1, <4>1, <4>2
    <3>4. ASSUME NEW g \in Groups, Claim(h, s, g) PROVE FALSE
      <4>1. PICK r : /\ Go(h, r)
                     /\ r = [Idle EXCEPT !.op = "claim", !.pc = "account", !.s = s, !.g = g]
        BY <3>4 DEF Claim
      <4>2. r.pc = "account"
        BY <4>1 DEF Idle
      <4> QED BY <2>1, <4>1, <4>2
    <3>5. ASSUME NEW g \in Groups, ChangeGroup(h, s, g) PROVE FALSE
      <4>1. PICK r : /\ Go(h, r)
                     /\ r = [Idle EXCEPT !.op = "change", !.pc = "role?", !.s = s, !.g = g]
        BY <3>5 DEF ChangeGroup
      <4>2. r.pc = "role?"
        BY <4>1 DEF Idle
      <4> QED BY <2>1, <4>1, <4>2
    <3>6. ASSUME SwitchCaptain(h, s) PROVE FALSE
      <4>1. PICK r : /\ Go(h, r)
                     /\ r = [Idle EXCEPT !.op = "captain", !.pc = "oldCaptain?", !.s = s,
                                         !.g = student[s].group, !.name = "CAPTAIN"]
        BY <3>6 DEF SwitchCaptain
      <4>2. r.pc = "oldCaptain?"
        BY <4>1 DEF Idle
      <4> QED BY <2>1, <4>1, <4>2
    <3>7. ASSUME LeaveGroup(h, s) PROVE FALSE
      <4>1. PICK r : /\ Go(h, r)
                     /\ r = [Idle EXCEPT !.op = "leave", !.pc = "approved?", !.s = s]
        BY <3>7 DEF LeaveGroup
      <4>2. r.pc = "approved?"
        BY <4>1 DEF Idle
      <4> QED BY <2>1, <4>1, <4>2
    <3>8. ASSUME NEW name \in SwitchNames, ModeratorSwitch(h, s, name) PROVE FALSE
      <4>1. PICK r : /\ Go(h, r)
                     /\ r = [Idle EXCEPT !.op = "switch", !.pc = "role?", !.s = s, !.name = name]
        BY <3>8 DEF ModeratorSwitch
      <4>2. r.pc = "role?"
        BY <4>1 DEF Idle
      <4> QED BY <2>1, <4>1, <4>2
    <3>9. ASSUME NEW by \in Students, NEW g \in Groups, RemoveStudent(h, s, by, g) PROVE FALSE
      <4>1. PICK r : /\ Go(h, r)
                     /\ r = [Idle EXCEPT !.op = "remove", !.pc = "role?", !.s = s, !.g = g,
                                         !.next = by]
        BY <3>9 DEF RemoveStudent
      <4>2. r.pc = "role?"
        BY <4>1 DEF Idle
      <4> QED BY <2>1, <4>1, <4>2
    <3>10. ASSUME NEW state \in States, VerifyInGroup(h, s, state) PROVE FALSE
      <4>1. PICK r : /\ Go(h, r)
                     /\ r = [Idle EXCEPT !.op = "verifyGroup", !.pc = "state", !.s = s,
                                         !.g = student[s].group, !.state = state]
        BY <3>10 DEF VerifyInGroup
      <4>2. r.pc = "state"
        BY <4>1 DEF Idle
      <4> QED BY <2>1, <4>1, <4>2
    <3> QED BY <3>1, <3>2, <3>3, <3>4, <3>5, <3>6, <3>7, <3>8, <3>9, <3>10
  <2>4. ASSUME NEW s \in Students, NEW g \in Groups, NEW c \in BOOLEAN,
               RequestNewGroup(h, s, g, c)
        PROVE  FALSE
    <3>1. PICK r : /\ Go(h, r)
                   /\ r = [Idle EXCEPT !.op = "request", !.s = s, !.g = g,
                             !.pc = IF c THEN "captain?" ELSE "write"]
      BY <2>4 DEF RequestNewGroup
    <3>2. r.pc \in {"captain?", "write"}
      BY <3>1 DEF Idle
    <3> QED BY <2>1, <3>1, <3>2
  <2>5. ASSUME NEW s \in Students, NEW c \in BOOLEAN, NEW state \in States,
               VerifyByBot(h, s, c, state)
        PROVE  FALSE
    <3>1. PICK r : /\ Go(h, r)
                   /\ r = [Idle EXCEPT !.op = "verifyUser", !.s = s, !.g = student[s].group,
                             !.state = state, !.name = IF c THEN "CAPTAIN" ELSE "STUDENT",
                             !.pc = IF state # "APPROVED" THEN "tell"
                                    ELSE IF c THEN "captain?" ELSE "group?"]
      BY <2>5 DEF VerifyByBot
    <3>2. r.pc \in {"tell", "captain?", "group?"}
      BY <3>1 DEF Idle
    <3> QED BY <2>1, <3>1, <3>2
  <2> QED BY <2>3, <2>4, <2>5 DEF Begin
<1>7. CASE CompareRanks(h)
  <2>1. PICK mine \in GroupRoles(req[h].next) :
          /\ Outranks(mine.name, req[h].row.name)
          /\ Go(h, [req[h] EXCEPT !.pc = "take"])
    BY <1>5, <1>7 DEF CompareRanks
  <2>2. mine.name \in Names
    BY DEF GroupRoles, Typed, TypeOK, RoleRow
  <2>3. req[h].row.name # "CAPTAIN"
    BY <2>1, <2>2 DEF Outranks, Weight, Names
  <2>4. req'[h].row = req[h].row
    BY <1>3, <1>4, <2>1 DEF Request
  <2> QED BY <2>3, <2>4
<1>8. CASE ReadRole(h)
  <2>1. PICK q : Go(h, [req[h] EXCEPT !.pc = AfterRole[req[h].op], !.row = q])
    BY <1>5, <1>8 DEF ReadRole
  <2>2. req[h].op = "remove" /\ AfterRole[req[h].op] = "take"
    BY <1>3, <1>4, <2>1 DEF Request
  <2> QED BY <2>2 DEF AfterRole
<1>9. CASE ReadGroup(h) \/ OldCaptain(h) \/ SetRole(h)
  <2>1. [req[h] EXCEPT !.pc = "give", !.g = student[req[h].s].group].pc = "give"
    BY <1>3 DEF Request
  <2>2. \A c : [req[h] EXCEPT !.pc = "role?", !.s = c, !.name = "STUDENT",
                              !.next = req[h].s].pc = "role?"
    BY <1>3 DEF Request
  <2>3. [Idle EXCEPT !.op = "captain", !.pc = "promote?", !.g = req[h].g,
                     !.s = req[h].next, !.name = "CAPTAIN"].pc = "promote?"
    BY DEF Idle
  <2>4. [req[h] EXCEPT !.pc = "role?"].pc = "role?"
    BY <1>3 DEF Request
  <2> QED BY <1>4, <1>5, <1>9, <2>1, <2>2, <2>3, <2>4 DEF ReadGroup, OldCaptain, SetRole
<1>10. \A p : Go(h, [req[h] EXCEPT !.pc = p]) => p = "take"
  BY <1>3, <1>4 DEF Request
<1>11. /\ ~TakeAccount(h) /\ ~Regroup(h) /\ ~Give(h) /\ ~Tell(h) /\ ~WriteState(h)
       /\ ~WriteRequest(h) /\ ~TakeRole(h) /\ ~Decline(h) /\ ~CheckApproved(h) /\ ~Move(h)
  BY <1>5, <1>10
  DEF TakeAccount, Regroup, Give, Tell, WriteState, WriteRequest, TakeRole, Decline,
      CheckApproved, Move
<1>12. ~CheckCaptain(h)
  BY <1>5, <1>10 DEF CheckCaptain
<1> QED BY <1>1, <1>2, <1>6, <1>7, <1>8, <1>9, <1>11, <1>12 DEF Continue

\* Of requests that move roles about and verify nobody any number may cross, and
\* whoever asks: a removal takes nobody's role who is captain when it is taken.
THEOREM CaptainsAreSpared ==
  ASSUME Ops \subseteq MovingOps
  PROVE  Spec => CaptainsStay
<1> DEFINE Spared == \A h \in Handlers : Removes(h) => \A r \in roles \ roles' : r.name # "CAPTAIN"
<1>1. Typed /\ RoleInv /\ NotTheCaptain /\ [Next]_vars => [Spared]_vars
  <2> SUFFICES ASSUME Typed, RoleInv, NotTheCaptain, Next, NEW h \in Handlers,
                      req[h].op = "remove", req'[h] # req[h], NEW r \in roles \ roles'
               PROVE  r.name # "CAPTAIN"
    BY DEF Removes
  <2>1. PICK k \in Handlers : Begin(k) \/ Continue(k)
    BY DEF Next
  <2>2. k = h
    BY <2>1, OneActs
  <2>0. req[h] # Idle
    BY DEF Idle
  <2>3. ~Begin(h)
    BY <2>0
    DEF Begin, Register, AddUnregistered, Claim, ChangeGroup, VerifyByBot, VerifyInGroup,
        RequestNewGroup, ModeratorSwitch, SwitchCaptain, RemoveStudent, LeaveGroup, Delete,
        Starts
  <2>4. Ready(req[h])
    BY DEF Typed
  <2>5. ~Give(h) /\ ~SetRole(h) /\ ~Move(h)
    BY <2>4 DEF Give, SetRole, Move, At, Ready, RoleInv, Giving
  <2>6. CASE TakeRole(h)
    <3>1. r = req[h].row /\ req[h].pc = "take"
      BY <2>6 DEF TakeRole, At
    <3> QED BY <3>1 DEF NotTheCaptain
  <2>7. CASE Decline(h)
    BY <2>7 DEF Decline, At, RoleInv, Declining, Cascade
  <2>8. roles' # roles
    OBVIOUS
  <2> QED
    BY <2>1, <2>2, <2>3, <2>5, <2>6, <2>7, <2>8
    DEF Continue, TakeAccount, Regroup, CheckCaptain, ReadGroup, Tell, WriteState,
        WriteRequest, OldCaptain, ReadRole, CompareRanks, CheckApproved, Frame
<1>2. Init => NotTheCaptain
  BY DEF Init, NotTheCaptain, Idle
<1>3. Typed /\ NotTheCaptain /\ [Next]_vars => NotTheCaptain'
  BY ComparedKept
<1> QED BY <1>1, <1>2, <1>3, AlwaysTyped, AlwaysRoles, PTL DEF Spec, CaptainsStay
=============================================================================
