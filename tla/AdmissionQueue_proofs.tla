----------------------- MODULE AdmissionQueue_proofs -----------------------
(***************************************************************************)
(* Proofs about AdmissionQueue, for any queues, users, requests in         *)
(* progress and bounds: whatever crosses, numbers are given once and a     *)
(* number is called in once; with requests one after another, positions,   *)
(* places, the order of calls and the ways back to the line are what an    *)
(* entrant is shown, and the queue implements Line.                        *)
(***************************************************************************)
EXTENDS AdmissionQueue, FiniteSetTheorems, TLAPS

\* The guard of sendMessage keeps what it is given well typed.
LEMMA SendMessageType ==
  ASSUME NEW h \in Handlers, NEW u \in Users, NEW m \in SUBSET Message,
         NEW next \in Request, TypeOK, SendMessage(h, u, m, next)
  PROVE  /\ req' \in [Handlers -> Request]
         /\ called' \subseteq Message
         /\ req' = [req EXCEPT ![h] = next] \/ req' = [req EXCEPT ![h] = Idle]
BY DEF TypeOK, SendMessage, Request

\* What a place in its handler says of the locals a request carries.
LEMMA RequestKinds ==
  ASSUME NEW r \in Request
  PROVE  /\ r.pc \in {"check", "assign", "insert"} => r \in Creating
         /\ r.pc = "going" => r \in Advancing
         /\ r.pc \in {"write", "moved"} => r \in Updating
         /\ r.pc \in {"call", "bye"} => r \in Calling
         /\ r.pc = "sweep" => r \in Sweeping
         /\ r.pc = "tell" => r \in Telling
BY DEF Request, Idle, Creating, Advancing, Updating, Calling, Sweeping, Telling

\* What follows the write of updateQueueUser is a request again.
LEMMA ContinueType ==
  ASSUME NEW r \in Updating
  PROVE  Continue(r) \in Request /\ Continue(r).pc # "insert"
BY DEF Continue, Updating, Request, Idle, Calling, Sweeping

-----------------------------------------------------------------------------
\* The tables, the counter in memory and the locals of the requests keep their
\* types; in particular a place in the queue is never negative.
THEOREM TypeCorrect == Spec => []TypeOK
<1>1. Init => TypeOK
  BY DEF Init, TypeOK, QueueRow, Request
<1>2. TypeOK /\ [Next]_vars => TypeOK'
  <2> SUFFICES ASSUME TypeOK, [Next]_vars PROVE TypeOK'
    OBVIOUS
  <2> USE AdmissionAssumption
  <2>1. ASSUME NEW h \in Handlers, NEW q \in Queues, CreateQueue(h, q)
        PROVE  TypeOK'
    BY <2>1 DEF CreateQueue, TypeOK, QueueRow
  <2>2. ASSUME NEW h \in Handlers, NEW q \in Queues, DeleteQueue(h, q)
        PROVE  TypeOK'
    BY <2>2 DEF DeleteQueue, TypeOK, QueueRow
  <2>3. ASSUME NEW h \in Handlers, NEW q \in Queues, BeginAdvance(h, q)
        PROVE  TypeOK'
    <3>1. PICK r \in rows : req' = [req EXCEPT ![h] =
                                [pc |-> "going", queue |-> q, row |-> r.id]]
      BY <2>3 DEF BeginAdvance, Waiting
    <3>2. [pc |-> "going", queue |-> q, row |-> r.id] \in Request
      BY DEF Request, Advancing, TypeOK, PositionRow
    <3>3. QED
      BY <2>3, <3>1, <3>2 DEF BeginAdvance, TypeOK
  <2>4. ASSUME NEW h \in Handlers, NEW q \in Queues,
               NEW open \in BOOLEAN, NEW active \in BOOLEAN,
               UpdateQueue(h, q, open, active)
        PROVE  TypeOK'
    BY <2>4 DEF UpdateQueue, TypeOK, QueueRow
  <2>5. ASSUME NEW h \in Handlers, NEW q \in Queues, NEW u \in Users,
               NEW force \in BOOLEAN, BeginCreate(h, q, u, force)
        PROVE  TypeOK'
    <3>1. [pc |-> "check", queue |-> q, user |-> u, version |-> queue[q].version,
           code |-> 0] \in Request
      BY DEF Request, Creating, TypeOK, QueueRow
    <3>2. QED
      BY <2>5, <3>1 DEF BeginCreate, TypeOK
  <2>6. ASSUME NEW h \in Handlers, NEW q \in Queues, NEW u \in Users,
               NEW p \in NewPositions \cup {0}, NEW s \in NewStatuses \cup {NoStatus},
               BeginUpdate(h, q, u, p, s)
        PROVE  TypeOK'
    <3>1. PICK r \in RowsOf(q, u) : req' = [req EXCEPT ![h] =
            [pc |-> "write", queue |-> q, user |-> u, code |-> r.code,
             position |-> NewPosition(r, p), status |-> NewStatus(r, s), body |-> s,
             moved |-> NewPosition(r, p) # r.position,
             changed |-> \/ NewPosition(r, p) # r.position
                         \/ s \notin {NoStatus, r.status}]]
      BY <2>6 DEF BeginUpdate
    <3>2. r \in PositionRow
      BY DEF RowsOf, TypeOK
    <3>3. NewPosition(r, p) \in Nat /\ NewStatus(r, s) \in Status
      BY <3>2 DEF NewPosition, NewStatus, PositionRow
    <3>4. req'[h] \in Request
      BY <3>1, <3>2, <3>3 DEF Request, Updating, TypeOK, PositionRow
    <3>5. QED
      BY <2>6, <3>1, <3>4 DEF BeginUpdate, TypeOK
  <2>7. ASSUME NEW h \in Handlers, NEW q \in Queues, NEW u \in Users,
               DeletePosition(h, q, u)
        PROVE  TypeOK'
    BY <2>7 DEF DeletePosition, TypeOK, Request, Calling
  <2>8. ASSUME NEW h \in Handlers, NEW u \in Users, CreateUser(h, u)
        PROVE  TypeOK'
    BY <2>8 DEF CreateUser, TypeOK
  <2>9. ASSUME NEW h \in Handlers, CheckPosition(h)
        PROVE  TypeOK'
    <3>1. [req[h] EXCEPT !.pc = "assign"] \in Request /\ Idle \in Request
      BY <2>9, RequestKinds DEF CheckPosition, TypeOK, Request, Creating
    <3>2. QED
      BY <2>9, <3>1 DEF CheckPosition, TypeOK
  <2>10. ASSUME NEW h \in Handlers, GeneratePosition(h)
         PROVE  TypeOK'
    <3>1. req[h] \in Creating
      BY <2>10, RequestKinds DEF GeneratePosition, TypeOK
    <3>2. NextCode(req[h].queue) \in Nat
      BY <3>1 DEF NextCode, TypeOK, Creating
    <3>3. [[req[h] EXCEPT !.pc = "insert"] EXCEPT !.code = NextCode(req[h].queue)]
             \in Request
      BY <3>1, <3>2 DEF Creating, Request
    <3>4. QED
      BY <2>10, <3>1, <3>2, <3>3 DEF GeneratePosition, TypeOK
  <2>11. ASSUME NEW h \in Handlers, InsertPosition(h)
         PROVE  TypeOK'
    <3>1. req[h] \in Creating
      BY <2>11, RequestKinds DEF InsertPosition, TypeOK
    <3>2. QED
      BY <2>11, <3>1 DEF InsertPosition, TypeOK, Creating, PositionRow, Request, Status
  <2>12. ASSUME NEW h \in Handlers, Advance(h)
         PROVE  TypeOK'
    <3>1. CASE \E r \in rows :
                 /\ rows' = (rows \ {r}) \cup {[r EXCEPT !.status = "GOING"]}
                 /\ req' = [req EXCEPT ![h] = [pc |-> "call", queue |-> r.queue,
                                       user |-> r.user, code |-> r.code]]
      <4>1. PICK r \in rows :
                 /\ rows' = (rows \ {r}) \cup {[r EXCEPT !.status = "GOING"]}
                 /\ req' = [req EXCEPT ![h] = [pc |-> "call", queue |-> r.queue,
                                       user |-> r.user, code |-> r.code]]
        BY <3>1
      <4>2. /\ [r EXCEPT !.status = "GOING"] \in PositionRow
            /\ [pc |-> "call", queue |-> r.queue, user |-> r.user,
                code |-> r.code] \in Request
        BY DEF TypeOK, PositionRow, Status, Request, Calling
      <4>3. QED
        BY <2>12, <4>1, <4>2 DEF Advance, TypeOK
    <3>2. CASE req' = [req EXCEPT ![h] = Idle] /\ rows' = rows
      BY <2>12, <3>2 DEF Advance, TypeOK, Request
    <3>3. QED
      BY <2>12, <3>1, <3>2 DEF Advance
  <2>13. ASSUME NEW h \in Handlers, Call(h)
         PROVE  TypeOK'
    <3>1. req[h] \in Calling
      BY <2>13, RequestKinds DEF Call, TypeOK
    <3>2. {[queue |-> req[h].queue, user |-> req[h].user, code |-> req[h].code]}
            \in SUBSET Message /\ Idle \in Request /\ req[h].user \in Users
      BY <3>1 DEF Calling, Message, Request
    <3>3. QED
      BY <2>13, <3>2, SendMessageType DEF Call, TypeOK
  <2>14. ASSUME NEW h \in Handlers, Update(h)
         PROVE  TypeOK'
    <3>1. req[h] \in Updating
      BY <2>14, RequestKinds DEF Update, TypeOK
    <3>2. \A r \in rows : Rewritten(r, req[h]) \in PositionRow
      BY <3>1, ZenonT(60) DEF Rewritten, Updating, PositionRow, TypeOK
    <3>3. [req[h] EXCEPT !.pc = "moved"] \in Request /\ Continue(req[h]) \in Request
      BY <3>1, ContinueType DEF Updating, Request
    <3>4. QED
      BY <2>14, <3>2, <3>3 DEF Update, TypeOK
  <2>15. ASSUME NEW h \in Handlers, TellMoved(h)
         PROVE  TypeOK'
    <3>1. req[h] \in Updating
      BY <2>15, RequestKinds DEF TellMoved, TypeOK
    <3>2. Continue(req[h]) \in Request /\ req[h].user \in Users
      BY <3>1, ContinueType DEF Updating
    <3>3. QED
      BY <2>15, <3>2, SendMessageType DEF TellMoved, TypeOK
  <2>16. ASSUME NEW h \in Handlers, Sweep(h)
         PROVE  TypeOK'
    <3>1. req[h] \in Sweeping
      BY <2>16, RequestKinds DEF Sweep, TypeOK
    <3>2. CASE req' = [req EXCEPT ![h] = Idle]
      BY <2>16, <3>2 DEF Sweep, TypeOK, Request
    <3>3. ASSUME NEW n \in 0..MaxNotify, NEW l \in [1..n -> Waiting(req[h].queue)],
                 req' = [req EXCEPT ![h] =
                   [pc |-> "tell", queue |-> req[h].queue, n |-> 1,
                    list |-> [i \in 1..n |-> l[i].user]]]
          PROVE  TypeOK'
      <4>1. \A i \in 1..n : l[i].user \in Users
        BY DEF Waiting, TypeOK, PositionRow
      <4>2. [i \in 1..n |-> l[i].user] \in Seq(Users)
        BY <4>1
      <4>3. QED
        BY <2>16, <3>1, <3>3, <4>2 DEF Sweep, TypeOK, Request, Telling, Sweeping
    <3>4. QED
      BY <2>16, <3>2, <3>3 DEF Sweep
  <2>17. ASSUME NEW h \in Handlers, Tell(h)
         PROVE  TypeOK'
    <3>1. req[h] \in Telling
      BY <2>17, RequestKinds DEF Tell, TypeOK
    <3>2. CASE req' = [req EXCEPT ![h] = Idle] /\ called' = called
      BY <2>17, <3>2 DEF Tell, TypeOK, Request
    <3>3. CASE /\ req[h].n <= Len(req[h].list)
               /\ SendMessage(h, req[h].list[req[h].n], {},
                              [req[h] EXCEPT !.n = req[h].n + 1])
      <4>1. req[h].list[req[h].n] \in Users
        BY <3>1, <3>3 DEF Telling
      <4>2. [req[h] EXCEPT !.n = req[h].n + 1] \in Request
        BY <3>1 DEF Telling, Request
      <4>3. QED
        BY <2>17, <3>3, <4>1, <4>2, SendMessageType DEF Tell, TypeOK
    <3>4. QED
      BY <2>17, <3>2, <3>3 DEF Tell
  <2>18. ASSUME NEW h \in Handlers, SayBye(h)
         PROVE  TypeOK'
    <3>1. req[h] \in Calling
      BY <2>18, RequestKinds DEF SayBye, TypeOK
    <3>2. req[h].user \in Users /\ Idle \in Request
      BY <3>1 DEF Calling, Request
    <3>3. QED
      BY <2>18, <3>2, SendMessageType DEF SayBye, TypeOK
  <2>19. CASE Restart
    BY <2>19 DEF Restart, TypeOK, Request
  <2>20. CASE UNCHANGED vars
    BY <2>20 DEF vars, TypeOK
  <2>21. QED
    BY <2>1, <2>2, <2>3, <2>4, <2>5, <2>6, <2>7, <2>8, <2>9, <2>10, <2>11, <2>12,
       <2>13, <2>14, <2>15, <2>16, <2>17, <2>18, <2>19, <2>20
    DEF Next, Ask, Step
<1>3. QED
  BY <1>1, <1>2, PTL DEF Spec
-----------------------------------------------------------------------------
(* The numbers.  IndInv is inductive: a number is fresh from the moment the *)
(* counter gives it out until its row is stored, and the counter restored   *)
(* after a restart covers every row because rows belong to live queues.     *)

\* A step that changes neither the tables nor the counter and puts no handler
\* between its number and its row keeps IndInv.
LEMMA QuietStep ==
  ASSUME TypeOK, IndInv, UNCHANGED <<queue, rows, nextId, counter>>,
         \A h \in Handlers : req'[h] = req[h] \/ req'[h].pc # "insert"
  PROVE  IndInv'
BY DEF IndInv, IdsBelow, IdsUnique, RowsOfLive, Covered, Fresh, CodesUnique,
       Inserting, Live

\* SendMessage moves its own request only.
LEMMA SendMessageQuiet ==
  ASSUME NEW h \in Handlers, NEW u, NEW m, NEW next, TypeOK,
         SendMessage(h, u, m, next), next.pc # "insert"
  PROVE  \A g \in Handlers : req'[g] = req[g] \/ req'[g].pc # "insert"
BY DEF SendMessage, TypeOK, Idle

LEMMA Numbers == TypeOK /\ IndInv /\ [Next]_vars => IndInv'
<1> SUFFICES ASSUME TypeOK, IndInv, [Next]_vars PROVE IndInv'
  OBVIOUS
<1> USE AdmissionAssumption
<1>1. ASSUME NEW h \in Handlers, NEW q \in Queues, CreateQueue(h, q)
      PROVE  IndInv'
  BY <1>1 DEF CreateQueue, TypeOK, QueueRow, IndInv, IdsBelow, IdsUnique, RowsOfLive,
              Covered, Fresh, CodesUnique, Inserting, Live
<1>2. ASSUME NEW h \in Handlers, NEW q \in Queues, DeleteQueue(h, q)
      PROVE  IndInv'
  BY <1>2 DEF DeleteQueue, TypeOK, QueueRow, PositionRow, IndInv, IdsBelow, IdsUnique,
              RowsOfLive, Covered, Fresh, CodesUnique, Inserting, Live
<1>3. ASSUME NEW h \in Handlers, NEW q \in Queues, BeginAdvance(h, q)
      PROVE  IndInv'
  BY <1>3, QuietStep DEF BeginAdvance, TypeOK
<1>4. ASSUME NEW h \in Handlers, NEW q \in Queues,
             NEW open \in BOOLEAN, NEW active \in BOOLEAN,
             UpdateQueue(h, q, open, active)
      PROVE  IndInv'
  BY <1>4 DEF UpdateQueue, TypeOK, QueueRow, IndInv, IdsBelow, IdsUnique, RowsOfLive,
              Covered, Fresh, CodesUnique, Inserting, Live
<1>5. ASSUME NEW h \in Handlers, NEW q \in Queues, NEW u \in Users,
             NEW force \in BOOLEAN, BeginCreate(h, q, u, force)
      PROVE  IndInv'
  BY <1>5, QuietStep DEF BeginCreate, TypeOK
<1>6. ASSUME NEW h \in Handlers, NEW q \in Queues, NEW u \in Users,
             NEW p \in NewPositions \cup {0}, NEW s \in NewStatuses \cup {NoStatus},
             BeginUpdate(h, q, u, p, s)
      PROVE  IndInv'
  BY <1>6, QuietStep DEF BeginUpdate, TypeOK
<1>7. ASSUME NEW h \in Handlers, NEW q \in Queues, NEW u \in Users,
             DeletePosition(h, q, u)
      PROVE  IndInv'
  BY <1>7 DEF DeletePosition, RowsOf, TypeOK, PositionRow, IndInv, IdsBelow, IdsUnique,
              RowsOfLive, Covered, Fresh, CodesUnique, Inserting, Live
<1>8. ASSUME NEW h \in Handlers, NEW u \in Users, CreateUser(h, u)
      PROVE  IndInv'
  BY <1>8, QuietStep DEF CreateUser, TypeOK
<1>9. ASSUME NEW h \in Handlers, CheckPosition(h)
      PROVE  IndInv'
  BY <1>9, QuietStep, RequestKinds DEF CheckPosition, TypeOK, Creating, Idle
<1>10. ASSUME NEW h \in Handlers, GeneratePosition(h)
       PROVE  IndInv'
  <2>1. req[h] \in Creating
    BY <1>10, RequestKinds DEF GeneratePosition, TypeOK
  <2> DEFINE q == req[h].queue
  <2>2. /\ q \in Queues
        /\ counter' = [counter EXCEPT ![q] = counter[q] + 1]
        /\ counter[q] \in Nat
        /\ req'[h].pc = "insert" /\ req'[h].code = counter[q] + 1 /\ req'[h].queue = q
        /\ \A g \in Handlers : g # h => req'[g] = req[g]
        /\ UNCHANGED <<queue, rows, nextId>>
    BY <1>10, <2>1 DEF GeneratePosition, NextCode, TypeOK, Creating
  <2>3. \A g \in Handlers : Inserting(g) => req[g] \in Creating
    BY RequestKinds DEF Inserting, TypeOK
  <2>4. \A r \in rows : r.queue \in Queues /\ r.code \in Nat
    BY DEF TypeOK, PositionRow
  <2>5. Covered'
    BY <2>2, <2>3, <2>4 DEF IndInv, Covered, Inserting, TypeOK, Creating
  <2>6. Fresh'
    BY <2>2, <2>3, <2>4 DEF IndInv, Covered, Fresh, Inserting, TypeOK, Creating
  <2>7. QED
    BY <2>2, <2>5, <2>6 DEF IndInv, IdsBelow, IdsUnique, RowsOfLive, CodesUnique, Live
<1>11. ASSUME NEW h \in Handlers, InsertPosition(h)
       PROVE  IndInv'
  <2>1. req[h] \in Creating
    BY <1>11, RequestKinds DEF InsertPosition, TypeOK
  <2>2. CASE UNCHANGED <<rows, nextId>>
    BY <1>11, <2>2, QuietStep DEF InsertPosition, TypeOK, Idle
  <2>3. CASE Live(req[h].queue)
    <3> DEFINE new == [id |-> nextId, queue |-> req[h].queue, user |-> req[h].user,
                       code |-> req[h].code, position |-> req[h].code,
                       status |-> "WAITING"]
    <3>1. /\ rows' = rows \cup {new} /\ nextId' = nextId + 1
          /\ UNCHANGED <<queue, counter>>
          /\ req' = [req EXCEPT ![h] = Idle]
      BY <1>11, <2>3 DEF InsertPosition
    <3>2. \A g \in Handlers : Inserting(g)' => g # h /\ Inserting(g) /\ req'[g] = req[g]
      BY <3>1 DEF Inserting, TypeOK, Idle
    <3>3. Inserting(h) /\ new.queue = req[h].queue /\ new.code = req[h].code
      BY <1>11 DEF InsertPosition, Inserting
    <3>4. \A r \in rows : r.queue = new.queue => r.code # new.code
      BY <3>3 DEF IndInv, Fresh
    <3>5. (IdsBelow /\ IdsUnique)'
      BY <3>1 DEF IndInv, IdsBelow, IdsUnique, TypeOK, PositionRow
    <3>6. (RowsOfLive /\ Covered)'
      BY <2>3, <3>1, <3>2, <3>3 DEF IndInv, RowsOfLive, Covered, Live
    <3>7. Fresh'
      BY <3>1, <3>2, <3>3 DEF IndInv, Fresh
    <3>8. CodesUnique'
      BY <3>1, <3>4 DEF IndInv, CodesUnique
    <3>9. QED
      BY <3>5, <3>6, <3>7, <3>8 DEF IndInv
  <2>4. QED
    BY <1>11, <2>2, <2>3 DEF InsertPosition
<1>12. ASSUME NEW h \in Handlers, Advance(h)
       PROVE  IndInv'
  <2>1. CASE UNCHANGED rows
    BY <1>12, <2>1, QuietStep DEF Advance, TypeOK, Idle
  <2>2. ASSUME NEW r \in rows,
               rows' = (rows \ {r}) \cup {[r EXCEPT !.status = "GOING"]},
               req'[h].pc = "call"
        PROVE  IndInv'
    <3> DEFINE s == [r EXCEPT !.status = "GOING"]
    <3>1. s.id = r.id /\ s.queue = r.queue /\ s.code = r.code
      BY DEF TypeOK, PositionRow
    <3>2. /\ UNCHANGED <<queue, nextId, counter>>
          /\ \A g \in Handlers : Inserting(g)' => Inserting(g) /\ req'[g] = req[g]
      BY <1>12, <2>2 DEF Advance, Inserting, TypeOK
    <3>3. \A t \in rows' : \E t0 \in rows :
            /\ t0.id = t.id /\ t0.queue = t.queue /\ t0.code = t.code
            /\ t0 = r => t = s
            /\ t0 # r => t = t0
      BY <2>2, <3>1
    <3>4. QED
      BY <3>2, <3>3 DEF IndInv, IdsBelow, IdsUnique, RowsOfLive, Covered, Fresh,
                        CodesUnique, Live
  <2>3. QED
    BY <1>12, <2>1, <2>2 DEF Advance, TypeOK
<1>13. ASSUME NEW h \in Handlers, Call(h)
       PROVE  IndInv'
  BY <1>13, QuietStep, SendMessageQuiet DEF Call, Idle
<1>14. ASSUME NEW h \in Handlers, Update(h)
       PROVE  IndInv'
  <2>1. req[h] \in Updating
    BY <1>14, RequestKinds DEF Update, TypeOK
  <2>2. \A r \in rows : /\ Rewritten(r, req[h]).id = r.id
                         /\ Rewritten(r, req[h]).queue = r.queue
                         /\ Rewritten(r, req[h]).code = r.code
    BY DEF Rewritten, TypeOK, PositionRow
  <2>3. req'[h].pc # "insert"
    BY <1>14, <2>1, ContinueType DEF Update, TypeOK, Updating
  <2>4. /\ UNCHANGED <<queue, nextId, counter>>
        /\ \A g \in Handlers : Inserting(g)' => Inserting(g) /\ req'[g] = req[g]
    BY <1>14, <2>3 DEF Update, Inserting, TypeOK
  <2>5. \A t \in rows' : \E r \in rows : t = Rewritten(r, req[h])
    BY <1>14 DEF Update
  <2>6. QED
    BY <2>2, <2>4, <2>5 DEF IndInv, IdsBelow, IdsUnique, RowsOfLive, Covered, Fresh,
                            CodesUnique, Live
<1>15. ASSUME NEW h \in Handlers, TellMoved(h)
       PROVE  IndInv'
  <2>1. Continue(req[h]).pc # "insert"
    BY <1>15, RequestKinds, ContinueType DEF TellMoved, TypeOK
  <2>2. QED
    BY <1>15, <2>1, QuietStep, SendMessageQuiet DEF TellMoved
<1>16. ASSUME NEW h \in Handlers, Sweep(h)
       PROVE  IndInv'
  BY <1>16, QuietStep DEF Sweep, TypeOK, Idle
<1>17. ASSUME NEW h \in Handlers, Tell(h)
       PROVE  IndInv'
  <2>1. [req[h] EXCEPT !.n = req[h].n + 1].pc # "insert"
    BY <1>17, RequestKinds DEF Tell, TypeOK, Telling
  <2>2. \A g \in Handlers : req'[g] = req[g] \/ req'[g].pc # "insert"
    <3>1. CASE SendMessage(h, req[h].list[req[h].n], {},
                           [req[h] EXCEPT !.n = req[h].n + 1])
      BY <2>1, <3>1, SendMessageQuiet
    <3>2. CASE req' = [req EXCEPT ![h] = Idle]
      BY <3>2 DEF TypeOK, Idle
    <3>3. QED
      BY <1>17, <3>1, <3>2 DEF Tell
  <2>3. QED
    BY <1>17, <2>2, QuietStep DEF Tell
<1>18. ASSUME NEW h \in Handlers, SayBye(h)
       PROVE  IndInv'
  BY <1>18, QuietStep, SendMessageQuiet DEF SayBye, Idle
<1>19. CASE Restart
  <2>1. PICK c \in [Queues -> 0..MaxCode] :
          (\A q \in Queues : LastCode(q, c[q])) /\ counter' = c
    BY <1>19 DEF Restart
  <2>2. \A r \in rows : r.code <= counter'[r.queue]
    BY <2>1 DEF LastCode, TypeOK, PositionRow
  <2>3. \A h \in Handlers : ~Inserting(h)'
    BY <1>19 DEF Restart, Inserting, Idle
  <2>4. QED
    BY <1>19, <2>2, <2>3 DEF Restart, IndInv, IdsBelow, IdsUnique, RowsOfLive, Covered,
                             Fresh, CodesUnique, Live
<1>20. CASE UNCHANGED vars
  BY <1>20, QuietStep DEF vars
<1>21. QED
  BY <1>1, <1>2, <1>3, <1>4, <1>5, <1>6, <1>7, <1>8, <1>9, <1>10, <1>11, <1>12,
     <1>13, <1>14, <1>15, <1>16, <1>17, <1>18, <1>19, <1>20
  DEF Next, Ask, Step

\* The inductive strengthening holds of every behaviour.
THEOREM NumbersInvariant == Spec => []IndInv
<1>1. Init => IndInv
  BY DEF Init, IndInv, IdsBelow, IdsUnique, RowsOfLive, Covered, Fresh, CodesUnique,
         Inserting, Idle
<1>2. QED
  BY <1>1, TypeCorrect, Numbers, PTL DEF Spec

\* The number an entrant is called by is nobody else's in the same queue, for any
\* interleaving of any number of requests and any restarts.
THEOREM CodesAreUnique == Spec => []CodesUnique
<1>1. IndInv => CodesUnique
  BY DEF IndInv
<1>2. QED
  BY <1>1, NumbersInvariant, PTL

-----------------------------------------------------------------------------
(* One number, one person.  While the process keeps its counter a number    *)
(* travels from the counter to a row, from the row to the request that      *)
(* calls it and from there to Telegram; wherever it is met it is covered by *)
(* the counter and belongs to the same person, also after its row is gone.  *)

\* The number is met with this person: in the table, among the locals of a
\* request that has taken or read it, or in a message the bot has accepted.
Carrying(r, q, n, u) ==
  /\ r.pc \in {"insert", "write", "moved", "call"}
  /\ r.queue = q /\ r.code = n /\ r.user = u

Met(q, n, u) ==
  \/ \E r \in rows : r.queue = q /\ r.code = n /\ r.user = u
  \/ \E h \in Handlers : Carrying(req[h], q, n, u)
  \/ \E m \in called : m.queue = q /\ m.code = n /\ m.user = u

OwnerInv ==
  restarts = 0 =>
    \A q \in Queues, n \in Nat, u \in Users : Met(q, n, u) =>
      /\ n <= counter[q]
      /\ \A v \in Users : Met(q, n, v) => u = v

\* A step that leaves the counter alone and brings no number to a new person
\* keeps OwnerInv.
LEMMA OwnersStay ==
  ASSUME OwnerInv, UNCHANGED <<counter, restarts>>,
         \A q \in Queues, n \in Nat, u \in Users : Met(q, n, u)' => Met(q, n, u)
  PROVE  OwnerInv'
<1>1. SUFFICES ASSUME restarts = 0, NEW q \in Queues, NEW n \in Nat, NEW u \in Users,
                      Met(q, n, u)'
               PROVE  ( /\ n <= counter[q]
                        /\ \A v \in Users : Met(q, n, v) => u = v )'
  BY DEF OwnerInv
<1>2. \A v \in Users : Met(q, n, v)' => Met(q, n, v)
  OBVIOUS
<1>3. QED
  BY <1>1, <1>2 DEF OwnerInv

\* The same for a step that leaves the messages alone and whose rows' numbers
\* and people were met before, when its own request carries nothing new.
LEMMA OneCarries ==
  ASSUME TypeOK, OwnerInv, UNCHANGED <<counter, restarts>>, NEW h \in Handlers,
         \A g \in Handlers : g # h => req'[g] = req[g],
         \A s \in rows' : Met(s.queue, s.code, s.user),
         \A q \in Queues, n \in Nat, u \in Users :
            Carrying(req'[h], q, n, u) => Met(q, n, u),
         \A m \in called' : Met(m.queue, m.code, m.user)
  PROVE  OwnerInv'
<1>1. ASSUME NEW q \in Queues, NEW n \in Nat, NEW u \in Users, Met(q, n, u)'
      PROVE  Met(q, n, u)
  <2>1. CASE \E r \in rows' : r.queue = q /\ r.code = n /\ r.user = u
    BY <2>1
  <2>2. CASE \E m \in called' : m.queue = q /\ m.code = n /\ m.user = u
    BY <2>2
  <2>3. ASSUME NEW g \in Handlers, Carrying(req'[g], q, n, u)
        PROVE  Met(q, n, u)
    <3>1. CASE g = h
      BY <2>3, <3>1
    <3>2. CASE g # h
      BY <2>3, <3>2 DEF Met
    <3>3. QED
      BY <3>1, <3>2
  <2>4. QED
    BY <1>1, <2>1, <2>2, <2>3 DEF Met
<1>2. QED
  BY <1>1, OwnersStay

\* What is in the table, in a request or on Telegram is met.
LEMMA MetNow ==
  /\ \A r \in rows : Met(r.queue, r.code, r.user)
  /\ \A m \in called : Met(m.queue, m.code, m.user)
  /\ \A h \in Handlers, q \in Queues, n \in Nat, u \in Users :
       Carrying(req[h], q, n, u) => Met(q, n, u)
BY DEF Met

\* A step of a request that changes no row, no message and no counter keeps
\* OwnerInv when the number the request carries afterwards is the one it carried.
LEMMA QuietCarry ==
  ASSUME TypeOK, OwnerInv, UNCHANGED <<rows, counter, called, restarts>>,
         NEW h \in Handlers, \A g \in Handlers : g # h => req'[g] = req[g],
         \A q \in Queues, n \in Nat, u \in Users :
            Carrying(req'[h], q, n, u) => Met(q, n, u)
  PROVE  OwnerInv'
BY OneCarries, MetNow

\* A message whose number is met already, or none at all, and a request that
\* carries no new number afterwards.
LEMMA MessageCarry ==
  ASSUME TypeOK, OwnerInv, UNCHANGED <<rows, counter, restarts>>,
         NEW h \in Handlers, NEW u, NEW P, NEW next,
         SendMessage(h, u, P, next),
         \A m \in P : Met(m.queue, m.code, m.user),
         \A q \in Queues, n \in Nat, v \in Users :
            Carrying(next, q, n, v) => Met(q, n, v)
  PROVE  OwnerInv'
<1>1. \A m \in called' : Met(m.queue, m.code, m.user)
  BY MetNow DEF SendMessage
<1>2. /\ \A g \in Handlers : g # h => req'[g] = req[g]
      /\ req'[h] \in {next, Idle}
  BY DEF SendMessage, TypeOK
<1>3. \A q \in Queues, n \in Nat, v \in Users :
        Carrying(req'[h], q, n, v) => Met(q, n, v)
  BY <1>2 DEF Carrying, Idle
<1>4. QED
  BY <1>1, <1>2, <1>3, MetNow, OneCarries

\* What follows the write of updateQueueUser carries what the write carried.
LEMMA ContinueCarries ==
  ASSUME NEW r \in Updating, NEW q, NEW n, NEW u, Carrying(Continue(r), q, n, u)
  PROVE  Carrying(r, q, n, u)
BY DEF Continue, Carrying, Updating, Idle

LEMMA Owners == TypeOK /\ OwnerInv /\ [Next]_vars => OwnerInv'
<1> SUFFICES ASSUME TypeOK, OwnerInv, [Next]_vars PROVE OwnerInv'
  OBVIOUS
<1> USE AdmissionAssumption
<1>1. ASSUME NEW h \in Handlers, NEW q \in Queues, CreateQueue(h, q)
      PROVE  OwnerInv'
  BY <1>1, OwnersStay DEF CreateQueue, Met
<1>2. ASSUME NEW h \in Handlers, NEW q \in Queues, DeleteQueue(h, q)
      PROVE  OwnerInv'
  BY <1>2, OwnersStay DEF DeleteQueue, Met
<1>3. ASSUME NEW h \in Handlers, NEW q \in Queues, BeginAdvance(h, q)
      PROVE  OwnerInv'
  BY <1>3, QuietCarry DEF BeginAdvance, Carrying, TypeOK
<1>4. ASSUME NEW h \in Handlers, NEW q \in Queues,
             NEW open \in BOOLEAN, NEW active \in BOOLEAN,
             UpdateQueue(h, q, open, active)
      PROVE  OwnerInv'
  BY <1>4, OwnersStay DEF UpdateQueue, Met
<1>5. ASSUME NEW h \in Handlers, NEW q \in Queues, NEW u \in Users,
             NEW force \in BOOLEAN, BeginCreate(h, q, u, force)
      PROVE  OwnerInv'
  BY <1>5, QuietCarry DEF BeginCreate, Carrying, TypeOK
<1>6. ASSUME NEW h \in Handlers, NEW q \in Queues, NEW u \in Users,
             NEW p \in NewPositions \cup {0}, NEW s \in NewStatuses \cup {NoStatus},
             BeginUpdate(h, q, u, p, s)
      PROVE  OwnerInv'
  <2>1. PICK r \in RowsOf(q, u) : /\ req'[h].queue = q /\ req'[h].user = u
                                  /\ req'[h].code = r.code
    BY <1>6 DEF BeginUpdate, TypeOK
  <2>2. r \in rows /\ r.queue = q /\ r.user = u
    BY DEF RowsOf
  <2>3. QED
    BY <1>6, <2>1, <2>2, MetNow, QuietCarry DEF BeginUpdate, Carrying, TypeOK
<1>7. ASSUME NEW h \in Handlers, NEW q \in Queues, NEW u \in Users,
             DeletePosition(h, q, u)
      PROVE  OwnerInv'
  <2>1. \A r \in rows' : r \in rows
    BY <1>7 DEF DeletePosition
  <2>2. QED
    BY <1>7, <2>1, MetNow, OneCarries DEF DeletePosition, Carrying, TypeOK
<1>8. ASSUME NEW h \in Handlers, NEW u \in Users, CreateUser(h, u)
      PROVE  OwnerInv'
  BY <1>8, OwnersStay DEF CreateUser, Met
<1>9. ASSUME NEW h \in Handlers, CheckPosition(h)
      PROVE  OwnerInv'
  <2>1. req[h] \in Creating
    BY <1>9, RequestKinds DEF CheckPosition, TypeOK
  <2>2. req'[h].pc \in {"idle", "assign"}
    BY <1>9, <2>1 DEF CheckPosition, TypeOK, Creating, Idle
  <2>3. QED
    BY <1>9, <2>2, QuietCarry DEF CheckPosition, Carrying, TypeOK
<1>10. ASSUME NEW h \in Handlers, GeneratePosition(h)
       PROVE  OwnerInv'
  <2>1. req[h] \in Creating
    BY <1>10, RequestKinds DEF GeneratePosition, TypeOK
  <2> DEFINE p == req[h].queue
  <2>2. /\ p \in Queues /\ counter[p] \in Nat
        /\ counter' = [counter EXCEPT ![p] = counter[p] + 1]
        /\ req'[h].pc = "insert" /\ req'[h].code = counter[p] + 1 /\ req'[h].queue = p
        /\ req'[h].user = req[h].user
        /\ \A g \in Handlers : g # h => req'[g] = req[g]
        /\ UNCHANGED <<queue, rows, called, restarts>>
    BY <1>10, <2>1 DEF GeneratePosition, NextCode, TypeOK, Creating
  <2>3. ASSUME NEW q \in Queues, NEW n \in Nat, NEW u \in Users, Met(q, n, u)'
        PROVE  Met(q, n, u) \/ (q = p /\ n = counter[p] + 1 /\ u = req[h].user)
    <3>1. CASE \E g \in Handlers : Carrying(req'[g], q, n, u)
      BY <2>2, <3>1 DEF Carrying, Met
    <3>2. QED
      BY <2>2, <2>3, <3>1 DEF Met
  <2>4. SUFFICES ASSUME restarts = 0, NEW q \in Queues, NEW n \in Nat, NEW u \in Users,
                        Met(q, n, u)'
                 PROVE  ( /\ n <= counter[q]
                          /\ \A v \in Users : Met(q, n, v) => u = v )'
    BY <2>2 DEF OwnerInv
  <2>5. \A v \in Users : Met(q, n, v) =>
          n <= counter[q] /\ \A w \in Users : Met(q, n, w) => v = w
    BY <2>4 DEF OwnerInv
  <2>6. counter[q] \in Nat /\ counter'[q] = IF q = p THEN counter[q] + 1 ELSE counter[q]
    BY <2>2 DEF TypeOK
  <2>7. CASE q = p /\ n = counter[p] + 1
    <3>1. \A v \in Users : ~Met(q, n, v)
      BY <2>5, <2>6, <2>7
    <3>2. \A v \in Users : Met(q, n, v)' => v = req[h].user
      BY <2>3, <3>1
    <3>3. QED
      BY <2>4, <2>6, <2>7, <3>2
  <2>8. CASE ~(q = p /\ n = counter[p] + 1)
    <3>1. \A v \in Users : Met(q, n, v)' => Met(q, n, v)
      BY <2>3, <2>8
    <3>2. n <= counter[q] /\ n <= counter'[q]
      BY <2>4, <2>5, <2>6, <3>1
    <3>3. QED
      BY <2>4, <2>5, <3>1, <3>2
  <2>9. QED
    BY <2>7, <2>8
<1>11. ASSUME NEW h \in Handlers, InsertPosition(h)
       PROVE  OwnerInv'
  <2>1. req[h] \in Creating
    BY <1>11, RequestKinds DEF InsertPosition, TypeOK
  <2>2. Met(req[h].queue, req[h].code, req[h].user)
    BY <1>11, <2>1, MetNow DEF InsertPosition, Carrying, Creating
  <2>3. \A r \in rows' : Met(r.queue, r.code, r.user)
    BY <1>11, <2>2, MetNow DEF InsertPosition
  <2>4. QED
    BY <1>11, <2>3, MetNow, OneCarries DEF InsertPosition, Carrying, TypeOK, Idle
<1>12. ASSUME NEW h \in Handlers, Advance(h)
       PROVE  OwnerInv'
  <2>1. CASE UNCHANGED rows /\ req' = [req EXCEPT ![h] = Idle]
    BY <1>12, <2>1, QuietCarry DEF Advance, TypeOK, Idle, Carrying
  <2>2. ASSUME NEW r \in rows,
               rows' = (rows \ {r}) \cup {[r EXCEPT !.status = "GOING"]},
               req' = [req EXCEPT ![h] = [pc |-> "call", queue |-> r.queue,
                                       user |-> r.user, code |-> r.code]]
        PROVE  OwnerInv'
    <3> DEFINE s == [r EXCEPT !.status = "GOING"]
    <3>1. s.queue = r.queue /\ s.code = r.code /\ s.user = r.user
      BY DEF TypeOK, PositionRow
    <3>2. \A t \in rows' : Met(t.queue, t.code, t.user)
      BY <2>2, <3>1, MetNow
    <3>3. \A q \in Queues, n \in Nat, u \in Users :
            Carrying(req'[h], q, n, u) => Met(q, n, u)
      BY <2>2, MetNow DEF Carrying, TypeOK
    <3>4. QED
      BY <1>12, <2>2, <3>2, <3>3, MetNow, OneCarries DEF Advance, TypeOK
  <2>3. QED
    BY <1>12, <2>1, <2>2 DEF Advance
<1>13. ASSUME NEW h \in Handlers, Call(h)
       PROVE  OwnerInv'
  <2>1. req[h] \in Calling
    BY <1>13, RequestKinds DEF Call, TypeOK
  <2>2. Met(req[h].queue, req[h].code, req[h].user)
    BY <1>13, <2>1, MetNow DEF Call, Carrying, Calling
  <2>3. QED
    BY <1>13, <2>2, MessageCarry DEF Call, Carrying, Idle
<1>14. ASSUME NEW h \in Handlers, Update(h)
       PROVE  OwnerInv'
  <2>1. req[h] \in Updating
    BY <1>14, RequestKinds DEF Update, TypeOK
  <2>2. \A r \in rows : /\ Rewritten(r, req[h]).queue = r.queue
                         /\ Rewritten(r, req[h]).code = r.code
                         /\ Rewritten(r, req[h]).user = r.user
    BY DEF Rewritten, TypeOK, PositionRow
  <2>3. \A r \in rows' : Met(r.queue, r.code, r.user)
    BY <1>14, <2>2, MetNow DEF Update
  <2>4. \A q \in Queues, n \in Nat, u \in Users :
          Carrying(req'[h], q, n, u) => Carrying(req[h], q, n, u)
    <3>1. CASE req'[h] = Continue(req[h])
      BY <2>1, <3>1, ContinueCarries
    <3>2. CASE req'[h] = [req[h] EXCEPT !.pc = "moved"]
      BY <1>14, <2>1, <3>2 DEF Update, Carrying, Updating
    <3>3. QED
      BY <1>14, <3>1, <3>2 DEF Update, TypeOK
  <2>5. QED
    BY <1>14, <2>3, <2>4, MetNow, OneCarries DEF Update, TypeOK
<1>15. ASSUME NEW h \in Handlers, TellMoved(h)
       PROVE  OwnerInv'
  <2>1. req[h] \in Updating
    BY <1>15, RequestKinds DEF TellMoved, TypeOK
  <2>2. \A q \in Queues, n \in Nat, u \in Users :
          Carrying(Continue(req[h]), q, n, u) => Met(q, n, u)
    BY <2>1, ContinueCarries, MetNow
  <2>3. QED
    BY <1>15, <2>2, MessageCarry DEF TellMoved
<1>16. ASSUME NEW h \in Handlers, Sweep(h)
       PROVE  OwnerInv'
  <2>1. req'[h].pc \in {"tell", "idle"} /\ \A g \in Handlers : g # h => req'[g] = req[g]
    BY <1>16 DEF Sweep, TypeOK, Idle
  <2>2. QED
    BY <1>16, <2>1, QuietCarry DEF Sweep, Carrying
<1>17. ASSUME NEW h \in Handlers, Tell(h)
       PROVE  OwnerInv'
  <2>1. [req[h] EXCEPT !.n = req[h].n + 1].pc = "tell"
    BY <1>17, RequestKinds DEF Tell, TypeOK, Telling
  <2>2. CASE SendMessage(h, req[h].list[req[h].n], {},
                         [req[h] EXCEPT !.n = req[h].n + 1])
    <3>1. \A q \in Queues, n \in Nat, v \in Users :
            ~Carrying([req[h] EXCEPT !.n = req[h].n + 1], q, n, v)
      BY <2>1 DEF Carrying
    <3>2. UNCHANGED <<rows, counter, restarts>>
      BY <1>17 DEF Tell
    <3>3. \A m \in {} : Met(m.queue, m.code, m.user)
      OBVIOUS
    <3>4. QED
      BY <2>2, <3>1, <3>2, <3>3, MessageCarry
  <2>3. CASE req' = [req EXCEPT ![h] = Idle] /\ called' = called
    BY <1>17, <2>3, QuietCarry DEF Tell, Carrying, TypeOK, Idle
  <2>4. QED
    BY <1>17, <2>2, <2>3 DEF Tell
<1>18. ASSUME NEW h \in Handlers, SayBye(h)
       PROVE  OwnerInv'
  BY <1>18, MessageCarry DEF SayBye, Carrying, Idle
<1>19. CASE Restart
  BY <1>19 DEF Restart, OwnerInv, TypeOK
<1>20. CASE UNCHANGED vars
  BY <1>20, OwnersStay DEF vars, Met
<1>21. QED
  BY <1>1, <1>2, <1>3, <1>4, <1>5, <1>6, <1>7, <1>8, <1>9, <1>10, <1>11, <1>12,
     <1>13, <1>14, <1>15, <1>16, <1>17, <1>18, <1>19, <1>20
  DEF Next, Ask, Step

\* A number that was called over Telegram is never called again for another
\* person as long as the process keeps its counter, whatever requests interleave
\* with the call: its row may be moved, rewritten or deleted in between.
THEOREM NumbersCalledOnce == Spec => []CalledOnce
<1>1. Init => OwnerInv
  BY DEF Init, OwnerInv, Met, Carrying, Idle
<1>2. TypeOK /\ OwnerInv => CalledOnce
  <2> SUFFICES ASSUME TypeOK, OwnerInv, restarts = 0,
                      NEW m \in called, NEW k \in called,
                      m.queue = k.queue, m.code = k.code
               PROVE  m.user = k.user
    BY DEF CalledOnce
  <2>1. m \in Message /\ k \in Message
    BY DEF TypeOK
  <2>2. Met(m.queue, m.code, m.user) /\ Met(m.queue, m.code, k.user)
    BY MetNow
  <2>3. QED
    BY <2>1, <2>2 DEF OwnerInv, Message
<1>3. QED
  BY <1>1, <1>2, TypeCorrect, Owners, PTL DEF Spec

-----------------------------------------------------------------------------
(* One request at a time.  These properties are about what one request      *)
(* reads and later writes; they are proved for a process that serves its    *)
(* requests one after the other, with restarts in the middle of them.       *)

Serial == \A g, h \in Handlers : g = h

\* What a request has read is still so when it acts on it: the queue whose row
\* was read, the position that was not found, the position in front, the statuses
\* of the positions an update found, and the places of the people being told.
ReadsQueue(h) ==
  req[h].pc = "check" =>
    Live(req[h].queue) /\ queue[req[h].queue].version = req[h].version
FoundNone(h) ==
  req[h].pc \in {"assign", "insert"} => RowsOf(req[h].queue, req[h].user) = {}
FoundFirst(h) ==
  req[h].pc = "going" =>
    \A r \in rows : r.id = req[h].row =>
      \A s \in Waiting(r.queue) : r.position <= s.position
FoundStatus(h) ==
  req[h].pc = "write" =>
    IF req[h].body = NoStatus
    THEN \A r \in RowsOf(req[h].queue, req[h].user) : r.status = req[h].status
    ELSE req[h].body = req[h].status
Told(h, i) ==
  \A r \in Waiting(req[h].queue) : r.user = req[h].list[i] =>
    /\ i <= RelativePosition(r)
    /\ DistinctPositions(req[h].queue) => i = RelativePosition(r)
FoundPlaces(h) ==
  req[h].pc = "tell" => \A i \in DOMAIN req[h].list : Told(h, i)

Holds(h) ==
  /\ ReadsQueue(h) /\ FoundNone(h) /\ FoundFirst(h) /\ FoundStatus(h)
  /\ FoundPlaces(h)

SerialInv == IsFiniteSet(rows) /\ OnePosition /\ \A h \in Handlers : Holds(h)

\* With one request at a time only that request's reads are in question.
LEMMA OneRequest ==
  ASSUME Serial, NEW h \in Handlers, IsFiniteSet(rows)', OnePosition', Holds(h)'
  PROVE  SerialInv'
<1>1. \A g \in Handlers : g = h
  BY DEF Serial
<1>2. \A g \in Handlers : Holds(g)'
  BY <1>1
<1>3. QED
  BY <1>2 DEF SerialInv

\* A request with nothing left to rely on.
LEMMA NothingRead ==
  ASSUME NEW h \in Handlers,
         req[h].pc \in {"idle", "call", "moved", "bye", "sweep"}
  PROVE  Holds(h)
BY DEF Holds, ReadsQueue, FoundNone, FoundFirst, FoundStatus, FoundPlaces

\* The same after a step that leaves the rows alone.
LEMMA NothingNext ==
  ASSUME Serial, SerialInv, UNCHANGED rows, NEW h \in Handlers,
         req'[h].pc \in {"idle", "call", "moved", "bye", "sweep"}
  PROVE  SerialInv'
<1>1. OnePosition' /\ IsFiniteSet(rows)'
  BY DEF SerialInv, OnePosition
<1>2. Holds(h)'
  BY DEF Holds, ReadsQueue, FoundNone, FoundFirst, FoundStatus, FoundPlaces
<1>3. QED
  BY <1>1, <1>2, OneRequest

\* sendMessage ends its request or lets it go on.
LEMMA SendsOn ==
  ASSUME TypeOK, NEW h \in Handlers, NEW u, NEW P, NEW next,
         SendMessage(h, u, P, next)
  PROVE  req'[h] \in {next, Idle}
BY DEF SendMessage, TypeOK

\* What follows the write relies on nothing read before.
LEMMA ContinueReads ==
  ASSUME NEW r \in Updating
  PROVE  Continue(r).pc \in {"idle", "call", "sweep"}
BY DEF Continue, Idle

\* The places told to the first n waiting: whoever is the i-th of them has at
\* least i people up to their position, and exactly i when no two share one.
LEMMA FirstPlaces ==
  ASSUME TypeOK, OnePosition, IsFiniteSet(rows), NEW q \in Queues,
         NEW n \in 0..MaxNotify, NEW l \in [1..n -> Waiting(q)],
         FirstWaiting(q, l, n), NEW i \in 1..n
  PROVE  /\ \A r \in Waiting(q) : r.user = l[i].user => r = l[i]
         /\ i <= RelativePosition(l[i])
         /\ DistinctPositions(q) => i = RelativePosition(l[i])
<1> USE AdmissionAssumption
<1>1. \A r \in Waiting(q) : r \in rows /\ r.queue = q /\ r.position \in Nat
  BY DEF Waiting, TypeOK, PositionRow
<1>2. \A r \in Waiting(q) : r.user = l[i].user => r = l[i]
  BY <1>1 DEF OnePosition
<1> DEFINE Before == {s \in Waiting(q) : s.position <= l[i].position}
           first == [k \in 1..i |-> l[k]]
<1>3. RelativePosition(l[i]) = Cardinality(Before)
  BY <1>1 DEF RelativePosition
<1>4. IsFiniteSet(Before) /\ Cardinality(Before) \in Nat
  <2>1. Before \in SUBSET rows
    BY <1>1
  <2>2. QED
    BY <2>1, FS_Subset, FS_CardinalityType
<1>5. first \in Injection(1..i, Before)
  <2>1. \A k \in 1..i : k \in 1..n /\ l[k] \in Waiting(q) /\ (k # i => k < i)
    OBVIOUS
  <2>2. \A k \in 1..i : l[k].position <= l[i].position
    BY <2>1, <1>1 DEF FirstWaiting
  <2>3. \A j, k \in 1..i : j # k => l[j] # l[k]
    <3> SUFFICES ASSUME NEW j \in 1..i, NEW k \in 1..i, j # k PROVE l[j] # l[k]
      OBVIOUS
    <3>1. j < k \/ k < j
      OBVIOUS
    <3>2. j \in 1..n /\ k \in 1..n
      OBVIOUS
    <3>3. QED
      BY <3>1, <3>2 DEF FirstWaiting
  <2>4. first \in [1..i -> Before]
    BY <2>1, <2>2
  <2>5. QED
    BY <2>3, <2>4 DEF Injection, IsInjective
<1>6. Cardinality(1..i) = i
  BY FS_Interval
<1>7. i <= Cardinality(Before)
  BY <1>4, <1>5, <1>6, FS_Injection
<1>8. ASSUME DistinctPositions(q)
      PROVE  i = Cardinality(Before)
  <2>1. \A s \in Before : \E k \in 1..i : first[k] = s
    <3> SUFFICES ASSUME NEW s \in Before PROVE \E k \in 1..i : l[k] = s
      OBVIOUS
    <3>1. CASE \E k \in 1..n : l[k] = s
      <4>1. PICK k \in 1..n : l[k] = s
        BY <3>1
      <4>2. CASE k <= i
        BY <4>1, <4>2
      <4>3. CASE i < k
        <5>1. l[i].position <= l[k].position /\ l[i] # l[k]
          BY <4>3 DEF FirstWaiting
        <5>2. l[i] \in Waiting(q) /\ l[k] \in Waiting(q)
          OBVIOUS
        <5>3. l[i].position = l[k].position
          BY <1>1, <4>1, <5>1, <5>2
        <5>4. QED
          BY <1>8, <5>1, <5>2, <5>3 DEF DistinctPositions
      <4>4. QED
        BY <4>2, <4>3
    <3>2. CASE \A k \in 1..n : l[k].position <= s.position
      <4>1. l[i] \in Waiting(q) /\ l[i].position = s.position
        BY <1>1, <3>2
      <4>2. QED
        BY <1>8, <4>1 DEF DistinctPositions
    <3>3. QED
      BY <3>1, <3>2 DEF FirstWaiting
  <2>2. first \in Surjection(1..i, Before)
    BY <2>1, <1>5 DEF Surjection, Injection
  <2>3. QED
    BY <1>4, <1>5, <1>6, <2>2, FS_Injection
<1>9. QED
  BY <1>2, <1>3, <1>7, <1>8

\* The rows that may be looked at again keep what a list of places says of them.
LEMMA PlacesStay ==
  ASSUME UNCHANGED rows, NEW h \in Handlers, FoundPlaces(h), req[h].pc = "tell",
         req'[h].queue = req[h].queue, req'[h].list = req[h].list
  PROVE  FoundPlaces(h)'
BY DEF FoundPlaces, Told, Waiting, RelativePosition, DistinctPositions

LEMMA SerialSteps ==
  ASSUME Serial
  PROVE  TypeOK /\ IndInv /\ SerialInv /\ [Next]_vars => SerialInv'
<1> SUFFICES ASSUME TypeOK, IndInv, SerialInv, [Next]_vars PROVE SerialInv'
  OBVIOUS
<1> USE AdmissionAssumption
<1>0. IsFiniteSet(rows) /\ OnePosition /\ \A h \in Handlers : Holds(h)
  BY DEF SerialInv
<1>1. ASSUME NEW h \in Handlers, NEW q \in Queues, CreateQueue(h, q)
      PROVE  SerialInv'
  BY <1>1, NothingNext DEF CreateQueue, Free
<1>2. ASSUME NEW h \in Handlers, NEW q \in Queues, DeleteQueue(h, q)
      PROVE  SerialInv'
  <2>1. rows' \in SUBSET rows /\ req'[h].pc = "idle"
    BY <1>2 DEF DeleteQueue, Free
  <2>2. IsFiniteSet(rows')
    BY <1>0, <2>1, FS_Subset
  <2>3. OnePosition'
    BY <1>0, <2>1 DEF OnePosition
  <2>4. Holds(h)'
    BY <2>1 DEF Holds, ReadsQueue, FoundNone, FoundFirst, FoundStatus, FoundPlaces
  <2>5. QED
    BY <2>2, <2>3, <2>4, OneRequest
<1>3. ASSUME NEW h \in Handlers, NEW q \in Queues, BeginAdvance(h, q)
      PROVE  SerialInv'
  <2>1. PICK r \in Waiting(q) :
          /\ IsFirst(r, Waiting(q))
          /\ req' = [req EXCEPT ![h] = [pc |-> "going", queue |-> q, row |-> r.id]]
    BY <1>3 DEF BeginAdvance
  <2>2. /\ rows' = rows /\ req'[h].pc = "going" /\ req'[h].row = r.id
        /\ r \in rows /\ r.queue = q
    BY <1>3, <2>1 DEF BeginAdvance, TypeOK, Waiting
  <2>3. \A s \in rows : s.id = r.id => s = r
    BY <2>2 DEF IndInv, IdsUnique
  <2>4. FoundFirst(h)'
    BY <2>1, <2>2, <2>3 DEF FoundFirst, IsFirst, Waiting
  <2>5. Holds(h)'
    BY <2>2, <2>4 DEF Holds, ReadsQueue, FoundNone, FoundStatus, FoundPlaces
  <2>6. QED
    BY <1>0, <2>2, <2>5, OneRequest DEF OnePosition
<1>4. ASSUME NEW h \in Handlers, NEW q \in Queues,
             NEW open \in BOOLEAN, NEW active \in BOOLEAN,
             UpdateQueue(h, q, open, active)
      PROVE  SerialInv'
  BY <1>4, NothingNext DEF UpdateQueue, Free
<1>5. ASSUME NEW h \in Handlers, NEW q \in Queues, NEW u \in Users,
             NEW force \in BOOLEAN, BeginCreate(h, q, u, force)
      PROVE  SerialInv'
  <2>1. /\ rows' = rows /\ queue' = queue /\ Live(q)
        /\ req'[h].pc = "check" /\ req'[h].queue = q
        /\ req'[h].version = queue[q].version
    BY <1>5 DEF BeginCreate, TypeOK
  <2>2. Holds(h)'
    BY <2>1 DEF Holds, ReadsQueue, FoundNone, FoundFirst, FoundStatus, FoundPlaces, Live
  <2>3. QED
    BY <1>0, <2>1, <2>2, OneRequest DEF OnePosition
<1>6. ASSUME NEW h \in Handlers, NEW q \in Queues, NEW u \in Users,
             NEW p \in NewPositions \cup {0}, NEW s \in NewStatuses \cup {NoStatus},
             BeginUpdate(h, q, u, p, s)
      PROVE  SerialInv'
  <2>1. PICK r \in RowsOf(q, u) : /\ req'[h].queue = q /\ req'[h].user = u
                                  /\ req'[h].pc = "write" /\ req'[h].body = s
                                  /\ req'[h].status = NewStatus(r, s)
    BY <1>6 DEF BeginUpdate, TypeOK
  <2>2. rows' = rows
    BY <1>6 DEF BeginUpdate
  <2>3. \A t \in RowsOf(q, u) : t = r
    BY <1>0 DEF RowsOf, OnePosition
  <2>4. FoundStatus(h)'
    BY <2>1, <2>2, <2>3 DEF FoundStatus, NewStatus, RowsOf
  <2>5. Holds(h)'
    BY <2>1, <2>4 DEF Holds, ReadsQueue, FoundNone, FoundFirst, FoundPlaces
  <2>6. QED
    BY <1>0, <2>2, <2>5, OneRequest DEF OnePosition
<1>7. ASSUME NEW h \in Handlers, NEW q \in Queues, NEW u \in Users,
             DeletePosition(h, q, u)
      PROVE  SerialInv'
  <2>1. rows' \in SUBSET rows /\ req'[h].pc = "bye"
    BY <1>7 DEF DeletePosition, TypeOK
  <2>2. IsFiniteSet(rows')
    BY <1>0, <2>1, FS_Subset
  <2>3. OnePosition'
    BY <1>0, <2>1 DEF OnePosition
  <2>4. Holds(h)'
    BY <2>1 DEF Holds, ReadsQueue, FoundNone, FoundFirst, FoundStatus, FoundPlaces
  <2>5. QED
    BY <2>2, <2>3, <2>4, OneRequest
<1>8. ASSUME NEW h \in Handlers, NEW u \in Users, CreateUser(h, u)
      PROVE  SerialInv'
  BY <1>8, NothingNext DEF CreateUser, Free
<1>9. ASSUME NEW h \in Handlers, CheckPosition(h)
      PROVE  SerialInv'
  <2>1. req[h] \in Creating
    BY <1>9, RequestKinds DEF CheckPosition, TypeOK
  <2>2. CASE PositionExists(req[h])
    BY <1>9, <2>2, NothingNext DEF CheckPosition, TypeOK, Idle
  <2>3. CASE ~PositionExists(req[h])
    <3>1. RowsOf(req[h].queue, req[h].user) = {}
      BY <1>0, <1>9, <2>3 DEF CheckPosition, Holds, ReadsQueue, PositionExists
    <3>2. /\ req'[h].pc = "assign" /\ req'[h].queue = req[h].queue
          /\ req'[h].user = req[h].user /\ rows' = rows
      BY <1>9, <2>1, <2>3 DEF CheckPosition, TypeOK, Creating
    <3>3. Holds(h)'
      BY <3>1, <3>2
      DEF Holds, ReadsQueue, FoundNone, FoundFirst, FoundStatus, FoundPlaces, RowsOf
    <3>4. QED
      BY <1>0, <3>2, <3>3, OneRequest DEF OnePosition
  <2>4. QED
    BY <2>2, <2>3
<1>10. ASSUME NEW h \in Handlers, GeneratePosition(h)
       PROVE  SerialInv'
  <2>1. req[h] \in Creating
    BY <1>10, RequestKinds DEF GeneratePosition, TypeOK
  <2>2. /\ req'[h].pc = "insert" /\ req'[h].queue = req[h].queue
        /\ req'[h].user = req[h].user /\ rows' = rows
    BY <1>10, <2>1 DEF GeneratePosition, TypeOK, Creating
  <2>3. RowsOf(req[h].queue, req[h].user) = {}
    BY <1>0, <1>10 DEF GeneratePosition, Holds, FoundNone
  <2>4. Holds(h)'
    BY <2>2, <2>3
    DEF Holds, ReadsQueue, FoundNone, FoundFirst, FoundStatus, FoundPlaces, RowsOf
  <2>5. QED
    BY <1>0, <2>2, <2>4, OneRequest DEF OnePosition
<1>11. ASSUME NEW h \in Handlers, InsertPosition(h)
       PROVE  SerialInv'
  <2>1. req'[h].pc = "idle"
    BY <1>11 DEF InsertPosition, TypeOK, Idle
  <2>2. CASE rows' = rows
    BY <2>1, <2>2, NothingNext
  <2>3. ASSUME NEW new, rows' = rows \cup {new},
               new.queue = req[h].queue, new.user = req[h].user
        PROVE  SerialInv'
    <3>1. RowsOf(req[h].queue, req[h].user) = {}
      BY <1>0, <1>11 DEF InsertPosition, Holds, FoundNone
    <3>2. IsFiniteSet(rows')
      BY <1>0, <2>3, FS_AddElement
    <3>3. OnePosition'
      <4>1. \A r \in rows : ~(r.queue = new.queue /\ r.user = new.user)
        BY <2>3, <3>1 DEF RowsOf
      <4>2. QED
        BY <1>0, <2>3, <4>1 DEF OnePosition
    <3>4. Holds(h)'
      BY <2>1 DEF Holds, ReadsQueue, FoundNone, FoundFirst, FoundStatus, FoundPlaces
    <3>5. QED
      BY <3>2, <3>3, <3>4, OneRequest
  <2>4. QED
    BY <1>11, <2>2, <2>3 DEF InsertPosition
<1>12. ASSUME NEW h \in Handlers, Advance(h)
       PROVE  SerialInv'
  <2>1. CASE rows' = rows
    BY <1>12, <2>1, NothingNext DEF Advance, TypeOK, Idle
  <2>2. ASSUME NEW r \in rows, req'[h].pc = "call",
               rows' = (rows \ {r}) \cup {[r EXCEPT !.status = "GOING"]}
        PROVE  SerialInv'
    <3> DEFINE s == [r EXCEPT !.status = "GOING"]
    <3>1. s.queue = r.queue /\ s.user = r.user
      BY DEF TypeOK, PositionRow
    <3>2. IsFiniteSet(rows')
      BY <1>0, <2>2, FS_AddElement, FS_RemoveElement
    <3>3. OnePosition'
      <4>1. rows' = (rows \ {r}) \cup {s}
        BY <2>2
      <4> HIDE DEF s
      <4>2. QED
        BY <1>0, <3>1, <4>1 DEF OnePosition
    <3>4. Holds(h)'
      BY <2>2 DEF Holds, ReadsQueue, FoundNone, FoundFirst, FoundStatus, FoundPlaces
    <3>5. QED
      BY <3>2, <3>3, <3>4, OneRequest
  <2>3. QED
    BY <1>12, <2>1, <2>2 DEF Advance, TypeOK
<1>13. ASSUME NEW h \in Handlers, Call(h)
       PROVE  SerialInv'
  <2>1. req'[h].pc = "idle"
    BY <1>13, SendsOn DEF Call, Idle
  <2>2. QED
    BY <1>13, <2>1, NothingNext DEF Call
<1>14. ASSUME NEW h \in Handlers, Update(h)
       PROVE  SerialInv'
  <2>1. req[h] \in Updating
    BY <1>14, RequestKinds DEF Update, TypeOK
  <2> DEFINE write == [r \in rows |-> Rewritten(r, req[h])]
  <2>2. write \in Surjection(rows, rows')
    BY <1>14 DEF Update, Surjection
  <2>3. IsFiniteSet(rows')
    BY <1>0, <2>2, FS_Surjection
  <2>4. \A r \in rows : /\ Rewritten(r, req[h]).queue = r.queue
                         /\ Rewritten(r, req[h]).user = r.user
    BY DEF Rewritten, TypeOK, PositionRow
  <2>5. \A r \in rows' : \E t \in rows : r = Rewritten(t, req[h])
    BY <1>14 DEF Update
  <2>6. OnePosition'
    BY <1>0, <2>4, <2>5 DEF OnePosition
  <2>7. req'[h].pc \in {"idle", "call", "sweep", "moved"}
    BY <1>14, <2>1, ContinueReads DEF Update, TypeOK, Updating
  <2>8. Holds(h)'
    BY <2>7 DEF Holds, ReadsQueue, FoundNone, FoundFirst, FoundStatus, FoundPlaces
  <2>9. QED
    BY <2>3, <2>6, <2>8, OneRequest
<1>15. ASSUME NEW h \in Handlers, TellMoved(h)
       PROVE  SerialInv'
  <2>1. req[h] \in Updating
    BY <1>15, RequestKinds DEF TellMoved, TypeOK
  <2>2. req'[h].pc \in {"idle", "call", "sweep"}
    BY <1>15, <2>1, SendsOn, ContinueReads DEF TellMoved, Idle
  <2>3. QED
    BY <1>15, <2>2, NothingNext DEF TellMoved
<1>16. ASSUME NEW h \in Handlers, Sweep(h)
       PROVE  SerialInv'
  <2>1. CASE req' = [req EXCEPT ![h] = Idle]
    BY <1>16, <2>1, NothingNext DEF Sweep, TypeOK, Idle
  <2>2. ASSUME NEW n \in 0..MaxNotify, NEW l \in [1..n -> Waiting(req[h].queue)],
               FirstWaiting(req[h].queue, l, n),
               req' = [req EXCEPT ![h] =
                 [pc |-> "tell", queue |-> req[h].queue, n |-> 1,
                  list |-> [i \in 1..n |-> l[i].user]]]
        PROVE  SerialInv'
    <3> DEFINE q == req[h].queue
    <3>1. q \in Queues
      BY <1>16, RequestKinds DEF Sweep, TypeOK, Sweeping
    <3>2. /\ rows' = rows /\ req'[h].pc = "tell" /\ req'[h].queue = q
          /\ req'[h].list = [i \in 1..n |-> l[i].user]
      BY <1>16, <2>2 DEF Sweep, TypeOK
    <3>3. \A i \in 1..n :
            /\ \A r \in Waiting(q) : r.user = l[i].user => r = l[i]
            /\ i <= RelativePosition(l[i])
            /\ DistinctPositions(q) => i = RelativePosition(l[i])
      BY <1>0, <2>2, <3>1, FirstPlaces
    <3>4. FoundPlaces(h)'
      <4>1. \A i \in 1..n, r \in Waiting(q) : r.user = l[i].user =>
              /\ i <= RelativePosition(r)
              /\ DistinctPositions(q) => i = RelativePosition(r)
        BY <3>3
      <4>2. \A i \in 1..n, r \in Waiting(q)' : r.user = l[i].user =>
              /\ i <= RelativePosition(r)'
              /\ DistinctPositions(q)' => i = RelativePosition(r)'
        BY <3>2, <4>1 DEF Waiting, RelativePosition, DistinctPositions
      <4>3. QED
        BY <3>2, <4>2 DEF FoundPlaces, Told
    <3>5. Holds(h)'
      BY <3>2, <3>4 DEF Holds, ReadsQueue, FoundNone, FoundFirst, FoundStatus
    <3>6. QED
      BY <1>0, <3>2, <3>5, OneRequest DEF OnePosition
  <2>3. QED
    BY <1>16, <2>1, <2>2 DEF Sweep
<1>17. ASSUME NEW h \in Handlers, Tell(h)
       PROVE  SerialInv'
  <2>1. req[h] \in Telling /\ req[h].pc = "tell" /\ rows' = rows
    BY <1>17, RequestKinds DEF Tell, TypeOK
  <2> DEFINE next == [req[h] EXCEPT !.n = req[h].n + 1]
  <2>2. /\ next.pc = "tell" /\ next.queue = req[h].queue /\ next.list = req[h].list
    BY <2>1 DEF Telling
  <2>3. req'[h] = next \/ req'[h] = Idle
    <3>1. CASE SendMessage(h, req[h].list[req[h].n], {}, next)
      BY <3>1, SendsOn
    <3>2. CASE req' = [req EXCEPT ![h] = Idle]
      BY <3>2 DEF TypeOK
    <3>3. QED
      BY <1>17, <3>1, <3>2 DEF Tell
  <2>4. CASE req'[h] = Idle
    BY <2>1, <2>4, NothingNext DEF Idle
  <2>5. CASE req'[h] = next
    <3>1. FoundPlaces(h)'
      BY <1>0, <2>1, <2>2, <2>5, PlacesStay DEF Holds
    <3>2. Holds(h)'
      BY <2>2, <2>5, <3>1 DEF Holds, ReadsQueue, FoundNone, FoundFirst, FoundStatus
    <3>3. QED
      BY <1>0, <2>1, <3>2, OneRequest DEF OnePosition
  <2>6. QED
    BY <2>3, <2>4, <2>5
<1>18. ASSUME NEW h \in Handlers, SayBye(h)
       PROVE  SerialInv'
  <2>1. req'[h].pc = "idle"
    BY <1>18, SendsOn DEF SayBye, Idle
  <2>2. QED
    BY <1>18, <2>1, NothingNext DEF SayBye
<1>19. CASE Restart
  <2>1. rows' = rows /\ \A h \in Handlers : req'[h].pc = "idle"
    BY <1>19 DEF Restart, Idle
  <2>2. \A h \in Handlers : Holds(h)'
    BY <2>1 DEF Holds, ReadsQueue, FoundNone, FoundFirst, FoundStatus, FoundPlaces
  <2>3. QED
    BY <1>0, <2>1, <2>2 DEF SerialInv, OnePosition
<1>20. CASE UNCHANGED vars
  <2>1. rows' = rows /\ req' = req /\ queue' = queue
    BY <1>20 DEF vars
  <2>2. \A h \in Handlers : Holds(h)'
    BY <1>0, <2>1
    DEF Holds, ReadsQueue, FoundNone, FoundFirst, FoundStatus, FoundPlaces, Live,
        RowsOf, Waiting, Told, RelativePosition, DistinctPositions
  <2>3. QED
    BY <1>0, <2>1, <2>2 DEF SerialInv, OnePosition
<1>21. QED
  BY <1>1, <1>2, <1>3, <1>4, <1>5, <1>6, <1>7, <1>8, <1>9, <1>10, <1>11, <1>12,
     <1>13, <1>14, <1>15, <1>16, <1>17, <1>18, <1>19, <1>20
  DEF Next, Ask, Step

\* What a request reads is still so when it acts on it, for a process that serves
\* one request at a time and is restarted between any two of its steps.
THEOREM SerialReads == ASSUME Serial PROVE Spec => []SerialInv
<1>1. Init => SerialInv
  BY FS_EmptySet DEF Init, SerialInv, OnePosition, Holds, ReadsQueue, FoundNone,
     FoundFirst, FoundStatus, FoundPlaces, Idle
<1>2. QED
  BY <1>1, SerialSteps, TypeCorrect, NumbersInvariant, PTL DEF Spec

\* One request at a time lets an entrant stand in a queue once: the position that
\* was not found is not there when the new one is stored, and a restart between
\* the two forgets the request.
THEOREM PositionsAreSingle == ASSUME Serial PROVE Spec => []OnePosition
<1>1. SerialInv => OnePosition
  BY DEF SerialInv
<1>2. QED
  BY <1>1, SerialReads, PTL

\* The i-th person told their place has at least i people waiting up to their
\* position, and exactly i when positions are distinct, for a queue of any length.
THEOREM NoticesAgree == ASSUME Serial PROVE Spec => []NoticeAgrees
<1>1. SerialInv => NoticeAgrees
  BY DEF SerialInv, Holds, FoundPlaces, Told, NoticeAgrees
<1>2. QED
  BY <1>1, SerialReads, PTL

\* Somebody who was called goes back to waiting only when an operator's update
\* says so: an update that leaves the status out writes the one the position has.
THEOREM ReturnsAreAsked == ASSUME Serial PROVE Spec => NoSilentReturn
<1> DEFINE Asked == \A r \in rows, s \in rows' :
       r.id = s.id /\ r.status # "WAITING" /\ s.status = "WAITING" =>
         \E h \in Handlers : req[h].pc = "write" /\ req[h].body = "WAITING"
<1>1. TypeOK /\ IndInv /\ SerialInv /\ [Next]_vars => [Asked]_vars
  <2> SUFFICES ASSUME TypeOK, IndInv, SerialInv, Next,
                      NEW r \in rows, NEW s \in rows', r.id = s.id,
                      r.status # "WAITING", s.status = "WAITING"
               PROVE  \E h \in Handlers : req[h].pc = "write" /\ req[h].body = "WAITING"
    OBVIOUS
  <2>1. s \notin rows
    BY DEF IndInv, IdsUnique
  <2>2. PICK h \in Handlers :
          \/ InsertPosition(h) \/ Advance(h) \/ Update(h)
    <3>1. ~ rows' \subseteq rows
      BY <2>1
    <3>2. PICK h \in Handlers : Ask(h) \/ Step(h)
      BY <3>1 DEF Next, Restart
    <3>3. CASE Ask(h)
      BY <3>1, <3>3
      DEF Ask, CreateQueue, DeleteQueue, BeginAdvance, UpdateQueue, BeginCreate,
          BeginUpdate, DeletePosition, CreateUser
    <3>4. CASE Step(h)
      BY <3>1, <3>4
      DEF Step, CheckPosition, GeneratePosition, Call, TellMoved, Sweep, Tell, SayBye
    <3>5. QED
      BY <3>2, <3>3, <3>4
  <2>3. CASE InsertPosition(h)
    <3>1. s.id = nextId
      BY <2>1, <2>3 DEF InsertPosition
    <3>2. r.id < nextId /\ nextId \in Nat
      BY DEF IndInv, IdsBelow, TypeOK
    <3>3. QED
      BY <3>1, <3>2
  <2>4. CASE Advance(h)
    <3>1. PICK t \in rows : s = [t EXCEPT !.status = "GOING"]
      BY <2>1, <2>4 DEF Advance
    <3>2. s.status = "GOING"
      BY <3>1 DEF TypeOK, PositionRow
    <3>3. QED
      BY <3>2
  <2>5. CASE Update(h)
    <3>1. PICK t \in rows : s = Rewritten(t, req[h])
      BY <2>5 DEF Update
    <3>2. s.id = t.id
      BY <3>1 DEF Rewritten, TypeOK, PositionRow
    <3>3. t = r
      BY <3>2 DEF IndInv, IdsUnique
    <3>4. r.queue = req[h].queue /\ r.user = req[h].user /\ s.status = req[h].status
      BY <2>1, <3>1, <3>3 DEF Rewritten, TypeOK, PositionRow
    <3>5. FoundStatus(h) /\ req[h].pc = "write"
      BY <2>5 DEF Update, SerialInv, Holds
    <3>6. req[h].body # NoStatus
      BY <3>4, <3>5 DEF FoundStatus, RowsOf
    <3>7. QED
      BY <3>4, <3>5, <3>6 DEF FoundStatus
  <2>6. QED
    BY <2>2, <2>3, <2>4, <2>5
<1>2. QED
  BY <1>1, SerialReads, TypeCorrect, NumbersInvariant, PTL DEF NoSilentReturn, Spec

-----------------------------------------------------------------------------
(* One request at a time implements Line.                                  *)

\* What a request relies on beyond what it has read: its queue is there, its number is
\* the last that was taken, the position it found is there and waits, goes or stands where
\* it stood.
KeepsQueue(h) == req[h].pc \in {"check", "assign", "insert"} => Live(req[h].queue)
KeepsNumber(h) == Inserting(h) => req[h].code = counter[req[h].queue]
KeepsFirst(h) == req[h].pc = "going" => \E r \in Waiting(req[h].queue) : r.id = req[h].row
KeepsPlace(h) ==
  req[h].pc = "write" =>
    \E r \in RowsOf(req[h].queue, req[h].user) :
      r.code = req[h].code /\ (~req[h].moved => r.position = req[h].position)
Going(h) ==
  \/ req[h].pc = "call"
  \/ req[h].pc = "moved" /\ req[h].changed /\ req[h].body = "GOING"
KeepsGoing(h) ==
  Going(h) =>
    \E r \in RowsOf(req[h].queue, req[h].user) : r.code = req[h].code /\ r.status = "GOING"
Keeps(h) == KeepsQueue(h) /\ KeepsNumber(h) /\ KeepsFirst(h) /\ KeepsPlace(h) /\ KeepsGoing(h)
LineInv == \A h \in Handlers : Keeps(h)

LEMMA OneKeeps ==
  ASSUME Serial, NEW h \in Handlers, Keeps(h)'
  PROVE  LineInv'
BY DEF Serial, LineInv

\* A request that relies on nothing.
LEMMA NothingKept ==
  ASSUME NEW h \in Handlers, req'[h].pc \in {"idle", "sweep", "tell", "bye"}
  PROVE  Keeps(h)'
BY DEF Keeps, KeepsQueue, KeepsNumber, Inserting, KeepsFirst, KeepsPlace, Going, KeepsGoing

LEMMA Quiet ==
  ASSUME Serial, NEW h \in Handlers, req'[h].pc \in {"idle", "sweep", "tell", "bye"}
  PROVE  LineInv'
BY OneKeeps, NothingKept

LEMMA LineSteps ==
  ASSUME Serial
  PROVE  TypeOK /\ IndInv /\ SerialInv /\ LineInv /\ [Next]_vars => LineInv'
<1> SUFFICES ASSUME TypeOK, IndInv, SerialInv, LineInv, [Next]_vars PROVE LineInv'
  OBVIOUS
<1> USE AdmissionAssumption
<1>0. \A h \in Handlers : Holds(h) /\ Keeps(h)
  BY DEF SerialInv, LineInv
<1>1. ASSUME NEW h \in Handlers, NEW q \in Queues, CreateQueue(h, q) PROVE LineInv'
  BY <1>1, Quiet DEF CreateQueue, Free
<1>2. ASSUME NEW h \in Handlers, NEW q \in Queues, DeleteQueue(h, q) PROVE LineInv'
  BY <1>2, Quiet DEF DeleteQueue, Free
<1>3. ASSUME NEW h \in Handlers, NEW q \in Queues, BeginAdvance(h, q) PROVE LineInv'
  <2>1. PICK r \in Waiting(q) :
          req' = [req EXCEPT ![h] = [pc |-> "going", queue |-> q, row |-> r.id]]
    BY <1>3 DEF BeginAdvance
  <2>2. rows' = rows /\ req'[h] = [pc |-> "going", queue |-> q, row |-> r.id]
    BY <1>3, <2>1 DEF BeginAdvance, TypeOK
  <2>3. Keeps(h)'
    BY <2>2 DEF Keeps, KeepsQueue, KeepsNumber, Inserting, KeepsFirst, KeepsPlace, Going, KeepsGoing, Waiting
  <2> QED BY <2>3, OneKeeps
<1>4. ASSUME NEW h \in Handlers, NEW q \in Queues, NEW open \in BOOLEAN, NEW active \in BOOLEAN,
             UpdateQueue(h, q, open, active)
      PROVE  LineInv'
  BY <1>4, Quiet DEF UpdateQueue, Free
<1>5. ASSUME NEW h \in Handlers, NEW q \in Queues, NEW u \in Users, NEW force \in BOOLEAN,
             BeginCreate(h, q, u, force)
      PROVE  LineInv'
  <2>1. queue' = queue /\ Live(q) /\ req'[h].pc = "check" /\ req'[h].queue = q
    BY <1>5 DEF BeginCreate, TypeOK
  <2>2. Keeps(h)'
    BY <2>1 DEF Keeps, KeepsQueue, KeepsNumber, Inserting, KeepsFirst, KeepsPlace, Going, KeepsGoing, Live
  <2> QED BY <2>2, OneKeeps
<1>6. ASSUME NEW h \in Handlers, NEW q \in Queues, NEW u \in Users,
             NEW p \in NewPositions \cup {0}, NEW s \in NewStatuses \cup {NoStatus},
             BeginUpdate(h, q, u, p, s)
      PROVE  LineInv'
  <2>1. PICK r \in RowsOf(q, u) :
          /\ req'[h].pc = "write" /\ req'[h].queue = q /\ req'[h].user = u /\ req'[h].code = r.code
          /\ req'[h].position = NewPosition(r, p) /\ req'[h].moved = (NewPosition(r, p) # r.position)
    BY <1>6 DEF BeginUpdate, TypeOK
  <2>2. rows' = rows
    BY <1>6 DEF BeginUpdate
  <2>3. Keeps(h)'
    BY <2>1, <2>2 DEF Keeps, KeepsQueue, KeepsNumber, Inserting, KeepsFirst, KeepsPlace, Going, KeepsGoing, RowsOf
  <2> QED BY <2>3, OneKeeps
<1>7. ASSUME NEW h \in Handlers, NEW q \in Queues, NEW u \in Users, DeletePosition(h, q, u) PROVE LineInv'
  BY <1>7, Quiet DEF DeletePosition, TypeOK
<1>8. ASSUME NEW h \in Handlers, NEW u \in Users, CreateUser(h, u) PROVE LineInv'
  BY <1>8, Quiet DEF CreateUser, Free
<1>9. ASSUME NEW h \in Handlers, CheckPosition(h) PROVE LineInv'
  <2>1. req[h] \in Creating /\ queue' = queue
    BY <1>9, RequestKinds DEF CheckPosition, TypeOK
  <2>2. CASE req'[h] = Idle
    BY <2>2, Quiet DEF Idle
  <2>3. CASE req'[h] = [req[h] EXCEPT !.pc = "assign"]
    <3>1. req'[h].pc = "assign" /\ req'[h].queue = req[h].queue
      BY <2>1, <2>3 DEF Creating
    <3>2. Live(req[h].queue)
      BY <1>0, <1>9 DEF Keeps, KeepsQueue, CheckPosition
    <3>3. Keeps(h)'
      BY <2>1, <3>1, <3>2 DEF Keeps, KeepsQueue, KeepsNumber, Inserting, KeepsFirst, KeepsPlace, Going, KeepsGoing, Live
    <3> QED BY <3>3, OneKeeps
  <2> QED BY <1>9, <2>2, <2>3 DEF CheckPosition, TypeOK
<1>10. ASSUME NEW h \in Handlers, GeneratePosition(h) PROVE LineInv'
  <2>1. req[h] \in Creating /\ queue' = queue
    BY <1>10, RequestKinds DEF GeneratePosition, TypeOK
  <2>2. /\ req'[h].pc = "insert" /\ req'[h].queue = req[h].queue
        /\ req'[h].code = counter'[req[h].queue]
    BY <1>10, <2>1 DEF GeneratePosition, TypeOK, Creating
  <2>3. Live(req[h].queue)
    BY <1>0, <1>10 DEF Keeps, KeepsQueue, GeneratePosition
  <2>4. Keeps(h)'
    BY <2>1, <2>2, <2>3 DEF Keeps, KeepsQueue, KeepsNumber, Inserting, KeepsFirst, KeepsPlace, Going, KeepsGoing, Live
  <2> QED BY <2>4, OneKeeps
<1>11. ASSUME NEW h \in Handlers, InsertPosition(h) PROVE LineInv'
  BY <1>11, Quiet DEF InsertPosition, TypeOK, Idle
<1>12. ASSUME NEW h \in Handlers, Advance(h) PROVE LineInv'
  <2>1. CASE req'[h] = Idle
    BY <2>1, Quiet DEF Idle
  <2>2. ASSUME NEW r \in rows, rows' = (rows \ {r}) \cup {[r EXCEPT !.status = "GOING"]},
               req'[h] = [pc |-> "call", queue |-> r.queue, user |-> r.user, code |-> r.code]
        PROVE  LineInv'
    <3> DEFINE s == [r EXCEPT !.status = "GOING"]
    <3>1. s \in rows' /\ s.queue = r.queue /\ s.user = r.user /\ s.code = r.code /\ s.status = "GOING"
      BY <2>2 DEF TypeOK, PositionRow
    <3> HIDE DEF s
    <3>2. Keeps(h)'
      BY <2>2, <3>1 DEF Keeps, KeepsQueue, KeepsNumber, Inserting, KeepsFirst, KeepsPlace, Going, KeepsGoing, RowsOf
    <3> QED BY <3>2, OneKeeps
  <2> QED BY <1>12, <2>1, <2>2 DEF Advance, TypeOK
<1>13. ASSUME NEW h \in Handlers, Call(h) PROVE LineInv'
  <2>1. req'[h].pc = "idle"
    BY <1>13, SendsOn DEF Call, Idle
  <2> QED BY <2>1, Quiet
<1>14. ASSUME NEW h \in Handlers, Update(h) PROVE LineInv'
  <2> DEFINE u == req[h]
  <2>1. u \in Updating /\ u.pc = "write"
    BY <1>14, RequestKinds DEF Update, TypeOK
  <2>2. PICK r \in RowsOf(u.queue, u.user) : r.code = u.code
    BY <1>0, <2>1 DEF Keeps, KeepsPlace
  <2>3. PICK t : t = Rewritten(r, u)
    OBVIOUS
  <2>4. t \in rows' /\ t.queue = u.queue /\ t.user = u.user /\ t.code = u.code /\ t.status = u.status
    BY <1>14, <2>2, <2>3 DEF Update, Rewritten, RowsOf, TypeOK, PositionRow
  <2>5. u.body = "GOING" => u.status = "GOING"
    BY <1>0, <2>1 DEF Holds, FoundStatus, NoStatus
  <2>6. req'[h] = IF u.moved THEN [u EXCEPT !.pc = "moved"] ELSE Continue(u)
    BY <1>14 DEF Update, TypeOK
  <2> HIDE DEF u
  <2>7. CASE u.moved
    <3>1. /\ req'[h].pc = "moved" /\ req'[h].queue = u.queue /\ req'[h].user = u.user
          /\ req'[h].code = u.code /\ req'[h].body = u.body
      BY <2>1, <2>6, <2>7 DEF Updating
    <3>2. Keeps(h)'
      BY <2>4, <2>5, <3>1 DEF Keeps, KeepsQueue, KeepsNumber, Inserting, KeepsFirst, KeepsPlace, Going, KeepsGoing, RowsOf
    <3> QED BY <3>2, OneKeeps
  <2>8. CASE ~u.moved /\ u.changed /\ u.body = "GOING"
    <3>1. /\ req'[h].pc = "call" /\ req'[h].queue = u.queue /\ req'[h].user = u.user
          /\ req'[h].code = u.code
      BY <2>6, <2>8 DEF Continue
    <3>2. Keeps(h)'
      BY <2>4, <2>5, <2>8, <3>1 DEF Keeps, KeepsQueue, KeepsNumber, Inserting, KeepsFirst, KeepsPlace, Going, KeepsGoing, RowsOf
    <3> QED BY <3>2, OneKeeps
  <2>9. CASE ~u.moved /\ ~(u.changed /\ u.body = "GOING")
    <3>1. req'[h].pc \in {"idle", "sweep"}
      BY <2>6, <2>9 DEF Continue, Idle
    <3> QED BY <3>1, Quiet
  <2> QED BY <2>1, <2>7, <2>8, <2>9 DEF Updating
<1>15. ASSUME NEW h \in Handlers, TellMoved(h) PROVE LineInv'
  <2> DEFINE u == req[h]
  <2>1. u \in Updating /\ u.pc = "moved" /\ rows' = rows
    BY <1>15, RequestKinds DEF TellMoved, TypeOK
  <2>2. req'[h] \in {Continue(u), Idle}
    BY <1>15, SendsOn DEF TellMoved
  <2>3. CASE u.changed /\ u.body = "GOING" /\ req'[h] = Continue(u)
    <3>1. /\ req'[h].pc = "call" /\ req'[h].queue = u.queue /\ req'[h].user = u.user
          /\ req'[h].code = u.code
      BY <2>3 DEF Continue
    <3>2. \E r \in RowsOf(u.queue, u.user) : r.code = u.code /\ r.status = "GOING"
      BY <1>0, <2>1, <2>3 DEF Keeps, KeepsGoing, Going
    <3>3. Keeps(h)'
      BY <2>1, <3>1, <3>2 DEF Keeps, KeepsQueue, KeepsNumber, Inserting, KeepsFirst, KeepsPlace, Going, KeepsGoing, RowsOf
    <3> QED BY <3>3, OneKeeps
  <2>4. CASE ~(u.changed /\ u.body = "GOING" /\ req'[h] = Continue(u))
    <3>1. req'[h].pc \in {"idle", "sweep"}
      BY <2>2, <2>4 DEF Continue, Idle
    <3> QED BY <3>1, Quiet
  <2> QED BY <2>3, <2>4
<1>16. ASSUME NEW h \in Handlers, Sweep(h) PROVE LineInv'
  <2>1. req'[h].pc \in {"idle", "tell"}
    BY <1>16 DEF Sweep, TypeOK, Idle
  <2> QED BY <2>1, Quiet
<1>17. ASSUME NEW h \in Handlers, Tell(h) PROVE LineInv'
  <2>1. req[h] \in Telling /\ req[h].pc = "tell"
    BY <1>17, RequestKinds DEF Tell, TypeOK
  <2>2. req'[h] \in {[req[h] EXCEPT !.n = req[h].n + 1], Idle}
    <3>1. CASE SendMessage(h, req[h].list[req[h].n], {}, [req[h] EXCEPT !.n = req[h].n + 1])
      BY <3>1, SendsOn
    <3>2. CASE req' = [req EXCEPT ![h] = Idle]
      BY <3>2 DEF TypeOK
    <3> QED BY <1>17, <3>1, <3>2 DEF Tell
  <2>3. req'[h].pc \in {"idle", "tell"}
    BY <2>1, <2>2 DEF Telling, Idle
  <2> QED BY <2>3, Quiet
<1>18. ASSUME NEW h \in Handlers, SayBye(h) PROVE LineInv'
  <2>1. req'[h].pc = "idle"
    BY <1>18, SendsOn DEF SayBye, Idle
  <2> QED BY <2>1, Quiet
<1>19. CASE Restart
  <2>1. \A h \in Handlers : req'[h].pc = "idle"
    BY <1>19 DEF Restart, Idle
  <2> QED BY <2>1, NothingKept DEF LineInv
<1>20. CASE UNCHANGED vars
  <2>1. rows' = rows /\ req' = req /\ queue' = queue /\ counter' = counter
    BY <1>20 DEF vars
  <2> QED
    BY <1>0, <2>1
    DEF LineInv, Keeps, KeepsQueue, KeepsNumber, Inserting, KeepsFirst, KeepsPlace, Going, KeepsGoing,
        Live, RowsOf, Waiting
<1> QED
  BY <1>1, <1>2, <1>3, <1>4, <1>5, <1>6, <1>7, <1>8, <1>9, <1>10, <1>11, <1>12,
     <1>13, <1>14, <1>15, <1>16, <1>17, <1>18, <1>19, <1>20
  DEF Next, Ask, Step

\* With one request, what is pending is its.
LEMMA WishesOf ==
  ASSUME Serial, NEW h \in Handlers
  PROVE  /\ Wishes = IF req[h].pc = "write" THEN {Wish(req[h])} ELSE {}
         /\ Wishes' = IF req'[h].pc = "write" THEN {Wish(req'[h])} ELSE {}
BY DEF Serial, Wishes

LEMMA GivenOf ==
  ASSUME Serial, NEW h \in Handlers
  PROVE  /\ Given = [q \in Queues |-> IF Inserting(h) /\ req[h].queue = q THEN counter[q] - 1 ELSE counter[q]]
         /\ Given' = [q \in Queues |-> IF req'[h].pc = "insert" /\ req'[h].queue = q THEN counter'[q] - 1 ELSE counter'[q]]
BY DEF Serial, Given, Taken, Inserting

\* One entrant's positions have tickets of their own.
LEMMA TicketsApart ==
  ASSUME OnePosition, NEW r \in rows, NEW s \in rows, Ticket(r).queue = Ticket(s).queue, Ticket(r).user = Ticket(s).user
  PROVE  r = s
BY DEF OnePosition, Ticket

LEMMA TicketExchanged ==
  ASSUME OnePosition, NEW r \in rows, NEW s, rows' = (rows \ {r}) \cup {s}
  PROVE  Tickets' = (Tickets \ {Ticket(r)}) \cup {Ticket(s)}
<1>1. \A t \in rows : Ticket(t) = Ticket(r) => t = r
  BY DEF OnePosition, Ticket
<1>2. \A x \in Tickets : \E t \in rows : x = Ticket(t)
  BY DEF Tickets
<1>3. \A t \in rows : Ticket(t) \in Tickets
  BY DEF Tickets
<1>4. \A x : x \in Tickets' <=> \E t \in rows' : x = Ticket(t)
  BY DEF Tickets
<1>5. ASSUME NEW x \in Tickets' PROVE x \in (Tickets \ {Ticket(r)}) \cup {Ticket(s)}
  BY <1>1, <1>3, <1>4, <1>5
<1>6. ASSUME NEW x \in (Tickets \ {Ticket(r)}) \cup {Ticket(s)} PROVE x \in Tickets'
  BY <1>1, <1>2, <1>4, <1>6
<1> QED BY <1>5, <1>6

\* What Line sees of a step that changes none of it.
LEMMA LineStutters ==
  ASSUME UNCHANGED <<rows, called>>, UNCHANGED <<Given, Wishes>>
  PROVE  UNCHANGED Promise!vars
BY DEF Promise!vars, Tickets

\* A request between other places takes no number and writes no update.
LEMMA QuietLine ==
  ASSUME Serial, NEW h \in Handlers, UNCHANGED <<rows, called, counter>>,
         req[h].pc \notin {"insert", "write"}, req'[h].pc \notin {"insert", "write"}
  PROVE  UNCHANGED Promise!vars
<1>1. Wishes = {} /\ Wishes' = {}
  BY WishesOf
<1>2. Given' = Given
  BY GivenOf DEF Inserting
<1> QED BY <1>1, <1>2, LineStutters

LEMMA NothingPending ==
  ASSUME Serial, NEW h \in Handlers, UNCHANGED counter,
         req[h].pc \notin {"insert", "write"}, req'[h].pc \notin {"insert", "write"}
  PROVE  UNCHANGED <<Given, Wishes>>
<1>1. Wishes = {} /\ Wishes' = {}
  BY WishesOf
<1>2. Given' = Given
  BY GivenOf DEF Inserting
<1> QED BY <1>1, <1>2

\* A message that is not PROCESSING leaves no trace.
LEMMA NoTrace ==
  ASSUME TypeOK, NEW h \in Handlers, NEW u, NEW next, SendMessage(h, u, {}, next)
  PROVE  called' = called
BY DEF SendMessage, TypeOK

LEMMA HeldOf ==
  ASSUME NEW q, NEW u
  PROVE  Promise!Held(q, u) = {Ticket(r) : r \in RowsOf(q, u)}
BY DEF Promise!Held, Tickets, Ticket, RowsOf

LEMMA LineInit == Init => Promise!Init
<1> SUFFICES ASSUME Init PROVE Promise!Init
  OBVIOUS
<1>1. Tickets = {} /\ called = {}
  BY DEF Init, Tickets
<1>2. \A h \in Handlers : req[h].pc = "idle"
  BY DEF Init, Idle
<1>3. Wishes = {}
  BY <1>2 DEF Wishes
<1>4. Given = [q \in Queues |-> 0]
  BY <1>2 DEF Init, Given, Taken, Inserting
<1> QED BY <1>1, <1>3, <1>4 DEF Promise!Init

\* Storing a position is joining the line: it is not there, its number is the next.
LEMMA InsertJoins ==
  ASSUME Serial, TypeOK, IndInv, SerialInv, LineInv, NEW h \in Handlers, InsertPosition(h)
  PROVE  Promise!Next
<1> DEFINE q == req[h].queue  u == req[h].user  n == req[h].code
           row == [id |-> nextId, queue |-> q, user |-> u, code |-> n, position |-> n, status |-> "WAITING"]
<1>1. /\ req[h].pc = "insert" /\ req[h] \in Creating /\ Holds(h) /\ Keeps(h)
      /\ q \in Queues /\ u \in Users /\ n \in Nat
  BY RequestKinds DEF InsertPosition, TypeOK, SerialInv, LineInv, Creating
<1>2. Live(q) /\ n = counter[q] /\ RowsOf(q, u) = {}
  BY <1>1 DEF Keeps, KeepsQueue, KeepsNumber, Inserting, Holds, FoundNone
<1>3. rows' = rows \cup {row} /\ UNCHANGED <<counter, called>> /\ req'[h].pc = "idle"
  BY <1>2 DEF InsertPosition, TypeOK, Idle
<1> HIDE DEF q, u, n
<1>4. Wishes = {} /\ Wishes' = {}
  BY <1>1, <1>3, WishesOf
<1>5. /\ Given = [p \in Queues |-> IF p = q THEN counter[p] - 1 ELSE counter[p]]
      /\ Given' = counter
  <2>1. Given = [p \in Queues |-> IF q = p THEN counter[p] - 1 ELSE counter[p]]
    BY <1>1, GivenOf DEF Inserting, q
  <2>2. Given' = [p \in Queues |-> counter[p]]
    BY <1>3, GivenOf
  <2>3. counter = [p \in Queues |-> counter[p]]
    BY DEF TypeOK
  <2> QED BY <2>1, <2>2, <2>3
<1>6. Given' = [Given EXCEPT ![q] = Given[q] + 1]
  BY <1>1, <1>5 DEF TypeOK
<1>7. Promise!Held(q, u) = {}
  BY <1>2, HeldOf
<1>8. Tickets' = Tickets \cup {Ticket(row)}
  BY <1>3 DEF Tickets
<1>9. Ticket(row) = [queue |-> q, user |-> u, code |-> Given'[q], position |-> Given'[q], status |-> "WAITING"]
  BY <1>2, <1>5 DEF Ticket
<1>10. Promise!Join(q, u)
  BY <1>3, <1>4, <1>6, <1>7, <1>8, <1>9 DEF Promise!Join
<1> QED BY <1>1, <1>10 DEF Promise!Next

\* Advancing calls who stands in front.
LEMMA AdvanceCalls ==
  ASSUME Serial, TypeOK, IndInv, SerialInv, LineInv, NEW h \in Handlers, Advance(h)
  PROVE  Promise!Next
<1>1. req[h].pc = "going" /\ Holds(h) /\ Keeps(h)
  BY DEF Advance, SerialInv, LineInv
<1>2. PICK r \in Waiting(req[h].queue) : r.id = req[h].row
  BY <1>1 DEF Keeps, KeepsFirst
<1>3. r \in rows /\ r.status = "WAITING" /\ \A s \in rows : s.id = r.id => s = r
  BY <1>2 DEF Waiting, IndInv, IdsUnique
<1> DEFINE s == [r EXCEPT !.status = "GOING"]
<1>4. rows' = (rows \ {r}) \cup {s} /\ req'[h].pc = "call" /\ UNCHANGED <<called, counter>>
  BY <1>2, <1>3 DEF Advance, TypeOK
<1>5. Tickets' = (Tickets \ {Ticket(r)}) \cup {Ticket(s)}
  BY <1>3, <1>4, TicketExchanged DEF SerialInv
<1>6. Ticket(s) = [Ticket(r) EXCEPT !.status = "GOING"] /\ Ticket(r).status = "WAITING"
  BY <1>3 DEF Ticket, TypeOK, PositionRow
<1>7. Promise!InFront(Ticket(r))
  <2>1. \A t \in Waiting(r.queue) : r.position <= t.position
    BY <1>1, <1>2, <1>3 DEF Holds, FoundFirst
  <2> QED BY <2>1 DEF Promise!InFront, Tickets, Ticket, Waiting
<1>8. UNCHANGED <<Given, Wishes>>
  BY <1>1, <1>4, NothingPending
<1>9. Promise!CallIn(Ticket(r))
  BY <1>4, <1>5, <1>6, <1>7, <1>8 DEF Promise!CallIn, Promise!Exchange
<1>10. Ticket(r) \in Tickets
  BY <1>3 DEF Tickets
<1> QED BY <1>9, <1>10 DEF Promise!Next

\* Who is told to come in is being called.
LEMMA CallAnnounces ==
  ASSUME Serial, TypeOK, IndInv, SerialInv, LineInv, NEW h \in Handlers, Call(h)
  PROVE  [Promise!Next]_Promise!vars
<1> DEFINE q == req[h].queue  u == req[h].user  n == req[h].code
           m == [queue |-> q, user |-> u, code |-> n]
<1>1. req[h].pc = "call" /\ Keeps(h) /\ UNCHANGED <<rows, counter>>
  BY DEF Call, LineInv
<1>2. req'[h].pc = "idle"
  BY SendsOn DEF Call, Idle
<1>3. UNCHANGED <<Given, Wishes>>
  BY <1>1, <1>2, NothingPending
<1>4. PICK r \in RowsOf(q, u) : r.code = n /\ r.status = "GOING"
  BY <1>1 DEF Keeps, KeepsGoing, Going
<1>5. CASE called' = called
  BY <1>1, <1>3, <1>5, LineStutters
<1>6. CASE called' = called \cup {m}
  <2>1. m = [queue |-> Ticket(r).queue, user |-> Ticket(r).user, code |-> Ticket(r).code]
    BY <1>4 DEF RowsOf, Ticket
  <2>2. Tickets' = Tickets /\ Ticket(r) \in Tickets /\ Ticket(r).status = "GOING"
    BY <1>1, <1>4 DEF Tickets, RowsOf, Ticket
  <2>3. Promise!Announce(Ticket(r))
    BY <1>3, <1>6, <2>1, <2>2 DEF Promise!Announce
  <2> QED BY <2>2, <2>3 DEF Promise!Next
<1>7. called' \in {called, called \cup {m}}
  BY DEF Call, SendMessage
<1> QED BY <1>5, <1>6, <1>7

\* Reading the row for an update is taking an order.
LEMMA UpdateIsOrdered ==
  ASSUME Serial, TypeOK, NEW h \in Handlers, NEW q \in Queues, NEW u \in Users,
         NEW p \in NewPositions \cup {0}, NEW s \in NewStatuses \cup {NoStatus},
         BeginUpdate(h, q, u, p, s), TypeOK'
  PROVE  Promise!Next
<1>1. PICK r \in RowsOf(q, u) : req'[h].pc = "write" /\ req'[h].queue = q /\ req'[h].user = u
  BY DEF BeginUpdate, TypeOK
<1>2. UNCHANGED <<rows, called, counter>> /\ req[h].pc = "idle"
  BY DEF BeginUpdate, Free
<1>3. req'[h] \in Updating
  BY <1>1, RequestKinds DEF TypeOK
<1> DEFINE o == Wish(req'[h])
<1>4. Wishes = {} /\ Wishes' = {o}
  BY <1>1, <1>2, WishesOf
<1>5. Given' = Given
  BY <1>1, <1>2, GivenOf DEF Inserting
<1>6. o.queue = q /\ o.user = u /\ o.moved \in BOOLEAN /\ o.position >= 0 /\ o.status \in Promise!Standing \cup {Promise!Kept}
  BY <1>1, <1>3 DEF Wish, Updating, Promise!Standing, Promise!Kept, Status, NoStatus
<1>7. Promise!Held(o.queue, o.user) # {}
  BY <1>1, <1>6, HeldOf
<1> HIDE DEF o
<1>8. Tickets' = Tickets
  BY <1>2 DEF Tickets
<1>9. Promise!Order
  BY <1>2, <1>4, <1>5, <1>6, <1>7, <1>8 DEF Promise!Order
<1> QED BY <1>9 DEF Promise!Next

\* The write changes what was asked and nothing else: the row that was read is still so.
LEMMA UpdateAmends ==
  ASSUME Serial, TypeOK, IndInv, SerialInv, LineInv, NEW h \in Handlers, Update(h)
  PROVE  Promise!Next
<1> DEFINE u == req[h]  o == Wish(u)
<1>1. u \in Updating /\ u.pc = "write" /\ Holds(h) /\ Keeps(h)
  BY RequestKinds DEF Update, TypeOK, SerialInv, LineInv
<1>2. PICK r \in RowsOf(u.queue, u.user) : ~u.moved => r.position = u.position
  BY <1>1 DEF Keeps, KeepsPlace
<1>3. r \in rows /\ r.queue = u.queue /\ r.user = u.user
  BY DEF RowsOf
<1>4. u.status = IF u.body = NoStatus THEN r.status ELSE u.body
  BY <1>1 DEF Holds, FoundStatus
<1> DEFINE s == Rewritten(r, u)
<1>5. rows' = {Rewritten(x, u) : x \in rows} /\ UNCHANGED <<called, counter>>
  BY DEF Update
<1>6. \A x \in rows : x # r => Rewritten(x, u) = x
  BY <1>3 DEF SerialInv, OnePosition, Rewritten
<1>7. \A x \in rows : x # r => x # s
  BY <1>3 DEF SerialInv, OnePosition, Rewritten, TypeOK, PositionRow
<1> HIDE DEF s, u
<1>8. rows' = (rows \ {r}) \cup {s}
  BY <1>3, <1>5, <1>6 DEF s
<1>9. Tickets' = (Tickets \ {Ticket(r)}) \cup {Ticket(s)}
  BY <1>3, <1>8, TicketExchanged DEF SerialInv
<1>10. Ticket(s) = Promise!Amended(Ticket(r), o)
  <2>1. s = [r EXCEPT !.position = u.position, !.status = u.status]
    BY <1>3 DEF s, Rewritten
  <2>2. r \in PositionRow
    BY <1>3 DEF TypeOK
  <2>3. Ticket(s) = [Ticket(r) EXCEPT !.position = u.position, !.status = u.status]
    <3> DEFINE new == [queue |-> r.queue, user |-> r.user, code |-> r.code, position |-> u.position, status |-> u.status]
    <3>1. s.queue = r.queue /\ s.user = r.user /\ s.code = r.code /\ s.position = u.position /\ s.status = u.status
      BY <2>1, <2>2 DEF PositionRow
    <3>2. Ticket(s) = new
      BY <3>1 DEF Ticket
    <3>3. PICK t : t = [Ticket(r) EXCEPT !.position = u.position]
      OBVIOUS
    <3>4. t = [queue |-> r.queue, user |-> r.user, code |-> r.code, position |-> u.position, status |-> r.status]
      BY <3>3 DEF Ticket
    <3>5. [t EXCEPT !.status = u.status] = new
      BY <3>4
    <3>6. [Ticket(r) EXCEPT !.position = u.position, !.status = u.status] = [t EXCEPT !.status = u.status]
      BY <3>3
    <3> QED BY <3>2, <3>5, <3>6
  <2>4. /\ u.position = IF o.moved THEN o.position ELSE Ticket(r).position
        /\ u.status = IF o.status = Promise!Kept THEN Ticket(r).status ELSE o.status
    BY <1>2, <1>4 DEF Ticket, Wish, Promise!Kept, NoStatus
  <2> QED BY <2>3, <2>4 DEF Promise!Amended
<1>11. req'[h].pc \notin {"write", "insert"}
  BY <1>1, ContinueReads DEF Update, TypeOK, Updating, u
<1>12. Wishes = {o} /\ Wishes' = {}
  BY <1>1, <1>11, WishesOf DEF u
<1>13. Given' = Given
  BY <1>1, <1>5, <1>11, GivenOf DEF Inserting, u
<1>14. Ticket(r) \in Promise!Held(o.queue, o.user)
  BY <1>3, HeldOf DEF RowsOf, Wish
<1> HIDE DEF o
<1>15. Promise!Amend
  BY <1>5, <1>9, <1>10, <1>12, <1>13, <1>14 DEF Promise!Amend, Promise!Exchange
<1> QED BY <1>15 DEF Promise!Next

LEMMA DeletionLeaves ==
  ASSUME Serial, TypeOK, NEW h \in Handlers, NEW q \in Queues, NEW u \in Users, DeletePosition(h, q, u)
  PROVE  Promise!Next
<1>1. rows' = rows \ RowsOf(q, u) /\ UNCHANGED <<called, counter>> /\ req[h].pc = "idle" /\ req'[h].pc = "bye"
  BY DEF DeletePosition, Free, TypeOK
<1>2. UNCHANGED <<Given, Wishes>>
  BY <1>1, NothingPending
<1>3. Tickets' = Tickets \ Promise!Held(q, u)
  <2>1. \A t \in rows : Ticket(t).queue = t.queue /\ Ticket(t).user = t.user
    BY DEF Ticket
  <2>2. \A x : x \in Tickets <=> \E t \in rows : x = Ticket(t)
    BY DEF Tickets
  <2>3. \A x : x \in Tickets' <=> \E t \in rows' : x = Ticket(t)
    BY DEF Tickets
  <2> QED BY <1>1, <2>1, <2>2, <2>3 DEF Promise!Held, RowsOf
<1>4. Promise!Leave(q, u)
  BY <1>1, <1>2, <1>3 DEF Promise!Leave
<1> QED BY <1>4 DEF Promise!Next

LEMMA DeletionDisbands ==
  ASSUME Serial, TypeOK, NEW h \in Handlers, NEW q \in Queues, DeleteQueue(h, q)
  PROVE  Promise!Next
<1>1. /\ rows' = {r \in rows : r.queue # q} /\ UNCHANGED <<called, counter>>
      /\ req[h].pc = "idle" /\ req'[h].pc = "idle"
  BY DEF DeleteQueue, Free
<1>2. UNCHANGED <<Given, Wishes>>
  BY <1>1, NothingPending
<1>3. Tickets' = {t \in Tickets : t.queue # q}
  <2>1. \A t \in rows : Ticket(t).queue = t.queue
    BY DEF Ticket
  <2>2. \A x : x \in Tickets <=> \E t \in rows : x = Ticket(t)
    BY DEF Tickets
  <2>3. \A x : x \in Tickets' <=> \E t \in rows' : x = Ticket(t)
    BY DEF Tickets
  <2> QED BY <1>1, <2>1, <2>2, <2>3
<1>4. Promise!Disband(q)
  BY <1>1, <1>2, <1>3 DEF Promise!Disband
<1> QED BY <1>4 DEF Promise!Next

\* A restart forgets the request in progress and takes up at the largest number stored.
LEMMA RestartForgets ==
  ASSUME TypeOK, Restart
  PROVE  Promise!Next
<1>1. UNCHANGED <<rows, called>> /\ \A h \in Handlers : req'[h].pc = "idle"
  BY DEF Restart, Idle
<1>2. Wishes' = {}
  BY <1>1 DEF Wishes
<1>3. Given' = [q \in Queues |-> counter'[q]]
  BY <1>1 DEF Given, Taken, Inserting
<1>4. \A q \in Queues : LastCode(q, counter'[q])
  BY DEF Restart
<1>5. Tickets' = Tickets
  BY <1>1 DEF Tickets
<1>6. Given' = [q \in Queues |-> Given'[q]]
  BY <1>3
<1>7. ASSUME NEW q \in Queues, NEW numbers, numbers = {t.code : t \in {s \in Tickets : s.queue = q}}
      PROVE  /\ \A n \in numbers : n <= Given'[q]
             /\ Given'[q] \in (IF numbers = {} THEN {0} ELSE numbers)
  <2>1. \A n : n \in numbers <=> \E r \in rows : r.queue = q /\ r.code = n
    <3>1. \A n : n \in numbers <=> \E t \in Tickets : t.queue = q /\ t.code = n
      BY <1>7
    <3>2. \A r \in rows : Ticket(r) \in Tickets /\ Ticket(r).queue = r.queue /\ Ticket(r).code = r.code
      BY DEF Tickets, Ticket
    <3>3. \A t \in Tickets : \E r \in rows : t = Ticket(r)
      BY DEF Tickets
    <3> QED BY <3>1, <3>2, <3>3
  <2>2. LastCode(q, Given'[q])
    BY <1>3, <1>4
  <2>3. CASE \E r \in rows : r.queue = q
    BY <2>1, <2>2, <2>3 DEF LastCode
  <2>4. CASE ~ \E r \in rows : r.queue = q
    BY <2>1, <2>2, <2>4 DEF LastCode
  <2> QED BY <2>3, <2>4
<1>8. Promise!Forget
  BY <1>1, <1>2, <1>5, <1>6, <1>7 DEF Promise!Forget
<1> QED BY <1>8 DEF Promise!Next

LEMMA LineStep ==
  ASSUME Serial
  PROVE  /\ TypeOK /\ TypeOK' /\ IndInv /\ SerialInv /\ LineInv /\ [Next]_vars
         => [Promise!Next]_Promise!vars
<1> SUFFICES ASSUME TypeOK, TypeOK', IndInv, SerialInv, LineInv, [Next]_vars
             PROVE  [Promise!Next]_Promise!vars
  OBVIOUS
<1>1. ASSUME NEW h \in Handlers,
             \/ \E q \in Queues : CreateQueue(h, q) \/ BeginAdvance(h, q)
             \/ \E q \in Queues : \E open, active \in BOOLEAN : UpdateQueue(h, q, open, active)
             \/ \E q \in Queues, u \in Users : \E force \in BOOLEAN : BeginCreate(h, q, u, force)
             \/ \E u \in Users : CreateUser(h, u)
      PROVE  UNCHANGED Promise!vars
  <2>1. UNCHANGED <<rows, called, counter>> /\ req[h].pc = "idle"
    BY <1>1 DEF CreateQueue, BeginAdvance, UpdateQueue, BeginCreate, CreateUser, Free
  <2>2. req'[h].pc \in {"idle", "going", "check"}
    BY <1>1, <2>1 DEF CreateQueue, BeginAdvance, UpdateQueue, BeginCreate, CreateUser, TypeOK
  <2> QED BY <2>1, <2>2, QuietLine
<1>2. ASSUME NEW h \in Handlers, CheckPosition(h) PROVE UNCHANGED Promise!vars
  <2>1. UNCHANGED <<rows, called, counter>> /\ req[h].pc = "check" /\ req[h] \in Creating
    BY <1>2, RequestKinds DEF CheckPosition, TypeOK
  <2>2. req'[h].pc \in {"idle", "assign"}
    BY <1>2, <2>1 DEF CheckPosition, TypeOK, Creating, Idle
  <2> QED BY <2>1, <2>2, QuietLine
<1>3. ASSUME NEW h \in Handlers, GeneratePosition(h) PROVE UNCHANGED Promise!vars
  <2> DEFINE q == req[h].queue
  <2>1. UNCHANGED <<rows, called>> /\ req[h].pc = "assign" /\ req[h] \in Creating
    BY <1>3, RequestKinds DEF GeneratePosition, TypeOK
  <2>2. req'[h].pc = "insert" /\ req'[h].queue = q /\ counter' = [counter EXCEPT ![q] = counter[q] + 1]
    BY <1>3, <2>1 DEF GeneratePosition, TypeOK, Creating, NextCode
  <2>3. Wishes = {} /\ Wishes' = {}
    BY <2>1, <2>2, WishesOf
  <2>4. Given = [p \in Queues |-> counter[p]]
    BY <2>1, GivenOf DEF Inserting
  <2>5. Given' = [p \in Queues |-> IF q = p THEN counter'[p] - 1 ELSE counter'[p]]
    BY <2>2, GivenOf
  <2>6. \A p \in Queues : (IF q = p THEN counter'[p] - 1 ELSE counter'[p]) = counter[p]
    BY <2>2 DEF TypeOK
  <2> QED BY <2>1, <2>3, <2>4, <2>5, <2>6, LineStutters
<1>4. ASSUME NEW h \in Handlers, TellMoved(h) PROVE UNCHANGED Promise!vars
  <2>1. UNCHANGED <<rows, counter>> /\ req[h].pc = "moved" /\ req[h] \in Updating /\ called' = called
    BY <1>4, RequestKinds, NoTrace DEF TellMoved, TypeOK
  <2>2. req'[h].pc \in {"idle", "call", "sweep"}
    BY <1>4, <2>1, SendsOn, ContinueReads DEF TellMoved, Idle
  <2> QED BY <2>1, <2>2, QuietLine
<1>5. ASSUME NEW h \in Handlers, Sweep(h) PROVE UNCHANGED Promise!vars
  <2>1. UNCHANGED <<rows, counter, called>> /\ req[h].pc = "sweep"
    BY <1>5 DEF Sweep
  <2>2. req'[h].pc \in {"idle", "tell"}
    BY <1>5 DEF Sweep, TypeOK, Idle
  <2> QED BY <2>1, <2>2, QuietLine
<1>6. ASSUME NEW h \in Handlers, Tell(h) PROVE UNCHANGED Promise!vars
  <2> DEFINE next == [req[h] EXCEPT !.n = req[h].n + 1]
  <2>1. UNCHANGED <<rows, counter>> /\ req[h].pc = "tell" /\ req[h] \in Telling
    BY <1>6, RequestKinds DEF Tell, TypeOK
  <2>2. req'[h] \in {next, Idle} /\ called' = called
    <3>1. CASE SendMessage(h, req[h].list[req[h].n], {}, next)
      BY <3>1, SendsOn, NoTrace
    <3>2. CASE req' = [req EXCEPT ![h] = Idle] /\ called' = called
      BY <3>2 DEF TypeOK
    <3> QED BY <1>6, <3>1, <3>2 DEF Tell
  <2>3. req'[h].pc \in {"idle", "tell"}
    BY <2>1, <2>2 DEF Telling, Idle
  <2> QED BY <2>1, <2>2, <2>3, QuietLine
<1>7. ASSUME NEW h \in Handlers, SayBye(h) PROVE UNCHANGED Promise!vars
  <2>1. UNCHANGED <<rows, counter>> /\ req[h].pc = "bye" /\ called' = called
    BY <1>7, NoTrace DEF SayBye
  <2>2. req'[h].pc = "idle"
    BY <1>7, SendsOn DEF SayBye, Idle
  <2> QED BY <2>1, <2>2, QuietLine
<1>8. CASE UNCHANGED vars
  BY <1>8 DEF vars, Promise!vars, Tickets, Given, Taken, Inserting, Wishes
<1> QED
  BY <1>1, <1>2, <1>3, <1>4, <1>5, <1>6, <1>7, <1>8, InsertJoins, AdvanceCalls, CallAnnounces,
     UpdateIsOrdered, UpdateAmends, DeletionLeaves, DeletionDisbands, RestartForgets
  DEF Next, Ask, Step

\* A queue served one request at a time is a Line, for any queues, entrants and places the
\* staff asks for: every step is one of the line or a stutter.
THEOREM QueueImplementsLine == ASSUME Serial PROVE Spec => LineKept
<1>1. Init => LineInv
  BY DEF Init, LineInv, Keeps, KeepsQueue, KeepsNumber, Inserting, KeepsFirst, KeepsPlace, Going, KeepsGoing, Idle
<1>2. TypeOK /\ IndInv /\ SerialInv /\ LineInv /\ [Next]_vars => LineInv'
  BY LineSteps
<1>3. Spec => []LineInv
  BY <1>1, <1>2, TypeCorrect, NumbersInvariant, SerialReads, PTL DEF Spec
<1>4. TypeOK /\ TypeOK' /\ IndInv /\ SerialInv /\ LineInv /\ [Next]_vars => [Promise!Next]_Promise!vars
  BY LineStep
<1> QED
  BY <1>3, <1>4, LineInit, TypeCorrect, NumbersInvariant, SerialReads, PTL DEF Spec, LineKept, Promise!Spec
=============================================================================
