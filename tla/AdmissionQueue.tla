--------------------------- MODULE AdmissionQueue ---------------------------
(***************************************************************************)
(* The electronic admission queue: AdmissionService and its controller.    *)
(* One Node.js process serves requests; a request runs without             *)
(* interruption between two awaits and every await is a statement of the   *)
(* database (atomic) or a call of the Telegram bot.  A handler of          *)
(* Handlers is one request in progress, so that one handler gives the      *)
(* serial executions and two give the interleavings.                       *)
(*                                                                         *)
(* questionLastPosition, the counter the queue numbers come from, is kept  *)
(* in the memory of the process; everything else is in the database.       *)
(***************************************************************************)
EXTENDS Integers, Sequences, FiniteSets

CONSTANTS
  Queues,       \* ids the sequence of the table queues will hand out
  Users,        \* ids the sequence of the table queue_users will hand out
  Handlers,     \* requests that can be in progress at the same time
  Telegram,     \* the users that have a telegramId
  NewPositions, \* values of body.position in updateQueueUser
  NewStatuses,  \* values of body.status in updateQueueUser
  MaxNotify,    \* people told their place by one notifyQueue: 10 in the code
  SendMayFail,  \* whether the bot may refuse a message
  MaxCode,      \* bound for the checker: numbers handed out per queue
  MaxRows,      \* bound for the checker: positions ever created
  MaxVersion,   \* bound for the checker: updates of a queue
  MaxRestarts   \* bound for the checker: restarts of the process

Status == {"WAITING", "GOING", "PROCESSING"}

ASSUME AdmissionAssumption ==
  /\ Telegram \subseteq Users
  /\ NewPositions \subseteq Int
  /\ NewStatuses \subseteq Status
  /\ SendMayFail \in BOOLEAN
  /\ {MaxNotify, MaxCode, MaxRows, MaxVersion, MaxRestarts} \subseteq Nat

VARIABLES
  queue,        \* the table queues; version stands for updatedAt
  users,        \* the table queue_users: the ids that exist
  rows,         \* the table queue_positions
  nextId,       \* the sequence behind queue_positions.id
  counter,      \* questionLastPosition (a missing key counts as 0)
  req,          \* the request each handler is serving, with its locals
  called,       \* the PROCESSING messages ("come in") the bot has accepted
  restarts      \* restarts of the process so far

vars == <<queue, users, rows, nextId, counter, req, called, restarts>>

NoStatus == "NONE"      \* body.status is absent

QueueRow == [life : {"unused", "live", "deleted"}, open : BOOLEAN,
             active : BOOLEAN, version : Nat]
PositionRow == [id : Nat, queue : Queues, user : Users, code : Nat,
                position : Nat, status : Status]
Message == [queue : Queues, user : Users, code : Nat]

\* A request, by the await it waits for, with the locals it still needs.
\* "assign" is the one place where the answer of the database is in and the
\* rest of the handler has still to run.
Idle == [pc |-> "idle"]
Creating == [pc : {"check", "assign", "insert"}, queue : Queues, user : Users,
             version : Nat, code : Nat]
Advancing == [pc : {"going"}, queue : Queues, row : Nat]
Updating == [pc : {"write", "moved"}, queue : Queues, user : Users, code : Nat,
             position : Nat, status : Status, moved : BOOLEAN, changed : BOOLEAN,
             body : Status \cup {NoStatus}]
Calling == [pc : {"call", "bye"}, queue : Queues, user : Users, code : Nat]
Sweeping == [pc : {"sweep"}, queue : Queues]
Telling == [pc : {"tell"}, queue : Queues, list : Seq(Users), n : Nat \ {0}]
Request == {Idle} \cup Creating \cup Advancing \cup Updating \cup Calling
             \cup Sweeping \cup Telling

Live(q) == queue[q].life = "live"
RowsOf(q, u) == {r \in rows : r.queue = q /\ r.user = u}
Waiting(q) == {r \in rows : r.queue = q /\ r.status = "WAITING"}
RelativePosition(r) ==
  Cardinality({s \in Waiting(r.queue) : s.position <= r.position})

Init ==
  /\ queue = [q \in Queues |-> [life |-> "unused", open |-> FALSE,
                                active |-> TRUE, version |-> 0]]
  /\ users = {}
  /\ rows = {}
  /\ nextId = 1
  /\ counter = [q \in Queues |-> 0]
  /\ req = [h \in Handlers |-> Idle]
  /\ called = {}
  /\ restarts = 0

-----------------------------------------------------------------------------
(* Queues and people.  These handlers are one statement after their checks *)
(* and end with it; they need a free handler like every request.           *)

Free(h) == req[h].pc = "idle"

CreateQueue(h, q) ==
  /\ Free(h)
  /\ queue[q].life = "unused"
  /\ queue' = [queue EXCEPT ![q].life = "live"]
  /\ UNCHANGED <<users, rows, nextId, counter, req, called, restarts>>

UpdateQueue(h, q, open, active) ==
  /\ Free(h)
  /\ Live(q)
  /\ queue[q].version < MaxVersion
  /\ queue' = [queue EXCEPT ![q] = [life |-> "live", open |-> open,
                        active |-> active, version |-> queue[q].version + 1]]
  /\ UNCHANGED <<users, rows, nextId, counter, req, called, restarts>>

\* The positions of the queue go with it (onDelete: Cascade); its counter stays.
DeleteQueue(h, q) ==
  /\ Free(h)
  /\ Live(q)
  /\ queue' = [queue EXCEPT ![q].life = "deleted"]
  /\ rows' = {r \in rows : r.queue # q}
  /\ UNCHANGED <<users, nextId, counter, req, called, restarts>>

CreateUser(h, u) ==
  /\ Free(h)
  /\ u \notin users
  /\ users' = users \cup {u}
  /\ UNCHANGED <<queue, rows, nextId, counter, req, called, restarts>>

-----------------------------------------------------------------------------
(* createQueueUser                                                         *)

\* The reads of the queue and of the user and the checks made on them.
BeginCreate(h, q, u, force) ==
  /\ Free(h)
  /\ Live(q)
  /\ u \in users
  /\ force \/ (queue[q].open /\ queue[q].active)
  /\ req' = [req EXCEPT ![h] = [pc |-> "check", queue |-> q, user |-> u,
                               version |-> queue[q].version, code |-> 0]]
  /\ UNCHANGED <<queue, users, rows, nextId, counter, called, restarts>>

\* Variant: only positions still waiting count.
PositionWaits(r) ==
  Live(r.queue) /\ \E s \in RowsOf(r.queue, r.user) : s.status = "WAITING"

\* findFirst filters on every column of the queue row read before: once the
\* queue was updated, no position matches any more.
PositionExists(r) ==
  /\ Live(r.queue)
  /\ queue[r.queue].version = r.version
  /\ RowsOf(r.queue, r.user) # {}

CheckPosition(h) ==
  /\ req[h].pc = "check"
  /\ req' = [req EXCEPT ![h] = IF PositionExists(req[h]) THEN Idle
                              ELSE [req[h] EXCEPT !.pc = "assign"]]
  /\ UNCHANGED <<queue, users, rows, nextId, counter, called, restarts>>

\* Variant: the number is taken from the rows that are left.
CountedCode(q) == Cardinality({r \in rows : r.queue = q}) + 1

NextCode(q) == counter[q] + 1

GeneratePosition(h) ==
  /\ req[h].pc = "assign"
  /\ NextCode(req[h].queue) <= MaxCode
  /\ LET code == NextCode(req[h].queue)
     IN /\ counter' = [counter EXCEPT ![req[h].queue] = code]
        /\ req' = [req EXCEPT ![h].pc = "insert", ![h].code = code]
  /\ UNCHANGED <<queue, users, rows, nextId, called, restarts>>

\* The foreign key refuses a position of a queue that is gone.
InsertPosition(h) ==
  /\ req[h].pc = "insert"
  /\ nextId <= MaxRows
  /\ IF Live(req[h].queue)
     THEN /\ rows' = rows \cup {[id |-> nextId, queue |-> req[h].queue,
                   user |-> req[h].user, code |-> req[h].code,
                   position |-> req[h].code, status |-> "WAITING"]}
          /\ nextId' = nextId + 1
     ELSE UNCHANGED <<rows, nextId>>
  /\ req' = [req EXCEPT ![h] = Idle]
  /\ UNCHANGED <<queue, users, counter, called, restarts>>

-----------------------------------------------------------------------------
(* sendMessage: nothing for a user without a telegramId; otherwise the bot *)
(* takes the message, or its refusal ends the request.  Only the PROCESSING *)
(* messages are remembered.                                                *)

SendMessage(h, u, processing, next) ==
  \/ /\ called' = called \cup (IF u \in Telegram THEN processing ELSE {})
     /\ req' = [req EXCEPT ![h] = next]
  \/ /\ u \in Telegram /\ SendMayFail
     /\ req' = [req EXCEPT ![h] = Idle]
     /\ UNCHANGED called

-----------------------------------------------------------------------------
(* advanceQueue                                                            *)

IsFirst(r, S) == \A s \in S : r.position <= s.position

\* The first waiting position; any of them when several have the same number.
BeginAdvance(h, q) ==
  /\ Free(h)
  /\ Live(q)
  /\ \E r \in Waiting(q) :
       /\ IsFirst(r, Waiting(q))
       /\ req' = [req EXCEPT ![h] = [pc |-> "going", queue |-> q, row |-> r.id]]
  /\ UNCHANGED <<queue, users, rows, nextId, counter, called, restarts>>

\* update by id, which throws when the position is gone, and the read of its user.
Advance(h) ==
  /\ req[h].pc = "going"
  /\ \/ \E r \in rows :
          /\ r.id = req[h].row
          /\ rows' = (rows \ {r}) \cup {[r EXCEPT !.status = "GOING"]}
          /\ req' = [req EXCEPT ![h] = [pc |-> "call", queue |-> r.queue,
                                       user |-> r.user, code |-> r.code]]
     \/ /\ \A r \in rows : r.id # req[h].row
        /\ req' = [req EXCEPT ![h] = Idle]
        /\ UNCHANGED rows
  /\ UNCHANGED <<queue, users, nextId, counter, called, restarts>>

\* The PROCESSING message; updateQueueUser follows it by sendGoingUser, a call
\* that leaves no trace here and ends the request whatever it answers.
Call(h) ==
  /\ req[h].pc = "call"
  /\ SendMessage(h, req[h].user, {[queue |-> req[h].queue, user |-> req[h].user,
                                    code |-> req[h].code]}, Idle)
  /\ UNCHANGED <<queue, users, rows, nextId, counter, restarts>>

-----------------------------------------------------------------------------
(* updateQueueUser                                                         *)

\* Variants: the place as the operator typed it; an absent status starts over.
TypedPosition(r, position) == IF position = 0 THEN r.position ELSE position
ResetStatus(r, status) == IF status = NoStatus THEN "WAITING" ELSE status

NewPosition(r, position) ==
  CASE position = 0 -> r.position
    [] position > 0 -> position
    [] OTHER -> 0
NewStatus(r, status) == IF status = NoStatus THEN r.status ELSE status

\* position = 0 and status = NoStatus stand for fields the body leaves out.  The
\* new row is computed from the row read here and written in a later statement.
BeginUpdate(h, q, u, position, status) ==
  /\ Free(h)
  /\ Live(q)
  /\ \E r \in RowsOf(q, u) :
       LET moved == NewPosition(r, position) # r.position
       IN req' = [req EXCEPT ![h] =
            [pc |-> "write", queue |-> q, user |-> u, code |-> r.code,
             position |-> NewPosition(r, position),
             status |-> NewStatus(r, status), body |-> status, moved |-> moved,
             changed |-> moved \/ status \notin {NoStatus, r.status}]]
  /\ UNCHANGED <<queue, users, rows, nextId, counter, called, restarts>>

\* Variant: a move that was announced is announcement enough.
ContinueUnlessMoved(r) ==
  IF r.changed /\ r.body = "GOING" /\ ~r.moved
  THEN [pc |-> "call", queue |-> r.queue, user |-> r.user, code |-> r.code]
  ELSE Idle

Continue(r) ==
  CASE r.changed /\ r.body = "GOING" ->
              [pc |-> "call", queue |-> r.queue, user |-> r.user, code |-> r.code]
    [] r.changed /\ r.body = "PROCESSING" -> [pc |-> "sweep", queue |-> r.queue]
    [] OTHER -> Idle

\* updateMany writes both columns on every position of the user in the queue.
Rewritten(r, u) ==
  IF r.queue = u.queue /\ r.user = u.user
  THEN [r EXCEPT !.position = u.position, !.status = u.status]
  ELSE r

Update(h) ==
  /\ req[h].pc = "write"
  /\ rows' = {Rewritten(r, req[h]) : r \in rows}
  /\ req' = [req EXCEPT ![h] = IF req[h].moved
                              THEN [req[h] EXCEPT !.pc = "moved"]
                              ELSE Continue(req[h])]
  /\ UNCHANGED <<queue, users, nextId, counter, called, restarts>>

TellMoved(h) ==
  /\ req[h].pc = "moved"
  /\ SendMessage(h, req[h].user, {}, Continue(req[h]))
  /\ UNCHANGED <<queue, users, rows, nextId, counter, restarts>>

-----------------------------------------------------------------------------
(* notifyQueue: the people in front are told their place one by one.  The   *)
(* write of lastNotifiedPosition is a Prisma promise nobody awaits, so it   *)
(* is never executed and everybody in front is told again each time.        *)

\* Variant: in the order the database likes.
FirstUnordered(q, l, n) ==
  /\ \A i, j \in 1..n : i < j => l[i] # l[j]
  /\ n = MaxNotify \/ \A r \in Waiting(q) : \E i \in 1..n : l[i] = r

FirstWaiting(q, l, n) ==
  /\ \A i, j \in 1..n : i < j => l[i] # l[j] /\ l[i].position <= l[j].position
  /\ \A r \in Waiting(q) :
       \/ \E i \in 1..n : l[i] = r
       \/ n = MaxNotify /\ \A i \in 1..n : l[i].position <= r.position

Sweep(h) ==
  /\ req[h].pc = "sweep"
  /\ LET q == req[h].queue IN
     \/ /\ Live(q)
        /\ \E n \in 0..MaxNotify : \E l \in [1..n -> Waiting(q)] :
             /\ FirstWaiting(q, l, n)
             /\ req' = [req EXCEPT ![h] =
                  [pc |-> "tell", queue |-> q, n |-> 1,
                   list |-> [i \in 1..n |-> l[i].user]]]
     \/ /\ ~Live(q)
        /\ req' = [req EXCEPT ![h] = Idle]
  /\ UNCHANGED <<queue, users, rows, nextId, counter, called, restarts>>

\* The user is looked up through the positions: one who has none left, in any
\* queue, is null and the TypeError ends the request.
Tell(h) ==
  LET r == req[h] IN
  /\ r.pc = "tell"
  /\ IF r.n <= Len(r.list) /\ \E s \in rows : s.user = r.list[r.n]
     THEN SendMessage(h, r.list[r.n], {}, [r EXCEPT !.n = r.n + 1])
     ELSE /\ req' = [req EXCEPT ![h] = Idle]
          /\ UNCHANGED called
  /\ UNCHANGED <<queue, users, rows, nextId, counter, restarts>>

-----------------------------------------------------------------------------
(* deleteQueuePosition                                                     *)

DeletePosition(h, q, u) ==
  /\ Free(h)
  /\ Live(q)
  /\ u \in users
  /\ rows' = rows \ RowsOf(q, u)
  /\ req' = [req EXCEPT ![h] = [pc |-> "bye", queue |-> q, user |-> u, code |-> 0]]
  /\ UNCHANGED <<queue, users, nextId, counter, called, restarts>>

SayBye(h) ==
  /\ req[h].pc = "bye"
  /\ SendMessage(h, req[h].user, {}, Idle)
  /\ UNCHANGED <<queue, users, rows, nextId, counter, restarts>>

-----------------------------------------------------------------------------
(* A restart drops the requests in progress.  onModuleInit runs before the  *)
(* server listens: it sets the counter to the largest code still in the     *)
(* table, or 0, and a deleted queue has no counter.                         *)

\* Variant: the number of who stands last.
LastPlace(q, n) ==
  IF \E r \in rows : r.queue = q
  THEN \E r \in rows : /\ r.queue = q /\ r.code = n
                      /\ \A s \in rows : s.queue = q => s.position <= r.position
  ELSE n = 0

LastCode(q, n) ==
  IF \E r \in rows : r.queue = q
  THEN /\ \E r \in rows : r.queue = q /\ r.code = n
       /\ \A r \in rows : r.queue = q => r.code <= n
  ELSE n = 0

Restart ==
  /\ restarts < MaxRestarts
  /\ restarts' = restarts + 1
  /\ req' = [h \in Handlers |-> Idle]
  /\ \E c \in [Queues -> 0..MaxCode] :
       /\ \A q \in Queues : LastCode(q, c[q])
       /\ counter' = c
  /\ UNCHANGED <<queue, users, rows, nextId, called>>

Step(h) ==
  \/ CheckPosition(h) \/ GeneratePosition(h) \/ InsertPosition(h)
  \/ Advance(h) \/ Call(h) \/ Update(h) \/ TellMoved(h)
  \/ Sweep(h) \/ Tell(h) \/ SayBye(h)

Ask(h) ==
  \/ \E q \in Queues :
       \/ CreateQueue(h, q) \/ DeleteQueue(h, q) \/ BeginAdvance(h, q)
       \/ \E open, active \in BOOLEAN : UpdateQueue(h, q, open, active)
       \/ \E u \in Users :
            \/ \E force \in BOOLEAN : BeginCreate(h, q, u, force)
            \/ \E p \in NewPositions \cup {0}, s \in NewStatuses \cup {NoStatus} :
                 BeginUpdate(h, q, u, p, s)
            \/ DeletePosition(h, q, u)
  \/ \E u \in Users : CreateUser(h, u)

Next == (\E h \in Handlers : Ask(h) \/ Step(h)) \/ Restart

Spec == Init /\ [][Next]_vars

\* The event loop runs every continuation whose answer is in.
FairSpec == Spec /\ \A h \in Handlers : WF_vars(Step(h))

-----------------------------------------------------------------------------
(* Properties                                                              *)

\* Every row, local variable and message is of the shape the schema gives it;
\* in particular no position is negative, whatever position an update asks for.
TypeOK ==
  /\ queue \in [Queues -> QueueRow]
  /\ users \subseteq Users
  /\ rows \subseteq PositionRow
  /\ nextId \in Nat
  /\ counter \in [Queues -> Nat]
  /\ req \in [Handlers -> Request]
  /\ called \subseteq Message
  /\ restarts \in Nat

\* The number an entrant is called by is nobody else's in the same queue, however
\* requests interleave and whenever the process restarts.
CodesUnique ==
  \A r, s \in rows : r.queue = s.queue /\ r.code = s.code => r = s

\* The strengthening of CodesUnique: ids are unique and below the sequence, rows
\* belong to live queues, the counter in memory covers every number in the table
\* and every number a handler has taken and not stored yet, and no two of these
\* are the same.
Inserting(h) == req[h].pc = "insert"

IdsBelow == \A r \in rows : r.id < nextId
IdsUnique == \A r, s \in rows : r.id = s.id => r = s
RowsOfLive == \A r \in rows : Live(r.queue)
Covered ==
  /\ \A r \in rows : r.code <= counter[r.queue]
  /\ \A h \in Handlers : Inserting(h) => req[h].code <= counter[req[h].queue]
Fresh ==
  /\ \A h \in Handlers : Inserting(h) =>
       \A r \in rows : r.queue = req[h].queue => r.code # req[h].code
  /\ \A g, h \in Handlers :
       Inserting(g) /\ Inserting(h) /\ req[g].queue = req[h].queue
         /\ req[g].code = req[h].code => g = h
IndInv == IdsBelow /\ IdsUnique /\ RowsOfLive /\ Covered /\ Fresh /\ CodesUnique

\* A number that was called over Telegram is never called again for another
\* person, as long as the process keeps its counter.
CalledOnce ==
  restarts = 0 =>
    \A m, k \in called :
      m.queue = k.queue /\ m.code = k.code => m.user = k.user

\* With one request at a time an entrant stands in a queue once, restarts,
\* reopened queues and forced entries included ("Queue position already exists").
OnePosition ==
  \A r, s \in rows : r.queue = s.queue /\ r.user = s.user => r = s

\* With one request at a time somebody who was called goes back to waiting only
\* when an operator's update says so.  LineKept below says this and more.
NoSilentReturn ==
  [][\A r \in rows, s \in rows' :
       r.id = s.id /\ r.status # "WAITING" /\ s.status = "WAITING" =>
         \E h \in Handlers : req[h].pc = "write" /\ req[h].body = "WAITING"]_vars

\* With one request at a time the place notifyQueue tells is not larger than the
\* relative position the queue's page shows, and is it when positions are distinct.
DistinctPositions(q) ==
  \A r, s \in Waiting(q) : r.position = s.position => r = s

NoticeAgrees ==
  \A h \in Handlers : req[h].pc = "tell" =>
    \A i \in DOMAIN req[h].list :
      \A r \in Waiting(req[h].queue) : r.user = req[h].list[i] =>
        /\ i <= RelativePosition(r)
        /\ DistinctPositions(req[h].queue) => i = RelativePosition(r)

\* The queue as entrants see it: positions without their ids, the number a request has
\* taken and not stored not given yet, and the update a request is about to write.
Ticket(r) == [queue |-> r.queue, user |-> r.user, code |-> r.code, position |-> r.position, status |-> r.status]
Taken(q) == \E h \in Handlers : Inserting(h) /\ req[h].queue = q
Wish(r) == [queue |-> r.queue, user |-> r.user, moved |-> r.moved, position |-> r.position, status |-> r.body]
Tickets == {Ticket(r) : r \in rows}
Given == [q \in Queues |-> IF Taken(q) THEN counter[q] - 1 ELSE counter[q]]
Wishes == {Wish(req[h]) : h \in {g \in Handlers : req[g].pc = "write"}}
Promise == INSTANCE Line WITH tickets <- Tickets, last <- Given, asked <- Wishes

\* With one request at a time the queue keeps what Line promises: one ticket for an
\* entrant, numbers one after another, nobody called but who stands in front, nobody told
\* to come in but who is called, and an update that changes what it was asked to and
\* nothing else, whatever was read before an await and whenever the process restarts
\* (AdmissionService.ts:104-142, 280-325, 342-391, 471-486).
LineKept == Promise!Spec

\* Somebody on Telegram who is called is told so, when no message is refused,
\* unless the process restarts in between.
GoingIsTold ==
  \A q \in Queues, u \in Telegram :
    (\E r \in RowsOf(q, u) : r.status = "GOING") ~>
      (restarts > 0 \/ \E m \in called : m.queue = q /\ m.user = u)
=============================================================================
