-------------------------------- MODULE Line --------------------------------
(***************************************************************************)
(* What the admission queue promises to entrants and to those who serve    *)
(* it.  An entrant has one ticket in a queue at a time.  Its number is one  *)
(* more than the last that was given; its place is the number, until the    *)
(* staff asks for another place.  The queue calls who stands in front, and *)
(* whoever is told to come in is being called.  What an order leaves out    *)
(* stays as it is.                                                          *)
(***************************************************************************)
EXTENDS Integers

CONSTANTS Queues, Users

VARIABLES
  tickets,  \* the tickets that are held
  last,     \* the last number given in each queue
  asked,    \* what the staff asks for and is not done yet: a set of one order at most
  called    \* what those called in were told: queue, user and number

vars == <<tickets, last, asked, called>>

Standing == {"WAITING", "GOING", "PROCESSING"}
Kept == "NONE"  \* the order says nothing of the status

Held(q, u) == {t \in tickets : t.queue = q /\ t.user = u}
InFront(t) == \A s \in tickets : s.queue = t.queue /\ s.status = "WAITING" => t.position <= s.position
Exchange(t, new) == tickets' = (tickets \ {t}) \cup {new}

Init == tickets = {} /\ last = [q \in Queues |-> 0] /\ asked = {} /\ called = {}

Join(q, u) ==
  /\ Held(q, u) = {}
  /\ last' = [last EXCEPT ![q] = last[q] + 1]
  /\ tickets' = tickets \cup {[queue |-> q, user |-> u, code |-> last'[q], position |-> last'[q], status |-> "WAITING"]}
  /\ UNCHANGED <<asked, called>>

CallIn(t) ==
  /\ t.status = "WAITING" /\ InFront(t)
  /\ Exchange(t, [t EXCEPT !.status = "GOING"])
  /\ UNCHANGED <<last, asked, called>>

Announce(t) ==
  /\ t.status = "GOING"
  /\ called' = called \cup {[queue |-> t.queue, user |-> t.user, code |-> t.code]}
  /\ UNCHANGED <<tickets, last, asked>>

Order ==
  /\ asked = {}
  /\ \E o \in asked' :
       /\ asked' = {o} /\ Held(o.queue, o.user) # {}
       /\ o.moved \in BOOLEAN /\ o.position >= 0 /\ o.status \in Standing \cup {Kept}
  /\ UNCHANGED <<tickets, last, called>>

Amended(t, o) ==
  [t EXCEPT !.position = IF o.moved THEN o.position ELSE t.position,
            !.status = IF o.status = Kept THEN t.status ELSE o.status]

Amend ==
  /\ \E o \in asked : \E t \in Held(o.queue, o.user) : Exchange(t, Amended(t, o))
  /\ asked' = {}
  /\ UNCHANGED <<last, called>>

Leave(q, u) ==
  /\ tickets' = tickets \ Held(q, u)
  /\ UNCHANGED <<last, asked, called>>

Disband(q) ==
  /\ tickets' = {t \in tickets : t.queue # q}
  /\ UNCHANGED <<last, asked, called>>

\* The numbers that were given are forgotten, but for those on the tickets.
Forget ==
  /\ asked' = {}
  /\ \A q \in Queues :
       LET numbers == {t.code : t \in {s \in tickets : s.queue = q}}
       IN /\ \A n \in numbers : n <= last'[q]
          /\ last'[q] \in (IF numbers = {} THEN {0} ELSE numbers)
  /\ last' = [q \in Queues |-> last'[q]]
  /\ UNCHANGED <<tickets, called>>

Next ==
  \/ \E q \in Queues : Disband(q) \/ \E u \in Users : Join(q, u) \/ Leave(q, u)
  \/ \E t \in tickets : CallIn(t) \/ Announce(t)
  \/ Order \/ Amend \/ Forget

Spec == Init /\ [][Next]_vars
=============================================================================
