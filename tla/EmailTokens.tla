----------------------------- MODULE EmailTokens -----------------------------
(***************************************************************************)
(* The life of the tokens AuthService sends by e-mail: the links that      *)
(* verify an address (requestEmailVerification, repeatEmailVerification)   *)
(* and those that reset a password (forgotPassword, resetPassword).  Both  *)
(* kinds live in a table of their own and are asked for in the same way:   *)
(* look for a token of the address, refuse when it is younger than a       *)
(* minute, delete it, create the new one, mail it, and set a timer of an   *)
(* hour that deletes it.  Timers are in the memory of the process.         *)
(* The checks of the user made before (registered or not) are left open.   *)
(***************************************************************************)
EXTENDS Integers

CONSTANTS
  Emails,       \* addresses
  Handlers,     \* requests that can be in progress at the same time
  Minute, Hour, \* ONE_MINUTE and HOUR in ticks
  RepeatAllowed,\* whether the table is the one repeatEmailVerification works on
  MailMayFail,  \* whether the mail server may refuse
  RepeatOnce,   \* bound for the checker: whether only one link is sent again
  MaxTokens,    \* bound for the checker: tokens ever created
  MaxTime       \* bound for the checker: ticks

ASSUME TokensAssumption ==
  /\ {Minute, Hour, MaxTokens, MaxTime} \subseteq Nat
  /\ Hour > 0
  /\ Minute <= Hour
  /\ {RepeatAllowed, MailMayFail, RepeatOnce} \subseteq BOOLEAN

VARIABLES
  now,          \* the clock
  tokens,       \* the table: rows with the columns token, email, createdAt
  nextId,       \* the next uuid
  timers,       \* the setTimeout callbacks that wait
  req,          \* the request each handler is serving
  mailed,       \* when the link of a token was mailed last (history)
  asked,        \* when the last link of an address that is not used yet was
                \* created (history)
  used,         \* how many times a token had its effect, 2 for more (history)
  events        \* what has happened so far of the things that matter (history)

vars == <<now, tokens, nextId, timers, req, mailed, asked, used, events>>

Ids == 1..MaxTokens
Never == -Hour - Minute \* before every time that matters
Time == Nat
Row == [id : Ids, email : Emails, createdAt : Time]
NoRow == [id |-> 0]
Timer == [id : Ids, due : Time]

Idle == [pc |-> "idle"]
Request ==
  {Idle}
  \cup [pc : {"find", "create"}, email : Emails, again : Row \cup {NoRow}]
  \cup [pc : {"drop"}, email : Emails, again : Row \cup {NoRow}, id : Ids]
  \cup [pc : {"mail", "set", "delete"}, id : Ids]

Init ==
  /\ now = 0
  /\ tokens = {}
  /\ nextId = 1
  /\ timers = {}
  /\ req = [h \in Handlers |-> Idle]
  /\ mailed = [i \in Ids |-> Never]
  /\ asked = [e \in Emails |-> Never]
  /\ used = [i \in Ids |-> 0]
  /\ events = {}

Go(h, r) == req' = [req EXCEPT ![h] = r]

\* A request begins, perhaps while another is in progress.
Begin(h, r, event) ==
  /\ req[h] = Idle
  /\ Go(h, r)
  /\ events' = events \cup event
       \cup (IF \E g \in Handlers : req[g] # Idle THEN {"cross"} ELSE {})

-----------------------------------------------------------------------------
(* Asking for a link                                                       *)

\* register and forgotPassword, up to their call of the token code.
Ask(h, e) ==
  /\ Begin(h, [pc |-> "find", email |-> e, again |-> NoRow], {})
  /\ UNCHANGED <<now, tokens, nextId, timers, mailed, asked, used>>

\* repeatEmailVerification hands over the row it found, token and createdAt
\* included: that row is what will be created again.
AskAgain(h, e) ==
  /\ RepeatAllowed
  /\ RepeatOnce => "repeat" \notin events
  /\ \E t \in tokens :
       t.email = e /\ Begin(h, [pc |-> "find", email |-> e, again |-> t], {"repeat"})
  /\ UNCHANGED <<now, tokens, nextId, timers, mailed, asked, used>>

\* Variant: the age of the token is not looked at.
NeverYoung(t) == FALSE

Young(t) == now - t.createdAt < Minute

Find(h) ==
  /\ req[h].pc = "find"
  /\ LET found == {t \in tokens : t.email = req[h].email} IN
     \/ found = {} /\ Go(h, [pc |-> "create", email |-> req[h].email,
                              again |-> req[h].again])
     \/ \E t \in found :
          IF Young(t) THEN Go(h, Idle)
          ELSE Go(h, [pc |-> "drop", email |-> req[h].email,
                      again |-> req[h].again, id |-> t.id])
  /\ UNCHANGED <<now, tokens, nextId, timers, mailed, asked, used, events>>

\* Variant: the old token stays.
Kept(id) == tokens

Without(id) == {t \in tokens : t.id # id}

Exists(id) == \E t \in tokens : t.id = id

\* delete throws when the row is gone.
Drop(h) ==
  /\ req[h].pc = "drop"
  /\ tokens' = Without(req[h].id)
  /\ Go(h, IF Exists(req[h].id)
           THEN [pc |-> "create", email |-> req[h].email, again |-> req[h].again]
           ELSE Idle)
  /\ UNCHANGED <<now, nextId, timers, mailed, asked, used, events>>

\* Variant: the row is dated when it will be deleted.
LateRow(e) == [id |-> nextId, email |-> e, createdAt |-> now + Hour]

NewRow(e) == [id |-> nextId, email |-> e, createdAt |-> now]

\* A row that is created again keeps its key, which may be taken by then.
Create(h) ==
  /\ req[h].pc = "create"
  /\ \/ /\ req[h].again = NoRow
        /\ nextId <= MaxTokens
        /\ tokens' = tokens \cup {NewRow(req[h].email)}
        /\ nextId' = nextId + 1
        /\ asked' = [asked EXCEPT ![req[h].email] = now]
        /\ Go(h, [pc |-> "mail", id |-> nextId])
     \/ /\ req[h].again # NoRow
        /\ ~Exists(req[h].again.id)
        /\ tokens' = tokens \cup {req[h].again}
        /\ asked' = [asked EXCEPT ![req[h].email] = now]
        /\ Go(h, [pc |-> "mail", id |-> req[h].again.id])
        /\ UNCHANGED nextId
     \/ /\ req[h].again # NoRow
        /\ Exists(req[h].again.id)
        /\ Go(h, Idle)
        /\ UNCHANGED <<tokens, nextId, asked>>
  /\ UNCHANGED <<now, timers, mailed, used, events>>

\* Variant: a minute less.
ShortDelay == Hour - Minute

\* Variant: a minute more.
LongDelay == Hour + Minute

Delay == Hour

\* The timer is set after the mail: a refused mail leaves a token without one.
Mail(h) ==
  /\ req[h].pc = "mail"
  /\ \/ /\ mailed' = [mailed EXCEPT ![req[h].id] = now]
        /\ timers' = timers \cup {[id |-> req[h].id, due |-> now + Delay]}
     \/ MailMayFail /\ UNCHANGED <<mailed, timers>>
  /\ Go(h, Idle)
  /\ UNCHANGED <<now, tokens, nextId, asked, used, events>>

-----------------------------------------------------------------------------
(* Using a link: resetPassword sets the password, then deletes the token;   *)
(* verifyEmail creates the account, or refuses to, and does the same; or it *)
(* throws in between, when the group has no captain or the bot refuses the  *)
(* message, and the account is there and so is the link.                    *)

BeginUse(h, id) ==
  /\ Exists(id)
  /\ mailed[id] # Never
  /\ Begin(h, [pc |-> "set", id |-> id], {})
  /\ UNCHANGED <<now, tokens, nextId, timers, mailed, asked, used>>

Effect(id) == used' = [used EXCEPT ![id] = IF @ = 0 THEN 1 ELSE 2]

SetPassword(h) ==
  /\ req[h].pc = "set"
  /\ \/ Effect(req[h].id) /\ Go(h, [pc |-> "delete", id |-> req[h].id]) /\ UNCHANGED events
     \/ RepeatAllowed /\ Go(h, Idle) /\ UNCHANGED <<used, events>>
     \/ /\ RepeatAllowed
        /\ Effect(req[h].id) /\ Go(h, Idle) /\ events' = events \cup {"thrown"}
  /\ UNCHANGED <<now, tokens, nextId, timers, mailed, asked>>

AfterUse(id) == Without(id)

Delete(h) ==
  /\ req[h].pc = "delete"
  /\ tokens' = AfterUse(req[h].id)
  /\ asked' = [e \in Emails |->
       IF \E t \in tokens : t.id = req[h].id /\ t.email = e THEN Never ELSE asked[e]]
  /\ Go(h, Idle)
  /\ UNCHANGED <<now, nextId, timers, mailed, used, events>>

-----------------------------------------------------------------------------
(* Time.  A timer runs when it is due; the event loop is never so late that *)
(* a tick passes.                                                           *)

Fire(t) ==
  /\ t.due <= now
  /\ timers' = timers \ {t}
  /\ tokens' = Without(t.id)
  /\ UNCHANGED <<now, nextId, req, mailed, asked, used, events>>

Tick ==
  /\ now < MaxTime
  /\ \A t \in timers : t.due > now
  /\ now' = now + 1
  /\ UNCHANGED <<tokens, nextId, timers, req, mailed, asked, used, events>>

Restart ==
  /\ events' = events \cup {"restart"}
  /\ timers' = {}
  /\ req' = [h \in Handlers |-> Idle]
  /\ UNCHANGED <<now, tokens, nextId, mailed, asked, used>>

Next ==
  \/ \E h \in Handlers :
       \/ \E e \in Emails : Ask(h, e) \/ AskAgain(h, e)
       \/ Find(h) \/ Drop(h) \/ Create(h) \/ Mail(h)
       \/ \E id \in Ids : BeginUse(h, id)
       \/ SetPassword(h) \/ Delete(h)
  \/ \E t \in timers : Fire(t)
  \/ Tick
  \/ Restart

Spec == Init /\ [][Next]_vars

-----------------------------------------------------------------------------
(* Properties                                                              *)

\* The types of the variables.
Types ==
  /\ now \in Time
  /\ tokens \subseteq Row
  /\ nextId \in 1..MaxTokens + 1
  /\ timers \subseteq Timer
  /\ req \in [Handlers -> Request]
  /\ mailed \in [Ids -> Time \cup {Never}]
  /\ asked \in [Emails -> Time \cup {Never}]
  /\ used \in [Ids -> 0..2]
  /\ events \subseteq {"cross", "repeat", "restart", "thrown"}

\* No row is from the future, in the table or on its way back to it.
Past ==
  /\ \A t \in tokens : t.createdAt <= now
  /\ \A h \in Handlers :
       req[h].pc \in {"find", "drop", "create"} =>
         req[h].again = NoRow \/ req[h].again.createdAt <= now

\* The type invariant.
TypeOK == Types /\ Past

\* "The link is valid for an hour": once mailed it is not valid for longer.
NoneLate == \A t \in tokens : mailed[t.id] # Never => now <= mailed[t.id] + Hour

\* So it is if the process keeps its timers and no link is sent again.
LinkDies == {"repeat", "restart"} \cap events = {} => NoneLate

\* "The link is valid for an hour": a mailed link goes earlier only when it is
\* used or a newer one is asked for, if no link is sent again.
LinkLives ==
  [][\A t \in tokens : t \notin tokens' /\ mailed[t.id] # Never /\ "repeat" \notin events =>
       \/ now >= mailed[t.id] + Hour
       \/ \E h \in Handlers : req[h].pc \in {"drop", "delete"} /\ req[h].id = t.id]_vars

\* Why links live for an hour when nothing is sent again: a mailed link that is in
\* the table has its timer unless the process has restarted, every timer is an hour
\* after its mail and not late, and a link is mailed once.
Timed ==
  /\ \A i \in Ids : i >= nextId => mailed[i] = Never
  /\ \A t \in tokens :
       mailed[t.id] # Never /\ "restart" \notin events => \E r \in timers : r.id = t.id
  /\ \A r \in timers :
       mailed[r.id] # Never /\ r.due = mailed[r.id] + Hour /\ now <= r.due
  /\ \A h \in Handlers : req[h].pc = "mail" =>
       mailed[req[h].id] = Never /\ req[h].id < nextId
  /\ \A g, h \in Handlers :
       req[g].pc = "mail" /\ req[h].pc = "mail" /\ req[g].id = req[h].id => g = h
  /\ \A t \in tokens : t.id < nextId
  /\ \A h \in Handlers : req[h].pc \in {"find", "drop", "create"} => req[h].again = NoRow

TimedInv == "repeat" \notin events => Timed

\* An address has one token at most, unless two requests have crossed.
OneLink ==
  "cross" \notin events => \A s, t \in tokens : s.email = t.email => s = t

\* An address gets a second link in the same minute only when the first was used
\* ("Too many actions. Try later"), unless requests cross or a link is sent again.
RateLimit ==
  [][\A h \in Handlers :
       /\ req[h].pc = "create" /\ req'[h].pc = "mail"
       /\ {"cross", "repeat"} \cap events = {}
       => now - asked[req[h].email] >= Minute]_vars

\* A link has its effect once, unless requests cross or the use of a link ends
\* between its effect and the deletion of its row: by a crash, or in verifyEmail by an
\* exception of what follows the account.
OneUse ==
  {"cross", "restart", "thrown"} \cap events = {} => \A i \in Ids : used[i] <= 1
=============================================================================
