---------------------------- MODULE MongoStorage ----------------------------
(***************************************************************************)
(* The MongoDB backend: a map of pending nodes in memory over a collection *)
(* on another machine.  setNode puts the node into the map while its       *)
(* statement runs; a refused statement leaves an entry that resolvePending *)
(* sends again five seconds later, over and over.                          *)
(***************************************************************************)
EXTENDS Naturals, FiniteSets

CONSTANTS
  Keys,          \* a key is a database and a path in it
  Last,          \* databases are numbered from 1 in the order of the options
  DatabaseOf,
  Branch,        \* Branch[k]: k and the keys below it
  Matched,       \* Matched[k]: what the expression of a removal of k matches
  Contents,
  None,          \* no row
  MaxCalls       \* bound: calls of setNode and removeNode by the engine

ASSUME MongoAssumption ==
  /\ Last \in Nat \ {0}
  /\ DatabaseOf \in [Keys -> 1..Last]
  /\ Branch \in [Keys -> SUBSET Keys]
  /\ Matched \in [Keys -> SUBSET Keys]
  /\ \A k \in Keys : k \in Branch[k]
  /\ \A k \in Keys : \A n \in Branch[k] \cup Matched[k] : DatabaseOf[n] = DatabaseOf[k]
  /\ None \notin Contents
  /\ MaxCalls \in Nat

VARIABLES
  collection,    \* the rows of MongoDB
  pending,       \* the map over them
  ops,           \* statements under way
  connected,     \* isConnected
  timer,         \* the timer of resolvePending, and whether it resolves all
  resolver,      \* its callback: the database it is at, 0 when it does not run
  made,          \* calls so far
  last,          \* history: the content of the latest call, by key
  raced,         \* history: keys with two statements at a time, or with a
                 \* removal that was forgotten
  strayed        \* history: keys that a removal takes or leaves by mistake

vars == <<collection, pending, ops, connected, timer, resolver, made, last, raced, strayed>>

\* "sent": the node of a running statement; "set" and "delete": a refused
\* one, whose refresh flag is on.
\* That of a removal holds what was to be removed.
Entry == [type : {"none", "sent", "set", "delete"}, content : Contents \cup {None}]
NoEntry == [type |-> "none", content |-> None]

\* by: 0 for resolvePending.
Op == [by : 0..MaxCalls, key : Keys, type : {"sent", "set", "delete"},
       content : Contents \cup {None}, stored : BOOLEAN]

TypeOK ==
  /\ collection \in [Keys -> Contents \cup {None}]
  /\ pending \in [Keys -> Entry]
  /\ ops \subseteq Op
  /\ connected \in BOOLEAN
  /\ timer \in {"off", "refused", "all"}
  /\ resolver \in [at : 0..Last, all : BOOLEAN, seen : SUBSET Keys, left : BOOLEAN]
  /\ made \in 0..MaxCalls
  /\ last \in [Keys -> Contents \cup {None}]
  /\ raced \subseteq Keys
  /\ strayed \subseteq Keys

Idle == [at |-> 0, all |-> FALSE, seen |-> {}, left |-> FALSE]

\* connect() has come to its end.
Init ==
  /\ collection = [k \in Keys |-> None]
  /\ pending = [k \in Keys |-> NoEntry]
  /\ ops = {}
  /\ connected = TRUE
  /\ timer = "all"
  /\ resolver = Idle
  /\ made = 0
  /\ last = collection
  /\ raced = {}
  /\ strayed = {}

Related(k) == {n \in Keys : n \in Branch[k] \/ k \in Branch[n]}

\* A statement on k now shares its keys with another one, running or to be
\* sent again.
Races(k) ==
  {n \in Related(k) : \/ \E o \in ops : o.key \in Related(k)
                      \/ \E m \in Related(k) \ {k} : pending[m].type # "none"}

\* A refused removal whose key is set again is not sent again: what else it
\* was to remove stays.
Forgotten(k) == IF pending[k].type = "delete" THEN Branch[k] \ {k} ELSE {}

\* Keys the expression takes for the branch below k, or misses.
Amiss(k) == (Matched[k] \ Branch[k]) \cup (Branch[k] \ Matched[k])

\* What getMultiple returns for a key.
View(k) == IF pending[k].type = "none" THEN collection[k] ELSE pending[k].content

----------------------------------------------------------------------------
\* setNode and removeNode up to the await: only setNode touches the map.
Send(by, k, type, content) ==
  /\ pending' = IF type = "delete" THEN pending
                ELSE [pending EXCEPT ![k] = [type |-> type, content |-> content]]
  /\ ops' = ops \cup {[by |-> by, key |-> k, type |-> type, content |-> content,
                       stored |-> FALSE]}

\* A call by the storage engine.
SetNode(k, c) ==
  /\ connected
  /\ made < MaxCalls
  /\ made' = made + 1
  /\ Send(made + 1, k, "sent", c)
  /\ last' = [last EXCEPT ![k] = c]
  /\ raced' = raced \cup Races(k) \cup Forgotten(k)
  /\ UNCHANGED <<collection, connected, timer, resolver, strayed>>

\* Removals come with the content that the engine has read.
RemoveNode(k) ==
  /\ connected
  /\ made < MaxCalls
  /\ View(k) # None
  /\ made' = made + 1
  /\ Send(made + 1, k, "delete", View(k))
  /\ last' = [n \in Keys |-> IF n \in Branch[k] THEN None ELSE last[n]]
  /\ raced' = raced \cup Races(k)
  /\ strayed' = strayed \cup Amiss(k)
  /\ UNCHANGED <<collection, connected, timer, resolver>>

\* The server executes a statement: updateOne, or deleteMany by an expression
\* that has no anchor at its end and takes [ and ] of the path for a class of
\* characters: that of "a" matches "ab" too, that of "b[0]" does not match
\* "b[0]".
Store(o) ==
  /\ o \in ops
  /\ ~o.stored
  /\ ops' = (ops \ {o}) \cup {[o EXCEPT !.stored = TRUE]}
  /\ collection' =
       IF o.type = "delete"
         THEN [n \in Keys |-> IF n \in Matched[o.key] THEN None ELSE collection[n]]
         ELSE [collection EXCEPT ![o.key] = o.content]
  /\ UNCHANGED <<pending, connected, timer, resolver, made, last, raced, strayed>>

\* The answer: whatever entry the key has by now goes.
Answer(o) ==
  /\ o \in ops
  /\ o.stored
  /\ ops' = ops \ {o}
  /\ pending' = [pending EXCEPT ![o.key] = NoEntry]
  /\ resolver' = [resolver EXCEPT !.seen = @ \ {o.key}]
  /\ UNCHANGED <<collection, connected, timer, made, last, raced, strayed>>

\* resolvePending: nothing while its callback runs.
Scheduled(all) ==
  timer' = IF resolver.at # 0 THEN timer ELSE IF all THEN "all" ELSE "refused"

Refuse_Forgets(o) ==
  /\ o \in ops
  /\ ops' = ops \ {o}
  /\ pending' = [pending EXCEPT ![o.key] = NoEntry]
  /\ Scheduled(FALSE)
  /\ UNCHANGED <<collection, connected, resolver, made, last, raced, strayed>>

Refuse_Unscheduled(o) ==
  /\ o \in ops
  /\ ops' = ops \ {o}
  /\ pending' = [pending EXCEPT ![o.key] =
                   [type |-> IF o.type = "delete" THEN "delete" ELSE "set", content |-> o.content]]
  /\ UNCHANGED <<collection, connected, timer, resolver, made, last, raced, strayed>>

\* An error, after the execution too when the answer is lost.
Refuse(o) ==
  /\ o \in ops
  /\ ops' = ops \ {o}
  /\ pending' = [pending EXCEPT ![o.key] =
                   [type |-> IF o.type = "delete" THEN "delete" ELSE "set", content |-> o.content]]
  /\ Scheduled(FALSE)
  /\ UNCHANGED <<collection, connected, resolver, made, last, raced, strayed>>

----------------------------------------------------------------------------
\* The timer of resolvePending.
Fire ==
  /\ timer # "off"
  /\ timer' = "off"
  /\ resolver' = [at |-> 1, all |-> timer = "all", seen |-> {}, left |-> FALSE]
  /\ UNCHANGED <<collection, pending, ops, connected, made, last, raced, strayed>>

\* The callback is at k, with no statement of its own under way.
AtEntry(k) ==
  /\ resolver.at = DatabaseOf[k]
  /\ \A o \in ops : o.by # 0
  /\ pending[k].type # "none"
  /\ k \notin resolver.seen

ToSend(k) == pending[k].type \in {"set", "delete"} \/ (resolver.all /\ pending[k].type = "sent")

Skip(k) ==
  /\ AtEntry(k)
  /\ ~ToSend(k)
  /\ resolver' = [resolver EXCEPT !.seen = @ \cup {k}]
  /\ UNCHANGED <<collection, pending, ops, connected, timer, made, last, raced, strayed>>

Resend(k) ==
  /\ AtEntry(k)
  /\ ToSend(k)
  /\ connected
  /\ Send(0, k, pending[k].type, pending[k].content)
  /\ resolver' = [resolver EXCEPT !.seen = @ \cup {k}]
  /\ raced' = raced \cup Races(k)
  /\ UNCHANGED <<collection, connected, timer, made, last, strayed>>

Leave_Beyond ==
  LET d == resolver.at
      left == resolver.left \/ \E k \in Keys : DatabaseOf[k] = d /\ ToSend(k)
  IN /\ d # 0
     /\ \A o \in ops : o.by # 0
     /\ \A k \in Keys : ~AtEntry(k)
     /\ IF d <= Last
          THEN /\ resolver' = [resolver EXCEPT !.at = d + 1, !.left = left]
               /\ UNCHANGED timer
          ELSE /\ resolver' = Idle
               /\ timer' = IF left THEN "refused" ELSE timer
     /\ UNCHANGED <<collection, pending, ops, connected, made, last, raced, strayed>>

Leave_Once ==
  LET d == resolver.at
      left == resolver.left \/ \E k \in Keys : DatabaseOf[k] = d /\ ToSend(k)
  IN /\ d # 0
     /\ \A o \in ops : o.by # 0
     /\ \A k \in Keys : ~AtEntry(k)
     /\ resolver' = IF d < Last THEN [resolver EXCEPT !.at = d + 1, !.left = left] ELSE Idle
     /\ UNCHANGED <<collection, pending, ops, connected, timer, made, last, raced, strayed>>

\* The end of the loop over a database, and after the last of them of the
\* callback, which schedules itself again for what is left.
Leave ==
  LET d == resolver.at
      left == resolver.left \/ \E k \in Keys : DatabaseOf[k] = d /\ ToSend(k)
  IN /\ d # 0
     /\ \A o \in ops : o.by # 0
     /\ \A k \in Keys : ~AtEntry(k)
     /\ IF d < Last
          THEN /\ resolver' = [resolver EXCEPT !.at = d + 1, !.left = left]
               /\ UNCHANGED timer
          ELSE /\ resolver' = Idle
               /\ timer' = IF left THEN "refused" ELSE timer
     /\ UNCHANGED <<collection, pending, ops, connected, made, last, raced, strayed>>

----------------------------------------------------------------------------
\* "disconnected"
Disconnect ==
  /\ connected
  /\ connected' = FALSE
  /\ UNCHANGED <<collection, pending, ops, timer, resolver, made, last, raced, strayed>>

\* Ten seconds later.
Connect ==
  /\ ~connected
  /\ connected' = TRUE
  /\ Scheduled(TRUE)
  /\ UNCHANGED <<collection, pending, ops, resolver, made, last, raced, strayed>>

\* setNode throws within the callback: nobody catches it and the process
\* ends.  A new one begins with an empty map.
Die ==
  /\ \E k \in Keys : AtEntry(k) /\ ToSend(k)
  /\ ~connected
  /\ pending' = [k \in Keys |-> NoEntry]
  /\ ops' = {}
  /\ connected' = TRUE
  /\ timer' = "all"
  /\ resolver' = Idle
  /\ last' = collection
  /\ raced' = {}
  /\ strayed' = {}
  /\ UNCHANGED <<collection, made>>

Next ==
  \/ \E k \in Keys : RemoveNode(k) \/ \E c \in Contents : SetNode(k, c)
  \/ \E o \in ops : Store(o) \/ Answer(o) \/ Refuse(o)
  \/ Fire
  \/ \E k \in Keys : Skip(k) \/ Resend(k)
  \/ Leave
  \/ Disconnect \/ Connect \/ Die

Spec == Init /\ [][Next]_vars

\* Statements end, timers fire, a lost connection comes back.
FairSpec ==
  /\ Spec
  /\ WF_vars(\E o \in ops : Store(o) \/ Answer(o))
  /\ WF_vars(\E o \in ops : Store(o) \/ Answer(o) \/ Refuse(o))
  /\ WF_vars(Fire)
  /\ WF_vars(Leave \/ \E k \in Keys : Skip(k) \/ Resend(k))
  /\ WF_vars(Connect)

----------------------------------------------------------------------------
(***************************************************************************)
(* Refused statements, retries and lost answers are invisible to readers   *)
(* of a key that has one statement at a time: they see the latest call,    *)
(* unless that is a removal under way or refused, which reads do not show. *)
(* What breaks it is a second statement meanwhile, a refused removal of a  *)
(* branch whose root is set again before the retry, and the expression of  *)
(* a removal, which takes keys that only begin like the branch and misses  *)
(* the elements of arrays.                                                 *)
(***************************************************************************)
Removing(k) ==
  \/ \E o \in ops : o.type = "delete" /\ k \in Branch[o.key]
  \/ \E n \in Keys : pending[n].type = "delete" /\ k \in Branch[n]

ReadsSeeLatest ==
  \A k \in Keys \ (raced \cup strayed) :
    View(k) = last[k] \/ (last[k] = None /\ Removing(k))

(***************************************************************************)
(* A refused statement of the last database always has a retry ahead.  For *)
(* the others that fails: one refused while the callback is at a later     *)
(* database is neither counted by it nor scheduled.                        *)
(***************************************************************************)
Refused(k) == pending[k].type \in {"set", "delete"}

RetryAhead == \A k \in Keys : DatabaseOf[k] = Last /\ Refused(k) => timer # "off" \/ resolver.at # 0

(***************************************************************************)
(* When refusals and disconnections end, the last database gets every      *)
(* refused statement in the end.                                           *)
(***************************************************************************)
Refusals == \E o \in ops : Refuse(o)

Drains ==
  \/ []<><<Refusals>>_vars
  \/ []<><<Disconnect>>_vars
  \/ []<>(\A k \in Keys : DatabaseOf[k] = Last => pending[k].type = "none")
=============================================================================
