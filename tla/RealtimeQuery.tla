---------------------------- MODULE RealtimeQuery ----------------------------
(***************************************************************************)
(* Realtime queries: executeQuery reads the children of a collection,      *)
(* yields, and then has executeQueryRealtime follow the events of the      *)
(* collection; the user keeps a map of the matches by what he is told.     *)
(*                                                                         *)
(* A child is an object of which the filters read one property: its value. *)
(* The query asks for snapshots of all matches and monitors additions,     *)
(* changes and removals; sorting, "take" and "skip" are left out.  Events  *)
(* behave as in module Events: those with an object wait until their child *)
(* has been still for half a second, notify_child_removed does not wait.   *)
(* The timers of one child end in the order of its events; those of        *)
(* different children end in any order here, which nothing depends on.     *)
(***************************************************************************)
EXTENDS Naturals, Sequences

CONSTANTS
  Children,
  Values,
  Matching,        \* the values that pass the filters
  Null,            \* no child
  Queries,         \* on the same collection
  MaxWaiting       \* bound: delayed events about a child

ASSUME QueryAssumption ==
  /\ Matching \subseteq Values
  /\ Null \notin Values
  /\ MaxWaiting \in Nat

VARIABLES
  data,
  waiting,         \* by child: delayed events, in the order in which their timers end
  query

vars == <<data, waiting, query>>

Contents == [Children -> Values \cup {Null}]

\* overtaken: history, the child was removed while the event waited.
Event == [type : {"child_added", "child_changed"}, value : Values, overtaken : BOOLEAN]

\* stale: history, children whose last change the query has missed or may
\* hear of too late.
Query == [stage : {"off", "reading", "live"},
          read : Contents,
          matchedPaths : SUBSET Children,
          map : Contents,             \* the user's
          stale : SUBSET Children]

Nothing == [c \in Children |-> Null]
Off == [stage |-> "off", read |-> Nothing, matchedPaths |-> {}, map |-> Nothing, stale |-> {}]

Live(q) == query[q].stage = "live"

TypeOK ==
  /\ data \in Contents
  /\ waiting \in [Children -> Seq(Event)]
  /\ \A c \in Children : Len(waiting[c]) <= MaxWaiting
  /\ query \in [Queries -> Query]

Init ==
  /\ data = Nothing
  /\ waiting = [c \in Children |-> <<>>]
  /\ query = [q \in Queries |-> Off]

----------------------------------------------------------------------------
(***************************************************************************)
(* executeQuery: the read, and after some turns of the event loop the      *)
(* results and the subscriptions.  Nothing listens in between.             *)
(***************************************************************************)
Matches(contents) == {c \in Children : contents[c] \in Matching}

Read(q) ==
  /\ query[q].stage = "off"
  /\ query' = [query EXCEPT ![q] =
       [Off EXCEPT !.stage = "reading", !.read = data,
                   !.stale = {c \in Children : \E i \in DOMAIN waiting[c] : waiting[c][i].overtaken}]]
  /\ UNCHANGED <<data, waiting>>

Follow(q) ==
  /\ query[q].stage = "reading"
  /\ LET found == Matches(query[q].read)
     IN query' = [query EXCEPT
          ![q].stage = "live",
          ![q].read = Nothing,
          ![q].matchedPaths = found,
          ![q].map = [c \in Children |-> IF c \in found THEN query[q].read[c] ELSE Null]]
  /\ UNCHANGED <<data, waiting>>

\* stopMonitoring, by stop() or by a handler that returns false.
Stop(q) ==
  /\ Live(q)
  /\ query' = [query EXCEPT ![q] = Off]
  /\ UNCHANGED <<data, waiting>>

----------------------------------------------------------------------------
(***************************************************************************)
(* The callbacks.                                                          *)
(***************************************************************************)
Gains(x, c, v) == [x EXCEPT !.matchedPaths = @ \cup {c}, !.map[c] = v]
Loses(x, c) == [x EXCEPT !.matchedPaths = @ \ {c}, !.map[c] = Null]

ChildAdded(x, c, e) ==
  IF e.value \in Matching THEN Gains(x, c, e.value) ELSE x

ChildChanged_Keeps(x, c, e) ==
  IF e.value \in Matching THEN Gains(x, c, e.value) ELSE x

\* "change" for a match that was one, "add" for a new one, "remove" for one
\* that is none any more.
ChildChanged(x, c, e) ==
  CASE e.value \in Matching -> Gains(x, c, e.value)
    [] e.value \notin Matching /\ c \in x.matchedPaths -> Loses(x, c)
    [] OTHER -> x

Called(x, c, e) == IF e.type = "child_added" THEN ChildAdded(x, c, e) ELSE ChildChanged(x, c, e)

\* The timer that was restarted first ends; whoever listens now is called.
Deliver(c) ==
  /\ waiting[c] # <<>>
  /\ waiting' = [waiting EXCEPT ![c] = Tail(@)]
  /\ LET e == Head(waiting[c])
         good == e.type = "child_changed" /\ ~e.overtaken /\ Len(waiting[c]) = 1
         healed(x) == IF good THEN [x EXCEPT !.stale = @ \ {c}] ELSE x
     IN query' = [q \in Queries |->
                    IF Live(q) THEN healed(Called(query[q], c, e)) ELSE query[q]]
  /\ UNCHANGED data

----------------------------------------------------------------------------
(***************************************************************************)
(* A child is added, changed or removed: triggerAllEvents and trigger.     *)
(***************************************************************************)
Caused(old, new) ==
  IF new = Null \/ ~\E q \in Queries : Live(q) THEN <<>>
  ELSE <<[type |-> IF old = Null THEN "child_added" ELSE "child_changed",
          value |-> new, overtaken |-> FALSE]>>

Mutated_Frozen(e, old, new) ==
  IF new = Null THEN [e EXCEPT !.overtaken = TRUE] ELSE e

Mutated_Whole(e, old, new) == [e EXCEPT !.value = new]

\* What a delayed event makes of a later change: it takes in properties,
\* not that the child goes or comes.
Mutated(e, old, new) ==
  CASE new = Null -> [e EXCEPT !.overtaken = TRUE]
    [] new # Null /\ old # Null -> [e EXCEPT !.value = new]
    [] OTHER -> e

\* The timers of the events about c start again.
Restarted(c, old, new) == [i \in DOMAIN waiting[c] |-> Mutated(waiting[c][i], old, new)]

ChildRemoved(x, c) == Loses(x, c)

\* What a change means for a query before any event is delayed.
Noted(x, c, new) ==
  CASE x.stage = "reading" -> [x EXCEPT !.stale = @ \cup {c}]
    [] x.stage = "live" /\ new = Null ->
         [ChildRemoved(x, c) EXCEPT !.stale = IF waiting[c] = <<>> THEN @ \ {c} ELSE @ \cup {c}]
    [] OTHER -> x

Change(c, new) ==
  /\ data[c] # new
  /\ data' = [data EXCEPT ![c] = new]
  /\ waiting' = [waiting EXCEPT ![c] = Restarted(c, data[c], new) \o Caused(data[c], new)]
  /\ Len(waiting'[c]) <= MaxWaiting
  /\ query' = [q \in Queries |-> Noted(query[q], c, new)]

Next ==
  \/ \E q \in Queries : Read(q) \/ Follow(q) \/ Stop(q)
  \/ \E c \in Children : Deliver(c) \/ \E new \in Values \cup {Null} : Change(c, new)

Spec == Init /\ [][Next]_vars

\* The timers of delayed events end.
FairSpec == Spec /\ \A c \in Children : WF_vars(Deliver(c))

----------------------------------------------------------------------------
(***************************************************************************)
(* Once no event about a child waits, the map of a live query has the      *)
(* child exactly if it matches, with its current value.  Two kinds of      *)
(* change are missed: one between the read and the subscription, and a     *)
(* removal that overtakes an event still waiting; either is made good by   *)
(* the next undisturbed change or removal of the child.                    *)
(***************************************************************************)
Truth(c) == IF data[c] \in Matching THEN data[c] ELSE Null

InStep ==
  \A q \in Queries, c \in Children :
    Live(q) /\ waiting[c] = <<>> /\ c \notin query[q].stale => query[q].map[c] = Truth(c)

(***************************************************************************)
(* What a live query has not missed reaches its user: the map is right for *)
(* good about a child that is left alone for good, however often other     *)
(* children change and queries start and stop meanwhile.                   *)
(***************************************************************************)
Arrives ==
  \A q \in Queries, c \in Children :
    <>[][data'[c] = data[c]]_vars =>
      <>[](Live(q) /\ c \notin query[q].stale => query[q].map[c] = Truth(c))
=============================================================================
