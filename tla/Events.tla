------------------------------- MODULE Events -------------------------------
(***************************************************************************)
(* Events of a database: which subscriptions a change of a record fires,   *)
(* and with what.  Events with an object wait until the data has been      *)
(* still for half a second and take in the mutations of that time; all     *)
(* others are delivered at once.  Subscriptions come and go.               *)
(*                                                                         *)
(* A subscription names a path without wildcards; notify_ events, which    *)
(* go with the events they are named for but carry no value, are left out. *)
(* Of an object the inline properties are modelled, not the records below. *)
(***************************************************************************)
EXTENDS Naturals, Sequences, FiniteSets, SequencesExt, Functions

CONSTANTS
  Keys,
  Records,         \* paths of the records that change
  Properties,      \* the keys a record holds inline
  Values,
  Null,
  Subscriptions,   \* those that may be made: of a type to a path
  MaxWaiting       \* bound: delayed events

Contents == [Properties -> Values \cup {Null}]
Rows == Contents \cup {Null}
Leaves == {Append(p, k) : p \in Records, k \in Properties}
Types == {"value", "child_added", "child_changed", "child_removed", "mutated"}

\* What has children is a record; a property has a value of its own or is a
\* record, and values have no children.
ASSUME EventsAssumption ==
  /\ Properties \subseteq Keys
  /\ Records \subseteq Seq(Keys)
  /\ \A p \in Records : \A n \in 0..Len(p) : SubSeq(p, 1, n) \in Records
  /\ \A p \in Records, l \in Leaves : ~IsPrefix(l, p)
  /\ Null \notin Values \cup Contents
  /\ Values \cap Contents = {}
  /\ Subscriptions \subseteq [path : Seq(Keys), type : Types]
  /\ IsFiniteSet(Subscriptions)
  /\ MaxWaiting \in Nat

VARIABLES
  record,       \* the data
  subscribed,   \* the subscriptions there are
  waiting,      \* delayed events, in the order in which their timers end
  shown,        \* by subscription to "value": the last event delivered
  mirror,       \* by subscription to "mutated": the copy its callback keeps
  lost          \* history: by the same, the records the copy cannot follow

vars == <<record, subscribed, waiting, shown, mirror, lost>>

Viewers == {s \in Subscriptions : s.type = "value"}
Mirrors == {s \in Subscriptions : s.type = "mutated"}
Paths == Records \cup Leaves \cup {s.path : s \in Subscriptions}
Leaf(rows, l) == IF rows[Front(l)] = Null THEN Null ELSE rows[Front(l)][Last(l)]
Data(rows, q) ==
  IF q \in Records THEN rows[q] ELSE IF q \in Leaves THEN Leaf(rows, q) ELSE Null

\* astray: history, the record was removed while the event waited, or a
\* change of its data was taken from another path.
Event == [sub : Subscriptions, path : Paths, new : Rows \cup Values, astray : BOOLEAN]
LateEvent == [sub : Subscriptions, path : Records, new : Contents, astray : BOOLEAN]

TypeOK ==
  /\ record \in [Records -> Rows]
  /\ subscribed \subseteq Subscriptions
  /\ waiting \in Seq(LateEvent)
  /\ DOMAIN shown = Viewers
  /\ \A s \in Viewers : \A e \in shown[s] : e \in Event
  /\ mirror \in [Mirrors -> [Records -> Rows]]
  /\ lost \in [Mirrors -> SUBSET Records]

Init ==
  /\ record = [p \in Records |-> Null]
  /\ subscribed = {}
  /\ waiting = <<>>
  /\ shown = [s \in Viewers |-> {}]
  /\ mirror = [s \in Mirrors |-> [p \in Records |-> Null]]
  /\ lost = [s \in Mirrors |-> {}]

----------------------------------------------------------------------------
(***************************************************************************)
(* The selection: getAllSubscribersForPath, getValueSubscribersForPath and *)
(* getUpdateImpact for a change of the record at p.                        *)
(***************************************************************************)
Below(p, q) == IsStrictPrefix(q, p)
OnTrail(p, q) == IsPrefix(p, q) \/ IsPrefix(q, p)
ChildOnTrail(s, p) == SubSeq(p, 1, Len(s) + 1)

\* A delayed event listens to the mutations of its data.
Listeners ==
  subscribed \cup {[path |-> waiting[i].path, type |-> "mutated"] : i \in DOMAIN waiting}

\* Where the data is that s needs before a change of p; {} when it needs none.
NeededFrom(s, p) ==
  IF ~IsPrefix(s.path, p) THEN {}
  ELSE CASE s.type = "value" -> {s.path}
         [] s.type = "mutated" -> IF Below(p, s.path) THEN {p} ELSE {}
         [] s.type = "child_changed" -> IF p # s.path THEN {ChildOnTrail(s.path, p)} ELSE {}
         [] OTHER -> IF Len(p) = Len(s.path) + 1 THEN {p} ELSE {}

\* getUpdateImpact: the shallowest of those paths.  Below, "top" is this path
\* for the change of a record at p: old and new are taken for the values
\* there, and are misplaced when a subscription above the record moved it up.
TopEventPath(p) ==
  LET needed == UNION {NeededFrom(s, p) : s \in Listeners}
  IN IF needed = {} THEN p ELSE CHOOSE q \in needed : \A n \in needed : Len(q) <= Len(n)

\* The data an event of s is about: at s.path, or at a child of it, all
\* children for a change at s.path or above.
DataPaths(s, p) ==
  CASE ~OnTrail(p, s.path) -> {}
    [] OnTrail(p, s.path) /\ s.type = "value" -> {s.path}
    [] OnTrail(p, s.path) /\ s.type # "value" ->
         IF IsPrefix(p, s.path) THEN {Append(s.path, k) : k \in Properties}
         ELSE IF s.type = "child_changed" \/ Len(p) = Len(s.path) + 1
                THEN {ChildOnTrail(s.path, p)} ELSE {}

\* The keys that lead from p to q.
Trail(p, q) == SubSeq(q, Len(p) + 1, Len(q))

\* getChildValues along a trail of keys: an object has its properties, and
\* nothing else has children.
Descend(v, trail) ==
  IF trail = <<>> THEN v
  ELSE IF v \in Contents /\ Len(trail) = 1 /\ Head(trail) \in Properties THEN v[Head(trail)]
  ELSE Null

Fires_WithValue(s, old, new) ==
  CASE s.type \in {"value", "child_added"} -> old # new /\ new # Null
    [] s.type = "child_changed" -> old # Null /\ new # Null /\ old # new
    [] s.type = "child_removed" -> old # Null /\ new = Null

\* callSubscriberWithValues: whether s is called.
Fires(s, old, new) ==
  CASE s.type = "value" -> old # new
    [] s.type = "child_changed" -> old # Null /\ new # Null /\ old # new
    [] s.type = "child_added" -> old = Null /\ new # Null
    [] s.type = "child_removed" -> old # Null /\ new = Null

\* The events of a change, without "mutated".
Triggered(p, top, old, new) ==
  LET plain == {s \in subscribed : s.type # "mutated"}
  IN UNION {{[sub |-> s, path |-> q, new |-> Descend(new, Trail(top, q)), astray |-> top # p] :
               q \in {d \in DataPaths(s, p) :
                        Fires(s, Descend(old, Trail(top, d)), Descend(new, Trail(top, d)))}} :
            s \in plain}

----------------------------------------------------------------------------
(***************************************************************************)
(* "mutated": prepareMutationEvents lists the properties that differ, or   *)
(* the node itself when it comes, goes or changes its kind.                *)
(***************************************************************************)
Batch_Kept(q, old, new) ==
  IF old = new THEN {}
  ELSE IF old \in Contents /\ new \in Contents
    THEN {[path |-> Append(q, k), new |-> new[k]] :
            k \in {k \in Properties : old[k] # new[k] /\ new[k] # Null}}
    ELSE {[path |-> q, new |-> new]}

Batch(q, old, new) ==
  IF old = new THEN {}
  ELSE IF old \in Contents /\ new \in Contents
    THEN {[path |-> Append(q, k), new |-> new[k]] : k \in {k \in Properties : old[k] # new[k]}}
    ELSE {[path |-> q, new |-> new]}

\* The mutations that listeners at q hear of.
Mutations(q, p, top, old, new) ==
  LET trail == Trail(top, q)
  IN IF OnTrail(p, q) /\ [path |-> q, type |-> "mutated"] \in Listeners
       THEN Batch(top \o trail, Descend(old, trail), Descend(new, trail))
       ELSE {}

\* Objects lead from the root of a copy to q.
Followed(root, copy, q) ==
  \A r \in Records : IsPrefix(root, r) /\ IsStrictPrefix(r, q) => copy[r] # Null

\* What get returns of the node at root.
Copied(root, rows) ==
  [q \in Records |-> IF IsPrefix(root, q) /\ Followed(root, rows, q) THEN rows[q] ELSE Null]

\* The copy of the node at root after some mutations, kept as documented:
\* the callback goes from the copy to the object that has the property and
\* sets or deletes it, and throws where there is no such object.  For a
\* mutation of the node itself the property has the empty name, which is
\* none of the data.
Applied(root, copy, batch) ==
  LET reached == {m \in batch : m.path # root /\ Followed(root, copy, m.path)}
      changed(q) == {k \in Properties : \E m \in reached : m.path = Append(q, k)}
  IN [q \in Records |->
        IF \E m \in reached : IsPrefix(m.path, q)
          THEN LET m == CHOOSE m \in reached : IsPrefix(m.path, q)
               IN Descend(m.new, Trail(m.path, q))
        ELSE IF changed(q) = {} THEN copy[q]
        ELSE [k \in Properties |->
                IF k \in changed(q)
                  THEN (CHOOSE m \in reached : m.path = Append(q, k)).new ELSE copy[q][k]]]

\* The records a copy has lost after a change: all there when the change is
\* taken from another path; the record itself when the copy has no object to
\* put it in or when it is the node of the copy that comes or goes; those
\* below a record that is put in place whole.
Forsaken(s, p, top, old, new) ==
  LET whole == old = Null \/ new = Null
      found == Followed(s.path, mirror[s], p)
  IN CASE top # p -> lost[s] \cup {r \in Records : IsPrefix(top, r)}
       [] top = p /\ (~found \/ (whole /\ p = s.path)) -> lost[s] \cup {p}
       [] top = p /\ found /\ whole /\ p # s.path ->
            {r \in Records : IF IsPrefix(p, r) THEN r # p /\ record[r] # Null ELSE r \in lost[s]}
       [] top = p /\ found /\ ~whole -> lost[s]

\* What a delayed event at q takes in: mutations of properties.
Merged_Late(w, batch) == w

Merged_Whole(w, batch) == [w EXCEPT !.new = (CHOOSE m \in batch : TRUE).new]

Merged(w, batch) ==
  [w EXCEPT !.new = [k \in Properties |->
     IF \E m \in batch : m.path = Append(w.path, k)
       THEN (CHOOSE m \in batch : m.path = Append(w.path, k)).new ELSE @[k]]]

----------------------------------------------------------------------------
(***************************************************************************)
(* triggerAllEvents and trigger.                                           *)
(***************************************************************************)
Delayed(e) == e.new \in Contents

\* Deeper data first; the order of subscriptions to the same data is open.
InOrder(events) ==
  {q \in SetToSeqs(events) :
     \A i, j \in DOMAIN q : i < j => Len(q[i].path) >= Len(q[j].path)}

\* What a change makes of a delayed event: it takes in the mutations it
\* hears of.
Updated(w, p, top, old, new) ==
  LET batch == Mutations(w.path, p, top, old, new)
      merged == IF batch = {} THEN w ELSE Merged(w, batch)
      strays == \/ new = Null /\ w.path = p
                \/ top # p /\ OnTrail(p, w.path)
  IN [merged EXCEPT !.astray = @ \/ strays]

\* Every mutation restarts the timers of the events that listen to it: they
\* go behind the others.
Restarted(queue, p, top, old, new) ==
  LET moved == {i \in DOMAIN queue : Mutations(queue[i].path, p, top, old, new) # {}}
      before(i, j) == IF i \in moved <=> j \in moved THEN i < j ELSE j \in moved
      turns == {f \in Bijection(DOMAIN queue, DOMAIN queue) :
                  \A i, j \in DOMAIN queue : i < j => before(f[i], f[j])}
  IN {[i \in DOMAIN queue |-> Updated(queue[turn[i]], p, top, old, new)] : turn \in turns}

\* A record is added, changed or removed.
Change(p, new) ==
  /\ record[p] # new
  /\ record' = [record EXCEPT ![p] = new]
  /\ LET old == record[p]
         top == TopEventPath(p)
         events == Triggered(p, top, old, new)
     IN /\ \E late \in InOrder({e \in events : Delayed(e)}) :
             /\ Len(waiting \o late) <= MaxWaiting
             /\ waiting' \in Restarted(waiting \o late, p, top, old, new)
        /\ shown' = [s \in Viewers |->
                       LET now == {e \in events : e.sub = s /\ ~Delayed(e)}
                           strays == top # p /\ OnTrail(p, s.path)
                       IN IF now # {} THEN now
                          ELSE {[e EXCEPT !.astray = @ \/ strays] : e \in shown[s]}]
        /\ mirror' = [s \in Mirrors |->
                        IF s \in subscribed
                          THEN Applied(s.path, mirror[s], Mutations(s.path, p, top, old, new))
                          ELSE mirror[s]]
        /\ lost' = [s \in Mirrors |->
                      IF s \in subscribed /\ IsPrefix(s.path, p) THEN Forsaken(s, p, top, old, new)
                      ELSE lost[s]]
  /\ UNCHANGED subscribed

\* The timer that was restarted first ends: who is subscribed now is called.
Deliver ==
  /\ waiting # <<>>
  /\ waiting' = Tail(waiting)
  /\ shown' = [s \in Viewers |->
                 IF s = Head(waiting).sub /\ s \in subscribed THEN {Head(waiting)} ELSE shown[s]]
  /\ UNCHANGED <<record, subscribed, mirror, lost>>

\* add.  Who keeps a copy gets the node first.
Subscribe(s) ==
  /\ s \notin subscribed
  /\ subscribed' = subscribed \cup {s}
  /\ IF s \in Mirrors
       THEN LET copy == Copied(s.path, record)
            IN /\ mirror' = [mirror EXCEPT ![s] = copy]
               /\ lost' = [lost EXCEPT ![s] = {q \in Records : copy[q] # record[q]}]
       ELSE UNCHANGED <<mirror, lost>>
  /\ UNCHANGED <<record, waiting, shown>>

\* remove.  What was shown and the copy are of no use any more.
Unsubscribe(s) ==
  /\ s \in subscribed
  /\ subscribed' = subscribed \ {s}
  /\ shown' = [v \in Viewers |-> IF v = s THEN {} ELSE shown[v]]
  /\ mirror' = [m \in Mirrors |-> IF m = s THEN [q \in Records |-> Null] ELSE mirror[m]]
  /\ lost' = [m \in Mirrors |-> IF m = s THEN {} ELSE lost[m]]
  /\ UNCHANGED <<record, waiting>>

Next ==
  \/ \E p \in Records, new \in Rows : Change(p, new)
  \/ Deliver
  \/ \E s \in Subscriptions : Subscribe(s) \/ Unsubscribe(s)

Spec == Init /\ [][Next]_vars

----------------------------------------------------------------------------
(***************************************************************************)
(* A copy kept as the documentation of "mutated" does it holds the data of *)
(* every record it can follow, whatever else is subscribed or waiting.  It *)
(* cannot follow its own node when that comes or goes, a record it has no  *)
(* object for, records below one that is put in place whole, and changes   *)
(* whose values were taken from another path.                              *)
(***************************************************************************)
MirrorFollows ==
  \A s \in Mirrors \cap subscribed, q \in Records :
    IsPrefix(s.path, q) /\ q \notin lost[s] => mirror[s][q] = record[q]

(***************************************************************************)
(* A delayed event carries the data as it is, not as it was: it took in    *)
(* every change since, unless the node was removed while it waited or a    *)
(* subscription above it moved the path of a change.                       *)
(***************************************************************************)
WaitingIsFresh ==
  \A i \in DOMAIN waiting :
    LET w == waiting[i] IN ~w.astray => w.new = record[w.path]

(***************************************************************************)
(* When nothing waits, what a subscriber to "value" was shown last is the  *)
(* data, wherever he subscribed, unless that event went astray.            *)
(***************************************************************************)
ShownIsCurrent ==
  waiting = <<>> =>
    \A s \in Viewers : \A e \in shown[s] : ~e.astray => e.new = Data(record, s.path)
=============================================================================
