------------------------ MODULE RealtimeQueryProofs ------------------------
(***************************************************************************)
(* Proofs about realtime queries, for any children, values and queries and *)
(* any number of delayed events.                                           *)
(***************************************************************************)
EXTENDS RealtimeQuery, SequenceTheorems, TLAPS

----------------------------------------------------------------------------
(* The inductive invariant. *)

\* A delayed event that no removal overtook carries the current value.
Fresh ==
  \A c \in Children : \A i \in DOMAIN waiting[c] :
    ~waiting[c][i].overtaken => waiting[c][i].value = data[c]

\* A query that has missed nothing about a child waits for no overtaken event about it.
Undisturbed ==
  \A q \in Queries, c \in Children :
    query[q].stage # "off" /\ c \notin query[q].stale =>
      \A i \in DOMAIN waiting[c] : ~waiting[c][i].overtaken

\* What was read is still so, but for what the gap has changed.
ReadLast ==
  \A q \in Queries, c \in Children :
    query[q].stage = "reading" /\ c \notin query[q].stale => query[q].read[c] = data[c]

\* matchedPaths and the map of the user agree.
Listed ==
  \A q \in Queries, c \in Children :
    Live(q) => (c \in query[q].matchedPaths <=> query[q].map[c] # Null)

\* The map is right about a child, or an event that corrects it waits.
ToldLater ==
  \A q \in Queries, c \in Children :
    Live(q) /\ c \notin query[q].stale =>
      \/ query[q].map[c] = Truth(c)
      \/ \E i \in DOMAIN waiting[c] : waiting[c][i].type = "child_changed"
      \/ waiting[c] # <<>> /\ data[c] \in Matching

Inv == TypeOK /\ Fresh /\ Undisturbed /\ ReadLast /\ Listed /\ ToldLater

----------------------------------------------------------------------------
(* The callbacks. *)

\* A match enters the list and the map.
LEMMA GainsMeaning ==
  ASSUME NEW x \in Query, NEW c \in Children, NEW v \in Values
  PROVE  /\ Gains(x, c, v) \in Query
         /\ Gains(x, c, v).stage = x.stage /\ Gains(x, c, v).read = x.read
         /\ Gains(x, c, v).stale = x.stale
         /\ Gains(x, c, v).matchedPaths = x.matchedPaths \cup {c}
         /\ Gains(x, c, v).map[c] = v
         /\ \A d \in Children \ {c} : Gains(x, c, v).map[d] = x.map[d]
BY DEF Gains, Query, Contents

\* What is no match any more leaves both.
LEMMA LosesMeaning ==
  ASSUME NEW x \in Query, NEW c \in Children
  PROVE  /\ Loses(x, c) \in Query
         /\ Loses(x, c).stage = x.stage /\ Loses(x, c).read = x.read
         /\ Loses(x, c).stale = x.stale
         /\ Loses(x, c).matchedPaths = x.matchedPaths \ {c}
         /\ Loses(x, c).map[c] = Null
         /\ \A d \in Children \ {c} : Loses(x, c).map[d] = x.map[d]
BY DEF Loses, Query, Contents

Agrees(x, c) == c \in x.matchedPaths <=> x.map[c] # Null

\* A callback touches one child, keeps list and map in agreement, and is right
\* about the value of its event unless it is an addition of what does not match.
LEMMA CalledMeaning ==
  ASSUME NEW x \in Query, NEW c \in Children, NEW e \in Event
  PROVE  /\ Called(x, c, e) \in Query
         /\ Called(x, c, e).stage = x.stage /\ Called(x, c, e).read = x.read
         /\ Called(x, c, e).stale = x.stale
         /\ \A d \in Children \ {c} : /\ Called(x, c, e).map[d] = x.map[d]
                                      /\ Agrees(x, d) => Agrees(Called(x, c, e), d)
         /\ Agrees(x, c) => Agrees(Called(x, c, e), c)
         /\ e.value \in Matching => Called(x, c, e).map[c] = e.value
         /\ e.value \notin Matching /\ e.type = "child_changed" /\ Agrees(x, c)
              => Called(x, c, e).map[c] = Null
         /\ e.value \notin Matching /\ e.type = "child_added" => Called(x, c, e).map[c] = x.map[c]
<1>1. e.value \in Values /\ e.value # Null /\ e.type \in {"child_added", "child_changed"}
  BY QueryAssumption DEF Event
<1>2. CASE e.value \in Matching
  <2>1. Called(x, c, e) = Gains(x, c, e.value)
    BY <1>1, <1>2 DEF Called, ChildAdded, ChildChanged
  <2> QED BY <1>1, <1>2, <2>1, GainsMeaning DEF Agrees
<1>3. CASE e.value \notin Matching /\ e.type = "child_changed" /\ c \in x.matchedPaths
  <2>1. Called(x, c, e) = Loses(x, c)
    BY <1>3 DEF Called, ChildChanged
  <2> QED BY <1>1, <1>3, <2>1, LosesMeaning DEF Agrees
<1>4. CASE e.value \notin Matching /\ ~(e.type = "child_changed" /\ c \in x.matchedPaths)
  <2>1. Called(x, c, e) = x
    BY <1>1, <1>4 DEF Called, ChildAdded, ChildChanged
  <2> QED BY <1>1, <1>4, <2>1 DEF Agrees
<1> QED BY <1>2, <1>3, <1>4

----------------------------------------------------------------------------
(* The actions, query by query. *)

\* What Deliver makes of a live query.
Healed(x, c, e) ==
  IF e.type = "child_changed" /\ ~e.overtaken /\ Len(waiting[c]) = 1
    THEN [x EXCEPT !.stale = @ \ {c}] ELSE x

Told(x, c, e) == Healed(Called(x, c, e), c, e)

\* What a timer does to the queue and to a live query.
LEMMA ToldMeaning ==
  ASSUME NEW x \in Query, NEW c \in Children, NEW e \in Event
  PROVE  /\ Told(x, c, e) \in Query
         /\ Told(x, c, e).stage = x.stage /\ Told(x, c, e).read = x.read
         /\ Told(x, c, e).map = Called(x, c, e).map
         /\ Told(x, c, e).matchedPaths = Called(x, c, e).matchedPaths
         /\ \A d \in Children \ {c} : d \in Told(x, c, e).stale <=> d \in x.stale
         /\ c \in x.stale /\ c \notin Told(x, c, e).stale
              => e.type = "child_changed" /\ ~e.overtaken /\ Len(waiting[c]) = 1
         /\ c \in Told(x, c, e).stale => c \in x.stale
<1> DEFINE y == Called(x, c, e)
<1>1. y \in Query /\ y.stage = x.stage /\ y.read = x.read /\ y.stale = x.stale
  BY CalledMeaning
<1> HIDE DEF y
<1>2. /\ [y EXCEPT !.stale = @ \ {c}] \in Query
      /\ [y EXCEPT !.stale = @ \ {c}].stage = y.stage
      /\ [y EXCEPT !.stale = @ \ {c}].read = y.read
      /\ [y EXCEPT !.stale = @ \ {c}].map = y.map
      /\ [y EXCEPT !.stale = @ \ {c}].matchedPaths = y.matchedPaths
      /\ [y EXCEPT !.stale = @ \ {c}].stale = y.stale \ {c}
  BY <1>1 DEF Query
<1>3. Told(x, c, e) = IF e.type = "child_changed" /\ ~e.overtaken /\ Len(waiting[c]) = 1
                        THEN [y EXCEPT !.stale = @ \ {c}] ELSE y
  BY DEF Told, Healed, y
<1>4. CASE e.type = "child_changed" /\ ~e.overtaken /\ Len(waiting[c]) = 1
  BY <1>1, <1>2, <1>3, <1>4 DEF y
<1>5. CASE ~(e.type = "child_changed" /\ ~e.overtaken /\ Len(waiting[c]) = 1)
  BY <1>1, <1>3, <1>5 DEF y
<1> QED BY <1>4, <1>5

\* A callback for an event e about c turns a query x into y.
Effect(x, y, c, e) ==
  /\ y \in Query /\ y.stage = x.stage /\ y.read = x.read
  /\ \A d \in Children \ {c} : /\ y.map[d] = x.map[d]
                               /\ Agrees(x, d) => Agrees(y, d)
                               /\ d \in y.stale <=> d \in x.stale
  /\ Agrees(x, c) => Agrees(y, c)
  /\ e.value \in Matching => y.map[c] = e.value
  /\ e.value \notin Matching /\ e.type = "child_changed" /\ Agrees(x, c) => y.map[c] = Null
  /\ e.value \notin Matching /\ e.type = "child_added" => y.map[c] = x.map[c]
  /\ c \in x.stale /\ c \notin y.stale
       => e.type = "child_changed" /\ ~e.overtaken /\ Len(waiting[c]) = 1
  /\ c \in y.stale => c \in x.stale

\* The two lemmas together.
LEMMA ToldEffect ==
  ASSUME NEW x \in Query, NEW c \in Children, NEW e \in Event
  PROVE  Effect(x, Told(x, c, e), c, e)
<1> DEFINE y == Told(x, c, e)
           z == Called(x, c, e)
<1>1. /\ y \in Query /\ y.stage = x.stage /\ y.read = x.read /\ y.map = z.map
      /\ y.matchedPaths = z.matchedPaths
      /\ \A d \in Children \ {c} : d \in y.stale <=> d \in x.stale
      /\ c \in x.stale /\ c \notin y.stale
           => e.type = "child_changed" /\ ~e.overtaken /\ Len(waiting[c]) = 1
      /\ c \in y.stale => c \in x.stale
  BY ToldMeaning
<1>2. /\ \A d \in Children \ {c} : z.map[d] = x.map[d] /\ (Agrees(x, d) => Agrees(z, d))
      /\ Agrees(x, c) => Agrees(z, c)
      /\ e.value \in Matching => z.map[c] = e.value
      /\ e.value \notin Matching /\ e.type = "child_changed" /\ Agrees(x, c) => z.map[c] = Null
      /\ e.value \notin Matching /\ e.type = "child_added" => z.map[c] = x.map[c]
  BY CalledMeaning
<1> HIDE DEF y, z
<1>3. \A d : Agrees(z, d) <=> Agrees(y, d)
  BY <1>1 DEF Agrees
<1>4. Effect(x, y, c, e)
  BY <1>1, <1>2, <1>3 DEF Effect
<1> QED BY <1>4 DEF y

\* The delayed events about a child, one by one.
LEMMA Delayed ==
  ASSUME TypeOK, NEW c \in Children
  PROVE  /\ waiting[c] \in Seq(Event) /\ DOMAIN waiting[c] = 1..Len(waiting[c])
         /\ Len(waiting[c]) \in Nat /\ Len(waiting[c]) <= MaxWaiting
         /\ \A i \in DOMAIN waiting[c] : waiting[c][i] \in Event
         /\ data[c] \in Values \cup {Null}
BY ElementOfSeq, LenProperties DEF TypeOK, Contents

\* The timer of a child ends.
LEMMA DeliverStep ==
  ASSUME Inv, NEW c \in Children, Deliver(c)
  PROVE  Inv'
<1> DEFINE e == Head(waiting[c])
<1> USE DEF Inv
<1>1. /\ waiting[c] \in Seq(Event) /\ waiting[c] # <<>> /\ data' = data
      /\ waiting \in [Children -> Seq(Event)] /\ query \in [Queries -> Query]
      /\ waiting' = [waiting EXCEPT ![c] = Tail(@)]
      /\ query' = [q \in Queries |-> IF Live(q) THEN Told(query[q], c, e) ELSE query[q]]
  BY Delayed DEF Deliver, Told, Healed, TypeOK
<1>2. /\ e \in Event /\ Len(waiting[c]) \in Nat \ {0} /\ DOMAIN waiting[c] = 1..Len(waiting[c])
      /\ e = waiting[c][1] /\ 1 \in DOMAIN waiting[c]
      /\ Tail(waiting[c]) \in Seq(Event) /\ Len(Tail(waiting[c])) = Len(waiting[c]) - 1
      /\ DOMAIN Tail(waiting[c]) = 1..(Len(waiting[c]) - 1)
      /\ \A i \in 1..(Len(waiting[c]) - 1) : Tail(waiting[c])[i] = waiting[c][i + 1]
  BY <1>1, HeadTailProperties, LenProperties, EmptySeq
<1>3. \A i \in 1..(Len(waiting[c]) - 1) : i + 1 \in DOMAIN waiting[c]
  BY <1>2
<1>4. /\ waiting'[c] = Tail(waiting[c])
      /\ \A d \in Children \ {c} : waiting'[d] = waiting[d]
      /\ \A q \in Queries : query'[q] = IF Live(q) THEN Told(query[q], c, e) ELSE query[q]
      /\ \A q \in Queries : query[q] \in Query
  BY <1>1
<1> HIDE DEF e
<1>0. ASSUME NEW q \in Queries, Live(q)
      PROVE  Effect(query[q], query'[q], c, e)
  <2>1. query[q] \in Query /\ query'[q] = Told(query[q], c, e)
    BY <1>0, <1>4
  <2>2. Effect(query[q], Told(query[q], c, e), c, e)
    BY <1>2, <2>1, ToldEffect
  <2> QED BY <2>1, <2>2
<1>5. \A q \in Queries : query'[q].stage = query[q].stage /\ query'[q].read = query[q].read
  BY <1>0, <1>4 DEF Effect
<1>6. \A q \in Queries : Live(q)' <=> Live(q)
  BY <1>5 DEF Live
<1>7. \A d \in Children : Truth(d)' = Truth(d)
  BY <1>1 DEF Truth
<1>8. TypeOK'
  <2>1. query' \in [Queries -> Query]
    <3>1. \A q \in Queries : query'[q] \in Query
      BY <1>0, <1>4 DEF Effect
    <3> QED BY <1>1, <3>1
  <2>2. waiting' \in [Children -> Seq(Event)]
    BY <1>1, <1>2
  <2>3. ASSUME NEW d \in Children
        PROVE  Len(waiting'[d]) <= MaxWaiting
    <3>1. CASE d = c
      <4>1. Len(waiting'[d]) = Len(waiting[c]) - 1 /\ Len(waiting[c]) <= MaxWaiting
        BY <1>2, <1>4, <3>1, Delayed
      <4> QED BY <1>2, <4>1, QueryAssumption
    <3>2. CASE d # c
      BY <1>4, <3>2 DEF TypeOK
    <3> QED BY <3>1, <3>2
  <2> QED BY <1>1, <2>1, <2>2, <2>3 DEF TypeOK
<1>9. ASSUME NEW d \in Children, NEW i \in DOMAIN waiting'[d]
      PROVE  \E j \in DOMAIN waiting[d] : waiting'[d][i] = waiting[d][j]
  <2>1. CASE d = c
    BY <1>2, <1>3, <1>4, <1>9, <2>1
  <2>2. CASE d # c
    BY <1>4, <1>9, <2>2
  <2> QED BY <2>1, <2>2
<1>10. Fresh'
  BY <1>1, <1>9 DEF Fresh
<1>11. ASSUME NEW q \in Queries, NEW d \in Children, d \in query[q].stale, d \notin query'[q].stale
       PROVE  /\ d = c /\ Live(q) /\ waiting'[c] = <<>>
              /\ e.type = "child_changed" /\ e.value = data[c]
  <2>1. Live(q) /\ Effect(query[q], query'[q], c, e)
    BY <1>0, <1>4, <1>11
  <2>2. d = c
    BY <1>11, <2>1 DEF Effect
  <2>3. e.type = "child_changed" /\ ~e.overtaken /\ Len(waiting[c]) = 1
    BY <1>11, <2>1, <2>2 DEF Effect
  <2>4. Len(Tail(waiting[c])) = 0
    BY <1>2, <2>3
  <2>5. Tail(waiting[c]) = <<>>
    BY <1>2, <2>4, EmptySeq
  <2>6. e.value = data[c]
    BY <1>2, <2>3 DEF Fresh
  <2> QED BY <1>4, <2>1, <2>2, <2>3, <2>5, <2>6
<1>12. Undisturbed'
  <2> SUFFICES ASSUME NEW q \in Queries, NEW d \in Children, query[q].stage # "off",
                      d \notin query'[q].stale, NEW i \in DOMAIN waiting'[d]
               PROVE  ~waiting'[d][i].overtaken
    BY <1>5 DEF Undisturbed
  <2>1. CASE d \in query[q].stale
    <3>1. d = c /\ waiting'[c] = <<>>
      BY <1>11, <2>1
    <3> QED BY <3>1
  <2>2. CASE d \notin query[q].stale
    BY <1>9, <2>2 DEF Undisturbed
  <2> QED BY <2>1, <2>2
<1>13. ReadLast'
  <2> SUFFICES ASSUME NEW q \in Queries, NEW d \in Children, query[q].stage = "reading",
                      d \notin query'[q].stale
               PROVE  query[q].read[d] = data[d]
    BY <1>1, <1>5 DEF ReadLast
  <2>1. query'[q] = query[q]
    BY <1>4 DEF Live
  <2> QED BY <2>1 DEF ReadLast
<1>14. \A q \in Queries, d \in Children : Live(q) => Agrees(query[q], d)
  BY DEF Listed, Agrees
<1>15. Listed'
  <2> SUFFICES ASSUME NEW q \in Queries, NEW d \in Children, Live(q)
               PROVE  Agrees(query'[q], d)
    BY <1>6 DEF Listed, Agrees
  <2>1. CASE d = c
    BY <1>0, <1>14, <2>1 DEF Effect
  <2>2. CASE d # c
    BY <1>0, <1>14, <2>2 DEF Effect
  <2> QED BY <2>1, <2>2
<1>16. ToldLater'
  <2> SUFFICES ASSUME NEW q \in Queries, NEW d \in Children, Live(q), d \notin query'[q].stale
               PROVE  \/ query'[q].map[d] = Truth(d)
                      \/ \E i \in DOMAIN waiting'[d] : waiting'[d][i].type = "child_changed"
                      \/ waiting'[d] # <<>> /\ data[d] \in Matching
    BY <1>1, <1>6, <1>7 DEF ToldLater
  <2>1. Effect(query[q], query'[q], c, e)
    BY <1>0
  <2>2. CASE d # c
    <3>1. query'[q].map[d] = query[q].map[d]
      BY <2>1, <2>2 DEF Effect
    <3>2. d \notin query[q].stale
      BY <1>11, <2>2
    <3> QED BY <1>4, <2>2, <3>1, <3>2 DEF ToldLater
  <2>3. CASE d = c /\ e.value = data[c] /\ (e.type = "child_changed" \/ e.value \in Matching)
    <3>1. e.type = "child_changed" /\ e.value \notin Matching => query'[q].map[c] = Null
      BY <1>14, <2>1 DEF Effect
    <3>2. e.value \in Matching => query'[q].map[c] = e.value
      BY <2>1 DEF Effect
    <3> QED BY <2>3, <3>1, <3>2 DEF Truth
  <2>4. CASE d = c /\ e.type = "child_added" /\ e.value \notin Matching /\ e.value = data[c]
             /\ c \notin query[q].stale
    <3>1. query'[q].map[c] = query[q].map[c]
      BY <2>1, <2>4 DEF Effect
    <3>2. \/ query[q].map[c] = Truth(c)
          \/ \E i \in DOMAIN waiting[c] : waiting[c][i].type = "child_changed"
      BY <2>4 DEF ToldLater
    <3>3. ASSUME NEW i \in DOMAIN waiting[c], waiting[c][i].type = "child_changed"
          PROVE  \E j \in DOMAIN waiting'[c] : waiting'[c][j].type = "child_changed"
      <4>1. i # 1 /\ i \in 1..Len(waiting[c])
        BY <1>2, <2>4, <3>3
      <4>2. i - 1 \in 1..(Len(waiting[c]) - 1) /\ (i - 1) + 1 = i
        BY <1>2, <4>1
      <4>3. Tail(waiting[c])[i - 1] = waiting[c][i]
        BY <1>2, <4>2
      <4> QED BY <1>2, <1>4, <3>3, <4>2, <4>3
    <3> QED BY <2>4, <3>1, <3>2, <3>3
  <2>5. d = c /\ c \notin query[q].stale => e.value = data[c]
    BY <1>2, <1>5 DEF Undisturbed, Fresh, Live
  <2>6. d = c /\ c \in query[q].stale => e.type = "child_changed" /\ e.value = data[c]
    BY <1>11
  <2>7. e.type \in {"child_added", "child_changed"}
    BY <1>2 DEF Event
  <2> QED BY <2>2, <2>3, <2>4, <2>5, <2>6, <2>7
<1> QED BY <1>8, <1>10, <1>12, <1>13, <1>15, <1>16

\* What a later change makes of a delayed event.
LEMMA MutatedMeaning ==
  ASSUME NEW e \in Event, NEW old \in Values \cup {Null}, NEW new \in Values \cup {Null}
  PROVE  /\ Mutated(e, old, new) \in Event
         /\ new = Null => Mutated(e, old, new).overtaken
         /\ new # Null => (Mutated(e, old, new).overtaken <=> e.overtaken)
         /\ new # Null /\ old # Null => Mutated(e, old, new).value = new
<1>1. CASE new = Null
  BY <1>1 DEF Mutated, Event
<1>2. CASE new # Null /\ old # Null
  BY <1>2 DEF Mutated, Event
<1>3. CASE new # Null /\ old = Null
  BY <1>3 DEF Mutated, Event
<1> QED BY <1>1, <1>2, <1>3

Anybody == \E q \in Queries : Live(q)

Fired(old, new) ==
  [type |-> IF old = Null THEN "child_added" ELSE "child_changed", value |-> new, overtaken |-> FALSE]

\* A change of a child at the queue of its events: those that wait take it in, and
\* one comes behind them if anybody listens and the child is still there.
LEMMA QueueEffect ==
  ASSUME TypeOK, NEW c \in Children, NEW new \in Values \cup {Null},
         NEW line, line = Restarted(c, data[c], new) \o Caused(data[c], new)
  PROVE  /\ line \in Seq(Event)
         /\ \A i \in DOMAIN line :
              \/ \E j \in DOMAIN waiting[c] : line[i] = Mutated(waiting[c][j], data[c], new)
              \/ new # Null /\ line[i] = Fired(data[c], new)
         /\ new = Null /\ waiting[c] = <<>> => line = <<>>
         /\ new # Null /\ Anybody
              => line # <<>> /\ \E i \in DOMAIN line : line[i] = Fired(data[c], new)
<1> DEFINE n == Len(waiting[c])
           r == Restarted(c, data[c], new)
           k == Caused(data[c], new)
<1>1. /\ waiting[c] \in Seq(Event) /\ DOMAIN waiting[c] = 1..n /\ n \in Nat
      /\ \A i \in 1..n : waiting[c][i] \in Event
      /\ data[c] \in Values \cup {Null}
  BY Delayed
<1> HIDE DEF n
<1>2. \A i \in 1..n : Mutated(waiting[c][i], data[c], new) \in Event
  BY <1>1, MutatedMeaning
<1>3. r = [i \in 1..n |-> Mutated(waiting[c][i], data[c], new)]
  BY <1>1 DEF Restarted
<1>4. r \in Seq(Event) /\ Len(r) = n /\ \A i \in 1..n : r[i] = Mutated(waiting[c][i], data[c], new)
  <2>1. r \in [1..n -> Event]
    BY <1>2, <1>3
  <2>2. DOMAIN r = 1..n
    BY <1>3
  <2> QED BY <1>1, <1>3, <2>1, <2>2, SeqDef, LenProperties
<1>5. /\ k \in Seq(Event) /\ Len(k) \in {0, 1}
      /\ Len(k) = 1 <=> new # Null /\ Anybody
      /\ Len(k) = 1 => k[1] = Fired(data[c], new)
      /\ Len(k) = 0 => k = <<>>
  <2>1. CASE new # Null /\ Anybody
    <3>1. k = <<Fired(data[c], new)>>
      BY <2>1 DEF Caused, Fired, Anybody
    <3>2. Fired(data[c], new) \in Event
      BY <2>1 DEF Fired, Event
    <3> HIDE DEF k
    <3>3. k \in Seq(Event) /\ Len(k) = 1 /\ k[1] = Fired(data[c], new)
      BY <3>1, <3>2
    <3> QED BY <2>1, <3>3
  <2>2. CASE ~(new # Null /\ Anybody)
    <3>1. k = <<>>
      BY <2>2 DEF Caused, Anybody
    <3>2. k \in Seq(Event) /\ Len(k) = 0
      BY <3>1, EmptySeq
    <3> QED BY <2>2, <3>1, <3>2
  <2> QED BY <2>1, <2>2
<1>6. line = r \o k
  OBVIOUS
<1> HIDE DEF r, k
<1>7. /\ line \in Seq(Event) /\ Len(line) = n + Len(k)
      /\ \A i \in 1..(n + Len(k)) : line[i] = IF i <= n THEN r[i] ELSE k[i - n]
      /\ DOMAIN line = 1..(n + Len(k))
  BY <1>4, <1>5, <1>6, ConcatProperties, LenProperties
<1>8. ASSUME NEW i \in DOMAIN line
      PROVE  \/ \E j \in DOMAIN waiting[c] : line[i] = Mutated(waiting[c][j], data[c], new)
             \/ new # Null /\ line[i] = Fired(data[c], new)
  <2>0. n \in Nat /\ Len(k) \in Nat /\ i \in 1..(n + Len(k))
    BY <1>1, <1>5, <1>7
  <2>1. CASE i <= n
    <3>1. i \in 1..n
      BY <2>0, <2>1
    <3>2. line[i] = r[i]
      BY <1>7, <2>0, <2>1
    <3> QED BY <1>1, <1>4, <3>1, <3>2
  <2>2. CASE ~(i <= n)
    <3>1. Len(k) = 1 /\ i - n = 1 /\ line[i] = k[i - n]
      BY <1>1, <1>5, <1>7, <2>2
    <3> QED BY <1>5, <3>1
  <2> QED BY <2>1, <2>2
<1>9. ASSUME new = Null, waiting[c] = <<>>
      PROVE  line = <<>>
  <2>1. n = 0 /\ Len(k) = 0
    BY <1>1, <1>5, <1>9, EmptySeq DEF n
  <2> QED BY <1>7, <2>1, EmptySeq
<1>10. ASSUME new # Null, Anybody
       PROVE  line # <<>> /\ \E i \in DOMAIN line : line[i] = Fired(data[c], new)
  <2>1. Len(k) = 1 /\ n + 1 \in DOMAIN line /\ ~(n + 1 <= n) /\ (n + 1) - n = 1
    BY <1>1, <1>5, <1>7, <1>10
  <2>2. line[n + 1] = Fired(data[c], new)
    <3>1. line[n + 1] = k[(n + 1) - n]
      BY <1>7, <2>1
    <3> QED BY <1>5, <2>1, <3>1
  <2>3. line # <<>>
    BY <2>1
  <2> QED BY <2>1, <2>2, <2>3
<1> QED BY <1>7, <1>8, <1>9, <1>10

\* What a change means for a query at once.
LEMMA NotedMeaning ==
  ASSUME NEW x \in Query, NEW c \in Children, NEW new \in Values \cup {Null}
  PROVE  /\ Noted(x, c, new) \in Query
         /\ Noted(x, c, new).stage = x.stage /\ Noted(x, c, new).read = x.read
         /\ \A d \in Children \ {c} :
              /\ Noted(x, c, new).map[d] = x.map[d]
              /\ d \in Noted(x, c, new).stale <=> d \in x.stale
              /\ Agrees(x, d) => Agrees(Noted(x, c, new), d)
         /\ x.stage = "reading" => c \in Noted(x, c, new).stale
         /\ x.stage = "live" /\ new = Null =>
              /\ Noted(x, c, new).map[c] = Null
              /\ Agrees(Noted(x, c, new), c)
              /\ c \in Noted(x, c, new).stale <=> waiting[c] # <<>>
         /\ x.stage = "live" /\ new # Null => Noted(x, c, new) = x
<1> DEFINE y == Noted(x, c, new)
<1>1. CASE x.stage = "reading"
  <2>1. y = [x EXCEPT !.stale = @ \cup {c}]
    BY <1>1 DEF Noted
  <2> HIDE DEF y
  <2>2. /\ y \in Query /\ y.stage = x.stage /\ y.read = x.read /\ y.map = x.map
        /\ y.matchedPaths = x.matchedPaths /\ y.stale = x.stale \cup {c}
    BY <2>1 DEF Query
  <2>3. \A d : Agrees(x, d) => Agrees(y, d)
    BY <2>2 DEF Agrees
  <2>4. y = Noted(x, c, new)
    BY DEF y
  <2> QED BY <1>1, <2>2, <2>3, <2>4
<1>2. CASE x.stage = "live" /\ new = Null
  <2> DEFINE z == Loses(x, c)
  <2>1. y = [z EXCEPT !.stale = IF waiting[c] = <<>> THEN @ \ {c} ELSE @ \cup {c}]
    BY <1>2 DEF Noted, ChildRemoved
  <2>2. /\ z \in Query /\ z.stage = x.stage /\ z.read = x.read /\ z.stale = x.stale
        /\ z.matchedPaths = x.matchedPaths \ {c} /\ z.map[c] = Null
        /\ \A d \in Children \ {c} : z.map[d] = x.map[d]
    BY LosesMeaning
  <2> HIDE DEF y, z
  <2>3. /\ y \in Query /\ y.stage = z.stage /\ y.read = z.read /\ y.map = z.map
        /\ y.matchedPaths = z.matchedPaths
        /\ y.stale = IF waiting[c] = <<>> THEN z.stale \ {c} ELSE z.stale \cup {c}
    BY <2>1, <2>2 DEF Query
  <2>4. Agrees(y, c) /\ \A d \in Children \ {c} : Agrees(x, d) => Agrees(y, d)
    BY <2>2, <2>3 DEF Agrees
  <2>5. y = Noted(x, c, new)
    BY DEF y
  <2> QED BY <1>2, <2>2, <2>3, <2>4, <2>5
<1>3. CASE x.stage # "reading" /\ ~(x.stage = "live" /\ new = Null)
  <2>1. y = x
    BY <1>3 DEF Noted
  <2> QED BY <1>3, <2>1
<1> QED BY <1>1, <1>2, <1>3

\* A child is added, changed or removed.
LEMMA ChangeStep ==
  ASSUME Inv, NEW c \in Children, NEW new \in Values \cup {Null}, Change(c, new)
  PROVE  Inv'
<1> DEFINE line == Restarted(c, data[c], new) \o Caused(data[c], new)
<1> USE DEF Inv
<1>1. /\ data' = [data EXCEPT ![c] = new] /\ waiting' = [waiting EXCEPT ![c] = line]
      /\ Len(waiting'[c]) <= MaxWaiting
      /\ query' = [q \in Queries |-> Noted(query[q], c, new)]
      /\ data \in Contents /\ waiting \in [Children -> Seq(Event)] /\ query \in [Queries -> Query]
  BY DEF Change, TypeOK
<1>2. /\ line \in Seq(Event)
      /\ \A i \in DOMAIN line :
           \/ \E j \in DOMAIN waiting[c] : line[i] = Mutated(waiting[c][j], data[c], new)
           \/ new # Null /\ line[i] = Fired(data[c], new)
      /\ new = Null /\ waiting[c] = <<>> => line = <<>>
      /\ new # Null /\ Anybody
           => line # <<>> /\ \E i \in DOMAIN line : line[i] = Fired(data[c], new)
  BY QueueEffect
<1> HIDE DEF line
<1>3. /\ data'[c] = new /\ \A d \in Children \ {c} : data'[d] = data[d]
      /\ waiting'[c] = line /\ \A d \in Children \ {c} : waiting'[d] = waiting[d]
      /\ \A q \in Queries : query[q] \in Query /\ query'[q] = Noted(query[q], c, new)
      /\ data[c] \in Values \cup {Null}
  BY <1>1 DEF Contents
<1>4. ASSUME NEW q \in Queries
      PROVE  /\ query'[q] \in Query
             /\ query'[q].stage = query[q].stage /\ query'[q].read = query[q].read
             /\ \A d \in Children \ {c} :
                  /\ query'[q].map[d] = query[q].map[d]
                  /\ d \in query'[q].stale <=> d \in query[q].stale
                  /\ Agrees(query[q], d) => Agrees(query'[q], d)
             /\ query[q].stage = "reading" => c \in query'[q].stale
             /\ query[q].stage = "live" /\ new = Null =>
                  /\ query'[q].map[c] = Null
                  /\ Agrees(query'[q], c)
                  /\ c \in query'[q].stale <=> waiting[c] # <<>>
             /\ query[q].stage = "live" /\ new # Null => query'[q] = query[q]
  <2>1. query[q] \in Query /\ query'[q] = Noted(query[q], c, new)
    BY <1>3
  <2> QED BY <2>1, NotedMeaning
<1>5. \A q \in Queries : (Live(q)' <=> Live(q)) /\ (Live(q) <=> query[q].stage = "live")
  BY <1>4 DEF Live
<1>6. \A e \in Event : e.value \in Values /\ e.value # Null
  BY QueryAssumption DEF Event
<1>7. Fired(data[c], new).value = new /\ ~Fired(data[c], new).overtaken
      /\ Fired(data[c], new).type = IF data[c] = Null THEN "child_added" ELSE "child_changed"
  BY DEF Fired
<1>8. TypeOK'
  <2>1. data' \in Contents
    BY <1>1 DEF Contents
  <2>2. query' \in [Queries -> Query]
    BY <1>1, <1>4
  <2>3. waiting' \in [Children -> Seq(Event)]
    BY <1>1, <1>2
  <2>4. \A d \in Children : Len(waiting'[d]) <= MaxWaiting
    BY <1>1, <1>3 DEF TypeOK
  <2> QED BY <2>1, <2>2, <2>3, <2>4 DEF TypeOK
<1>9. ASSUME NEW j \in DOMAIN waiting[c]
      PROVE  /\ waiting[c][j] \in Event
             /\ new = Null => Mutated(waiting[c][j], data[c], new).overtaken
             /\ new # Null =>
                  (Mutated(waiting[c][j], data[c], new).overtaken <=> waiting[c][j].overtaken)
             /\ new # Null /\ data[c] # Null => Mutated(waiting[c][j], data[c], new).value = new
  <2>1. waiting[c][j] \in Event
    BY Delayed
  <2> QED BY <1>3, <2>1, MutatedMeaning
<1>10. ASSUME data[c] = Null, NEW j \in DOMAIN waiting[c]
       PROVE  waiting[c][j].overtaken
  BY <1>6, <1>9, <1>10 DEF Fresh
<1>11. Fresh'
  <2>1. ASSUME NEW i \in DOMAIN line, ~line[i].overtaken
        PROVE  line[i].value = new
    <3>1. ASSUME NEW j \in DOMAIN waiting[c], line[i] = Mutated(waiting[c][j], data[c], new)
          PROVE  line[i].value = new
      <4>1. new # Null /\ ~waiting[c][j].overtaken
        BY <1>9, <2>1, <3>1
      <4>2. data[c] # Null
        BY <1>10, <4>1
      <4> QED BY <1>9, <3>1, <4>1, <4>2
    <3> QED BY <1>2, <1>7, <3>1
  <2>2. ASSUME NEW d \in Children, NEW i \in DOMAIN waiting'[d], ~waiting'[d][i].overtaken
        PROVE  waiting'[d][i].value = data'[d]
    <3>1. CASE d = c
      BY <1>3, <2>1, <2>2, <3>1
    <3>2. CASE d # c
      BY <1>3, <2>2, <3>2 DEF Fresh
    <3> QED BY <3>1, <3>2
  <2> QED BY <2>2 DEF Fresh
<1>12. Undisturbed'
  <2> SUFFICES ASSUME NEW q \in Queries, NEW d \in Children, query[q].stage # "off",
                      d \notin query'[q].stale, NEW i \in DOMAIN waiting'[d]
               PROVE  ~waiting'[d][i].overtaken
    BY <1>4 DEF Undisturbed
  <2>1. CASE d # c
    BY <1>3, <1>4, <2>1 DEF Undisturbed
  <2>2. CASE d = c
    <3>1. query[q].stage = "live"
      <4>1. query[q].stage \in {"off", "reading", "live"}
        BY <1>3 DEF Query
      <4> QED BY <1>4, <2>2, <4>1
    <3>2. new # Null
      <4>1. CASE new = Null
        <5>1. waiting[c] = <<>>
          BY <1>4, <2>2, <3>1, <4>1
        <5>2. waiting'[c] = <<>>
          BY <1>2, <1>3, <4>1, <5>1
        <5> QED BY <2>2, <5>2
      <4> QED BY <4>1
    <3>3. c \notin query[q].stale
      BY <1>4, <2>2, <3>1, <3>2
    <3>4. \A j \in DOMAIN waiting[c] : ~waiting[c][j].overtaken
      BY <3>1, <3>3 DEF Undisturbed
    <3> QED BY <1>2, <1>3, <1>7, <1>9, <2>2, <3>2, <3>4
  <2> QED BY <2>1, <2>2
<1>13. ReadLast'
  <2> SUFFICES ASSUME NEW q \in Queries, NEW d \in Children, query[q].stage = "reading",
                      d \notin query'[q].stale
               PROVE  query[q].read[d] = data'[d]
    BY <1>4 DEF ReadLast
  <2>1. d # c /\ d \notin query[q].stale
    BY <1>4
  <2> QED BY <1>3, <2>1 DEF ReadLast
<1>14. Listed'
  <2> SUFFICES ASSUME NEW q \in Queries, NEW d \in Children, Live(q)
               PROVE  Agrees(query'[q], d)
    BY <1>5 DEF Listed, Agrees
  <2>1. Agrees(query[q], d)
    BY DEF Listed, Agrees
  <2> QED BY <1>4, <1>5, <2>1
<1>15. ToldLater'
  <2> SUFFICES ASSUME NEW q \in Queries, NEW d \in Children, Live(q), d \notin query'[q].stale
               PROVE  \/ query'[q].map[d] = Truth(d)'
                      \/ \E i \in DOMAIN waiting'[d] : waiting'[d][i].type = "child_changed"
                      \/ waiting'[d] # <<>> /\ data'[d] \in Matching
    BY <1>5 DEF ToldLater
  <2>1. CASE d # c
    BY <1>3, <1>4, <2>1 DEF ToldLater, Truth
  <2>2. CASE d = c /\ new = Null
    <3>1. query'[q].map[c] = Null
      BY <1>4, <1>5, <2>2
    <3>2. Truth(c)' = Null
      BY <1>3, <2>2, QueryAssumption DEF Truth
    <3> QED BY <2>2, <3>1, <3>2
  <2>3. CASE d = c /\ new # Null
    <3>1. query'[q] = query[q] /\ Anybody
      BY <1>4, <1>5, <2>3 DEF Anybody
    <3>2. waiting'[c] # <<>> /\ \E i \in DOMAIN waiting'[c] : waiting'[c][i] = Fired(data[c], new)
      BY <1>2, <1>3, <2>3, <3>1
    <3>3. CASE data[c] # Null
      BY <1>7, <2>3, <3>2, <3>3
    <3>4. CASE data[c] = Null /\ new \in Matching
      BY <1>3, <2>3, <3>2, <3>4
    <3>5. CASE data[c] = Null /\ new \notin Matching
      <4>1. c \notin query[q].stale
        BY <2>3, <3>1
      <4>2. \A j \in DOMAIN waiting[c] : FALSE
        BY <1>5, <1>10, <3>5, <4>1 DEF Undisturbed
      <4>3. query[q].map[c] = Truth(c)
        BY <3>5, <4>1, <4>2, QueryAssumption DEF ToldLater
      <4>4. Truth(c) = Null /\ Truth(c)' = Null
        BY <1>3, <3>5 DEF Truth
      <4> QED BY <2>3, <3>1, <4>3, <4>4
    <3> QED BY <3>3, <3>4, <3>5
  <2> QED BY <2>1, <2>2, <2>3
<1> QED BY <1>8, <1>11, <1>12, <1>13, <1>14, <1>15

\* The read of a query, its subscriptions and its end.
LEMMA QueryStep ==
  ASSUME Inv, NEW p \in Queries, Read(p) \/ Follow(p) \/ Stop(p)
  PROVE  Inv'
<1> USE DEF Inv
<1> DEFINE found == Matches(query[p].read)
<1>0. /\ data \in Contents /\ query \in [Queries -> Query] /\ query[p] \in Query
      /\ query[p].read \in Contents
  BY DEF TypeOK, Query
<1>1. data' = data /\ waiting' = waiting
  BY DEF Read, Follow, Stop
<1>2. PICK x : query' = [query EXCEPT ![p] = x] /\ x = query'[p]
  BY <1>0 DEF Read, Follow, Stop
<1>3. \A q \in Queries \ {p} : query'[q] = query[q]
  BY <1>0, <1>2
<1>4. Nothing \in Contents /\ Off \in Query /\ Off.stage = "off"
  BY DEF Nothing, Off, Contents, Query
<1>5. \A c \in Children : Truth(c)' = Truth(c)
  BY <1>1 DEF Truth
<1>6. \/ /\ x \in Query /\ x.stage = "reading" /\ x.read = data
         /\ x.stale = {c \in Children : \E i \in DOMAIN waiting[c] : waiting[c][i].overtaken}
      \/ /\ query[p].stage = "reading"
         /\ x \in Query /\ x.stage = "live" /\ x.stale = query[p].stale
         /\ x.matchedPaths = found
         /\ x.map = [c \in Children |-> IF c \in found THEN query[p].read[c] ELSE Null]
      \/ x \in Query /\ x.stage = "off"
  <2>1. CASE Read(p)
    <3>1. x = [Off EXCEPT !.stage = "reading", !.read = data,
                          !.stale = {c \in Children : \E i \in DOMAIN waiting[c] : waiting[c][i].overtaken}]
      BY <1>0, <1>2, <2>1 DEF Read
    <3> QED BY <1>0, <1>4, <3>1 DEF Query, Off
  <2>2. CASE Follow(p)
    <3> DEFINE m == [c \in Children |-> IF c \in found THEN query[p].read[c] ELSE Null]
    <3>1. x = [query[p] EXCEPT !.stage = "live", !.read = Nothing, !.matchedPaths = found, !.map = m]
      BY <1>0, <1>2, <2>2 DEF Follow
    <3>2. query[p].stage = "reading"
      BY <2>2 DEF Follow
    <3>3. found \subseteq Children /\ m \in Contents
      BY <1>0 DEF Matches, Contents
    <3> HIDE DEF m, found
    <3>4. /\ x \in Query /\ x.stage = "live" /\ x.stale = query[p].stale /\ x.matchedPaths = found
          /\ x.map = m
      BY <1>0, <1>4, <3>1, <3>3 DEF Query
    <3> QED BY <3>2, <3>4 DEF m, found
  <2>3. CASE Stop(p)
    BY <1>0, <1>2, <1>4, <2>3 DEF Stop
  <2> QED BY <2>1, <2>2, <2>3
<1>7. query'[p] = x /\ \A q \in Queries \ {p} : (Live(q)' <=> Live(q))
  BY <1>2, <1>3 DEF Live
<1>8. TypeOK'
  BY <1>1, <1>0, <1>2, <1>6 DEF TypeOK
<1>9. Fresh'
  BY <1>1 DEF Fresh
<1>10. Undisturbed'
  <2>1. ASSUME NEW c \in Children, x.stage # "off", c \notin x.stale
        PROVE  \A i \in DOMAIN waiting[c] : ~waiting[c][i].overtaken
    BY <1>6, <2>1 DEF Undisturbed
  <2> QED BY <1>1, <1>3, <1>7, <2>1 DEF Undisturbed
<1>11. ReadLast'
  BY <1>1, <1>3, <1>6, <1>7 DEF ReadLast
<1>12. ASSUME x.stage = "live", NEW c \in Children
       PROVE  /\ Agrees(x, c)
              /\ c \notin x.stale => x.map[c] = Truth(c)
  <2>1. /\ x.matchedPaths = found /\ query[p].stage = "reading" /\ x.stale = query[p].stale
        /\ x.map[c] = IF c \in found THEN query[p].read[c] ELSE Null
    BY <1>6, <1>12
  <2>2. c \in found <=> query[p].read[c] \in Matching
    BY DEF Matches
  <2>3. c \notin query[p].stale => query[p].read[c] = data[c]
    BY <2>1 DEF ReadLast
  <2> QED BY <2>1, <2>2, <2>3, QueryAssumption DEF Agrees, Truth
<1>13. Listed'
  <2> SUFFICES ASSUME NEW q \in Queries, NEW c \in Children, Live(q)'
               PROVE  Agrees(query'[q], c)
    BY DEF Listed, Agrees
  <2>1. CASE q = p
    BY <1>7, <1>12, <2>1 DEF Live
  <2>2. CASE q # p
    BY <1>3, <1>7, <2>2 DEF Listed, Agrees
  <2> QED BY <2>1, <2>2
<1>14. ToldLater'
  <2> SUFFICES ASSUME NEW q \in Queries, NEW c \in Children, Live(q)', c \notin query'[q].stale
               PROVE  \/ query'[q].map[c] = Truth(c)
                      \/ \E i \in DOMAIN waiting[c] : waiting[c][i].type = "child_changed"
                      \/ waiting[c] # <<>> /\ data[c] \in Matching
    BY <1>1, <1>5 DEF ToldLater
  <2>1. CASE q = p
    BY <1>7, <1>12, <2>1 DEF Live
  <2>2. CASE q # p
    BY <1>3, <1>7, <2>2 DEF ToldLater
  <2> QED BY <2>1, <2>2
<1> QED BY <1>8, <1>9, <1>10, <1>11, <1>13, <1>14

\* The invariant holds at first ...
LEMMA InvInit == Init => Inv
<1> SUFFICES ASSUME Init PROVE Inv
  OBVIOUS
<1>1. Nothing \in Contents /\ Off \in Query /\ Off.stage = "off"
  BY DEF Nothing, Off, Contents, Query
<1>2. <<>> \in Seq(Event) /\ Len(<<>>) = 0 /\ \A i : i \notin DOMAIN <<>>
  BY EmptySeq
<1>3. \A q \in Queries : query[q] = Off
  BY DEF Init
<1>4. TypeOK
  <2>1. query \in [Queries -> Query] /\ data \in Contents
    BY <1>1 DEF Init
  <2>2. waiting \in [Children -> Seq(Event)] /\ \A c \in Children : Len(waiting[c]) <= MaxWaiting
    BY <1>2, QueryAssumption DEF Init
  <2> QED BY <2>1, <2>2 DEF TypeOK
<1>5. Fresh /\ Undisturbed
  BY <1>2 DEF Init, Fresh, Undisturbed
<1>6. ReadLast /\ Listed /\ ToldLater
  BY <1>1, <1>3 DEF ReadLast, Listed, ToldLater, Live
<1> QED BY <1>4, <1>5, <1>6 DEF Inv

\* ... is kept by every step ...
LEMMA InvNext == Inv /\ [Next]_vars => Inv'
<1> SUFFICES ASSUME Inv, [Next]_vars PROVE Inv'
  OBVIOUS
<1>1. ASSUME NEW q \in Queries, Read(q) \/ Follow(q) \/ Stop(q) PROVE Inv'
  BY <1>1, QueryStep
<1>2. ASSUME NEW c \in Children, Deliver(c) PROVE Inv'
  BY <1>2, DeliverStep
<1>3. ASSUME NEW c \in Children, NEW new \in Values \cup {Null}, Change(c, new) PROVE Inv'
  BY <1>3, ChangeStep
<1>4. CASE UNCHANGED vars
  BY <1>4 DEF vars, Inv, TypeOK, Fresh, Undisturbed, ReadLast, Listed, ToldLater, Live, Truth
<1> QED BY <1>1, <1>2, <1>3, <1>4 DEF Next

\* ... and so always holds.
LEMMA Invariance == Spec => []Inv
BY InvInit, InvNext, PTL DEF Spec

----------------------------------------------------------------------------
(***************************************************************************)
(* Callbacks are only ever called with values a child can have, and the    *)
(* map of the user and the list of matches hold children of the            *)
(* collection (executeQueryRealtime).                                      *)
(***************************************************************************)
THEOREM TypeCorrect == Spec => []TypeOK
BY Invariance, PTL DEF Inv

(***************************************************************************)
(* Once no event about a child waits, a live query that has not missed a   *)
(* change of it has the child exactly if it matches, and with its current  *)
(* value: however many queries start and stop in between, and however      *)
(* many events of the child are delayed and merged.                        *)
(***************************************************************************)
THEOREM QueryInStep == Spec => []InStep
<1>1. ASSUME Inv PROVE InStep
  <2> SUFFICES ASSUME NEW q \in Queries, NEW c \in Children, Live(q), waiting[c] = <<>>,
                      c \notin query[q].stale
               PROVE  query[q].map[c] = Truth(c)
    BY DEF InStep
  <2>1. ~\E i \in DOMAIN waiting[c] : TRUE
    OBVIOUS
  <2> QED BY <1>1, <2>1 DEF Inv, ToldLater
<1> QED BY <1>1, Invariance, PTL
=============================================================================
