---------------------------- MODULE MongoProofs ----------------------------
(***************************************************************************)
(* Every state of the MongoDB backend is well typed, a refused statement   *)
(* of the last database has a retry ahead, and reads of a key return its   *)
(* last write unless statements raced or failed under it, for any keys,    *)
(* databases and number of calls.                                          *)
(***************************************************************************)
EXTENDS MongoStorage, TLAPS

LEMMA InitTyped == Init => TypeOK
BY MongoAssumption DEF Init, TypeOK, Idle, NoEntry, Entry

\* What reads return is a content or nothing.
LEMMA ViewTyped ==
  ASSUME TypeOK, NEW k \in Keys
  PROVE  View(k) \in Contents \cup {None}
BY DEF TypeOK, View, Entry

\* Sending keeps the map and the statements well typed.
LEMMA SendTyped ==
  ASSUME TypeOK, NEW by \in 0..MaxCalls, NEW k \in Keys,
         NEW type \in {"sent", "set", "delete"}, NEW content \in Contents \cup {None},
         Send(by, k, type, content)
  PROVE  /\ pending' \in [Keys -> Entry]
         /\ ops' \subseteq Op
<1>1. [by |-> by, key |-> k, type |-> type, content |-> content, stored |-> FALSE] \in Op
  BY DEF Op
<1>2. [type |-> type, content |-> content] \in Entry
  BY DEF Entry
<1> QED BY <1>1, <1>2 DEF Send, TypeOK

LEMMA NextTyped == TypeOK /\ [Next]_vars => TypeOK'
<1> SUFFICES ASSUME TypeOK, [Next]_vars PROVE TypeOK'
  OBVIOUS
<1> USE MongoAssumption
<1>n. NoEntry \in Entry /\ Idle \in [at : 0..Last, all : BOOLEAN, seen : SUBSET Keys, left : BOOLEAN]
  BY DEF NoEntry, Entry, Idle
<1>1. ASSUME NEW k \in Keys, NEW c \in Contents, SetNode(k, c) PROVE TypeOK'
  <2>1. made' \in 0..MaxCalls
    BY <1>1 DEF SetNode, TypeOK
  <2>2. pending' \in [Keys -> Entry] /\ ops' \subseteq Op
    BY <1>1, <2>1, SendTyped DEF SetNode
  <2>3. raced' \subseteq Keys /\ last' \in [Keys -> Contents \cup {None}]
    BY <1>1 DEF SetNode, TypeOK, Races, Related, Forgotten
  <2> QED BY <1>1, <2>1, <2>2, <2>3 DEF SetNode, TypeOK
<1>2. ASSUME NEW k \in Keys, RemoveNode(k) PROVE TypeOK'
  <2>1. made' \in 0..MaxCalls
    BY <1>2 DEF RemoveNode, TypeOK
  <2>2. pending' \in [Keys -> Entry] /\ ops' \subseteq Op
    BY <1>2, <2>1, SendTyped, ViewTyped DEF RemoveNode
  <2>3. /\ raced' \subseteq Keys /\ strayed' \subseteq Keys
        /\ last' \in [Keys -> Contents \cup {None}]
    BY <1>2 DEF RemoveNode, TypeOK, Races, Related, Amiss
  <2> QED BY <1>2, <2>1, <2>2, <2>3 DEF RemoveNode, TypeOK
<1>3. ASSUME NEW o \in ops, Store(o) PROVE TypeOK'
  <2>1. o \in Op
    BY DEF TypeOK
  <2>2. [o EXCEPT !.stored = TRUE] \in Op
    BY <2>1 DEF Op
  <2>3. collection' \in [Keys -> Contents \cup {None}]
    BY <1>3, <2>1 DEF Store, TypeOK, Op
  <2> QED BY <1>3, <2>2, <2>3 DEF Store, TypeOK
<1>4. ASSUME NEW o \in ops, Answer(o) PROVE TypeOK'
  <2>1. o \in Op
    BY DEF TypeOK
  <2>2. pending' \in [Keys -> Entry]
    BY <1>4, <1>n DEF Answer, TypeOK
  <2>3. resolver' \in [at : 0..Last, all : BOOLEAN, seen : SUBSET Keys, left : BOOLEAN]
    BY <1>4 DEF Answer, TypeOK
  <2> QED BY <1>4, <2>2, <2>3 DEF Answer, TypeOK
<1>5. ASSUME NEW o \in ops, Refuse(o) PROVE TypeOK'
  <2>1. o \in Op
    BY DEF TypeOK
  <2>2. [type |-> IF o.type = "delete" THEN "delete" ELSE "set", content |-> o.content] \in Entry
    BY <2>1 DEF Op, Entry
  <2>3. pending' \in [Keys -> Entry]
    BY <1>5, <2>2 DEF Refuse, TypeOK
  <2>4. timer' \in {"off", "refused", "all"}
    BY <1>5 DEF Refuse, TypeOK, Scheduled
  <2> QED BY <1>5, <2>3, <2>4 DEF Refuse, TypeOK
<1>6. CASE Fire
  BY <1>6 DEF Fire, TypeOK
<1>7. ASSUME NEW k \in Keys, Skip(k) PROVE TypeOK'
  <2>1. resolver' \in [at : 0..Last, all : BOOLEAN, seen : SUBSET Keys, left : BOOLEAN]
    BY <1>7 DEF Skip, TypeOK
  <2> QED BY <1>7, <2>1 DEF Skip, TypeOK
<1>8. ASSUME NEW k \in Keys, Resend(k) PROVE TypeOK'
  <2>1. pending[k] \in Entry /\ pending[k].type \in {"sent", "set", "delete"}
    BY <1>8 DEF Resend, ToSend, TypeOK
  <2>2. pending[k].content \in Contents \cup {None}
    BY <2>1 DEF Entry
  <2>3. pending' \in [Keys -> Entry] /\ ops' \subseteq Op
    BY <1>8, <2>1, <2>2, SendTyped DEF Resend
  <2>4. resolver' \in [at : 0..Last, all : BOOLEAN, seen : SUBSET Keys, left : BOOLEAN]
    BY <1>8 DEF Resend, TypeOK
  <2>5. raced' \subseteq Keys
    BY <1>8 DEF Resend, TypeOK, Races, Related
  <2> QED BY <1>8, <2>3, <2>4, <2>5 DEF Resend, TypeOK
<1>9. CASE Leave
  <2> DEFINE left == resolver.left \/ \E k \in Keys : DatabaseOf[k] = resolver.at /\ ToSend(k)
  <2>1. left \in BOOLEAN
    BY DEF TypeOK
  <2>2. CASE resolver.at < Last
    <3>1. resolver' = [resolver EXCEPT !.at = resolver.at + 1, !.left = left] /\ timer' = timer
      BY <1>9, <2>2 DEF Leave
    <3> HIDE DEF left
    <3>2. resolver.at + 1 \in 0..Last
      BY <2>2 DEF TypeOK
    <3>3. resolver' \in [at : 0..Last, all : BOOLEAN, seen : SUBSET Keys, left : BOOLEAN]
      BY <3>1, <2>1, <3>2 DEF TypeOK
    <3> QED BY <1>9, <3>1, <3>3 DEF Leave, TypeOK
  <2>3. CASE ~(resolver.at < Last)
    <3>1. resolver' = Idle /\ timer' \in {"off", "refused", "all"}
      BY <1>9, <2>3 DEF Leave, TypeOK
    <3> QED BY <1>9, <1>n, <3>1 DEF Leave, TypeOK
  <2> QED BY <2>2, <2>3
<1>10. CASE Disconnect
  BY <1>10 DEF Disconnect, TypeOK
<1>11. CASE Connect
  BY <1>11 DEF Connect, TypeOK, Scheduled
<1>12. CASE Die
  BY <1>12, <1>n DEF Die, TypeOK
<1>13. CASE UNCHANGED vars
  BY <1>13 DEF vars, TypeOK
<1> QED
  BY <1>1, <1>2, <1>3, <1>4, <1>5, <1>6, <1>7, <1>8, <1>9, <1>10, <1>11, <1>12, <1>13 DEF Next

\* Every reachable state of the backend is well typed.
THEOREM TypeCorrect == Spec => []TypeOK
BY InitTyped, NextTyped, PTL DEF Spec

----------------------------------------------------------------------------
\* resolvePending leaves a timer or a running callback behind.
LEMMA ScheduledAhead ==
  ASSUME NEW all \in BOOLEAN, Scheduled(all), resolver' = resolver
  PROVE  timer' # "off" \/ resolver'.at # 0
BY DEF Scheduled

\* A step that takes no retry away and adds no refused statement.
LEMMA AheadKept ==
  ASSUME RetryAhead, timer # "off" => timer' # "off", resolver'.at = resolver.at,
         \A k \in Keys : Refused(k)' => Refused(k)
  PROVE  RetryAhead'
BY DEF RetryAhead

\* Sending adds no refused entry that was not there.
LEMMA SendRefused ==
  ASSUME TypeOK, NEW by, NEW k \in Keys, NEW type, NEW content,
         Send(by, k, type, content), type \in {"set"} => Refused(k)
  PROVE  \A n \in Keys : Refused(n)' => Refused(n)
BY DEF Send, Refused, TypeOK, Entry

LEMMA NextAhead == TypeOK /\ RetryAhead /\ [Next]_vars => RetryAhead'
<1> SUFFICES ASSUME TypeOK, RetryAhead, [Next]_vars PROVE RetryAhead'
  OBVIOUS
<1> USE MongoAssumption
<1>1. ASSUME NEW k \in Keys, NEW c \in Contents, SetNode(k, c) PROVE RetryAhead'
  BY <1>1, SendRefused, AheadKept DEF SetNode
<1>2. ASSUME NEW k \in Keys, RemoveNode(k) PROVE RetryAhead'
  BY <1>2, SendRefused, AheadKept DEF RemoveNode
<1>3. ASSUME NEW o \in ops, Store(o) PROVE RetryAhead'
  BY <1>3, AheadKept DEF Store, Refused
<1>4. ASSUME NEW o \in ops, Answer(o) PROVE RetryAhead'
  <2>1. \A k \in Keys : Refused(k)' => Refused(k)
    BY <1>4 DEF Answer, Refused, NoEntry, TypeOK
  <2>2. resolver'.at = resolver.at
    BY <1>4 DEF Answer, TypeOK
  <2> QED BY <1>4, <2>1, <2>2, AheadKept DEF Answer
<1>5. ASSUME NEW o \in ops, Refuse(o) PROVE RetryAhead'
  BY <1>5, ScheduledAhead DEF Refuse, RetryAhead
<1>6. CASE Fire
  BY <1>6 DEF Fire, RetryAhead
<1>7. ASSUME NEW k \in Keys, Skip(k) PROVE RetryAhead'
  <2>1. resolver'.at = resolver.at
    BY <1>7 DEF Skip, TypeOK
  <2> QED BY <1>7, <2>1, AheadKept DEF Skip, Refused
<1>8. ASSUME NEW k \in Keys, Resend(k) PROVE RetryAhead'
  <2>1. resolver'.at = resolver.at
    BY <1>8 DEF Resend, TypeOK
  <2>2. resolver.at # 0
    BY <1>8 DEF Resend, AtEntry
  <2> QED BY <2>1, <2>2 DEF RetryAhead
<1>9. CASE Leave
  <2>1. CASE resolver.at < Last
    <3>1. resolver'.at = resolver.at + 1
      BY <1>9, <2>1 DEF Leave, TypeOK
    <3>2. resolver'.at # 0
      BY <3>1 DEF TypeOK
    <3> QED BY <3>2 DEF RetryAhead
  <2>2. CASE ~(resolver.at < Last)
    <3>1. resolver.at = Last
      BY <2>2 DEF TypeOK
    <3>2. ASSUME NEW k \in Keys, DatabaseOf[k] = Last, Refused(k)' PROVE timer' # "off"
      <4>1. Refused(k)
        BY <1>9, <3>2 DEF Leave, Refused
      <4>2. ToSend(k)
        BY <4>1 DEF Refused, ToSend
      <4>3. timer' = "refused"
        BY <1>9, <2>2, <3>1, <3>2, <4>2 DEF Leave
      <4> QED BY <4>3
    <3> QED BY <3>2 DEF RetryAhead
  <2> QED BY <2>1, <2>2
<1>10. CASE Disconnect
  BY <1>10 DEF Disconnect, RetryAhead, Refused
<1>11. CASE Connect
  BY <1>11, ScheduledAhead DEF Connect, RetryAhead
<1>12. CASE Die
  BY <1>12 DEF Die, RetryAhead
<1>13. CASE UNCHANGED vars
  BY <1>13 DEF vars, RetryAhead, Refused
<1> QED
  BY <1>1, <1>2, <1>3, <1>4, <1>5, <1>6, <1>7, <1>8, <1>9, <1>10, <1>11, <1>12, <1>13 DEF Next

(***************************************************************************)
(* A refused statement of the last database always has a retry ahead: the  *)
(* timer is set or its callback runs, whatever happens while it runs.      *)
(***************************************************************************)
THEOREM RetryIsAhead == Spec => []RetryAhead
<1>1. Init => RetryAhead
  BY DEF Init, RetryAhead, Refused, NoEntry
<1> QED BY <1>1, NextAhead, TypeCorrect, PTL DEF Spec

----------------------------------------------------------------------------
(***************************************************************************)
(* What reads see.  For a key that never had two statements at a time:     *)
(* statements that concern it are alone on their keys (Apart); the map     *)
(* does not hold a refused removal under a running set (Mapped); a set and *)
(* a removal under way are what the key shows and what the collection has  *)
(* once it is stored (SetUnderWay, RemovalUnderWay); and what is shown is  *)
(* the latest call, but for removals (Shown).                              *)
(***************************************************************************)
Deletes(o, n) == o.type = "delete" /\ n \in Branch[o.key]

Apart(n) ==
  /\ \A o1, o2 \in ops : n \in Branch[o1.key] /\ o1.key = o2.key => o1 = o2
  /\ \A o1, o2 \in ops : o1.key = n /\ Deletes(o2, n) => o1 = o2

Mapped(n) ==
  \A o \in ops : o.type # "delete" /\ n \in Branch[o.key] =>
    pending[o.key].type \in {"sent", "set"}

SetUnderWay(n) ==
  \A o \in ops : o.key = n /\ o.type # "delete" =>
    /\ ~Removing(n)
    /\ last[n] = o.content
    /\ pending[n].content = o.content
    /\ o.stored => collection[n] = o.content

RemovalUnderWay(n) ==
  \A o \in ops : Deletes(o, n) =>
    /\ o.key # n => pending[n].type = "none"
    /\ o.stored => collection[n] = None

Shown(n) == IF Removing(n) THEN last[n] = None ELSE View(n) = last[n]

Good(n) == Apart(n) /\ Mapped(n) /\ SetUnderWay(n) /\ RemovalUnderWay(n) /\ Shown(n)

LEMMA Unraced ==
  ASSUME TypeOK, NEW k \in Keys, NEW n \in Branch[k], n \notin Races(k)
  PROVE  /\ \A o \in ops : o.key # k /\ k \notin Branch[o.key] /\ o.key \notin Branch[k]
         /\ \A m \in Keys \ {k} : m \in Branch[k] \/ k \in Branch[m] => pending[m].type = "none"
<1>1. n \in Keys /\ n \in Related(k)
  BY MongoAssumption DEF Related
<1>2. \A o \in ops : o.key \notin Related(k)
  BY <1>1 DEF Races
<1>3. \A m \in Related(k) \ {k} : pending[m].type = "none"
  BY <1>1 DEF Races
<1>4. \A o \in ops : o.key \in Keys
  BY DEF TypeOK, Op
<1>5. k \in Branch[k]
  BY MongoAssumption
<1> QED BY <1>2, <1>3, <1>4, <1>5 DEF Related

LEMMA SetNodeGood ==
  ASSUME TypeOK, NEW n \in Keys, Good(n), NEW k \in Keys, NEW c \in Contents, SetNode(k, c),
         n \notin raced'
  PROVE  Good(n)'
<1> DEFINE new == [by |-> made + 1, key |-> k, type |-> "sent", content |-> c, stored |-> FALSE]
<1>1. /\ ops' = ops \cup {new}
      /\ pending' = [pending EXCEPT ![k] = [type |-> "sent", content |-> c]]
      /\ last' = [last EXCEPT ![k] = c]
      /\ collection' = collection
      /\ n \notin Races(k) /\ n \notin Forgotten(k)
  BY DEF SetNode, Send
<1>2. new.key = k /\ new.type = "sent" /\ new.content = c /\ new.stored = FALSE
  OBVIOUS
<1> HIDE DEF new
<1>3. k \in Branch[k] /\ Branch[k] \subseteq Keys
  BY MongoAssumption
<1>4. n \in Branch[k] => /\ \A o \in ops : o.key # k /\ k \notin Branch[o.key] /\ o.key \notin Branch[k]
                         /\ \A m \in Keys \ {k} : m \in Branch[k] \/ k \in Branch[m] => pending[m].type = "none"
  BY <1>1, Unraced
<1>5. /\ pending'[k].type = "sent" /\ pending'[k].content = c
      /\ \A m \in Keys \ {k} : pending'[m] = pending[m]
      /\ last'[k] = c /\ \A m \in Keys \ {k} : last'[m] = last[m]
  BY <1>1 DEF TypeOK
<1>6. \A o \in ops : o.key \in Keys
  BY DEF TypeOK, Op
<1>7. n # k => (Removing(n)' <=> Removing(n))
  BY <1>1, <1>2, <1>5, <1>6 DEF Removing, Forgotten
<1>8. n = k => ~Removing(n)'
  BY <1>1, <1>2, <1>3, <1>4, <1>5 DEF Removing
<1>9. Apart(n)'
  BY <1>1, <1>2, <1>3, <1>4 DEF Good, Apart, Deletes
<1>10. Mapped(n)'
  BY <1>1, <1>2, <1>5, <1>6 DEF Good, Mapped
<1>11. SetUnderWay(n)'
  BY <1>1, <1>2, <1>3, <1>4, <1>5, <1>7, <1>8 DEF Good, SetUnderWay
<1>12. RemovalUnderWay(n)'
  BY <1>1, <1>2, <1>3, <1>4, <1>5, <1>6 DEF Good, RemovalUnderWay, Deletes
<1>13. Shown(n)'
  BY <1>1, <1>5, <1>7, <1>8 DEF Good, Shown, View
<1> QED BY <1>9, <1>10, <1>11, <1>12, <1>13 DEF Good

LEMMA RemoveNodeGood ==
  ASSUME TypeOK, NEW n \in Keys, Good(n), NEW k \in Keys, RemoveNode(k), n \notin raced'
  PROVE  Good(n)'
<1> DEFINE new == [by |-> made + 1, key |-> k, type |-> "delete", content |-> View(k), stored |-> FALSE]
<1>1. /\ ops' = ops \cup {new}
      /\ pending' = pending
      /\ last' = [m \in Keys |-> IF m \in Branch[k] THEN None ELSE last[m]]
      /\ collection' = collection
      /\ n \notin Races(k)
  BY DEF RemoveNode, Send
<1>2. new.key = k /\ new.type = "delete" /\ new.stored = FALSE
  OBVIOUS
<1> HIDE DEF new
<1>3. k \in Branch[k] /\ Branch[k] \subseteq Keys
  BY MongoAssumption
<1>4. n \in Branch[k] => /\ \A o \in ops : o.key # k /\ k \notin Branch[o.key] /\ o.key \notin Branch[k]
                         /\ \A m \in Keys \ {k} : m \in Branch[k] \/ k \in Branch[m] => pending[m].type = "none"
  BY <1>1, Unraced
<1>5. last'[n] = IF n \in Branch[k] THEN None ELSE last[n]
  BY <1>1
<1>6. n \in Branch[k] => Removing(n)'
  BY <1>1, <1>2 DEF Removing
<1>7. n \notin Branch[k] => (Removing(n)' <=> Removing(n))
  BY <1>1, <1>2 DEF Removing
<1>8. n \in Branch[k] => \A o \in ops : o.key # n
  BY <1>3, <1>4
<1>9. Apart(n)'
  BY <1>1, <1>2, <1>3, <1>4, <1>8 DEF Good, Apart, Deletes
<1>10. Mapped(n)'
  BY <1>1, <1>2 DEF Good, Mapped
<1>11. SetUnderWay(n)'
  BY <1>1, <1>2, <1>5, <1>7, <1>8 DEF Good, SetUnderWay
<1>12. RemovalUnderWay(n)'
  BY <1>1, <1>2, <1>3, <1>4 DEF Good, RemovalUnderWay, Deletes
<1>13. Shown(n)'
  BY <1>1, <1>5, <1>6, <1>7 DEF Good, Shown, View
<1> QED BY <1>9, <1>10, <1>11, <1>12, <1>13 DEF Good

LEMMA StoreGood ==
  ASSUME TypeOK, NEW n \in Keys, Good(n), NEW o \in ops, Store(o),
         o.type = "delete" => n \notin Amiss(o.key)
  PROVE  Good(n)'
<1> DEFINE new == [o EXCEPT !.stored = TRUE]
<1>1. /\ ops' = (ops \ {o}) \cup {new} /\ pending' = pending /\ last' = last
      /\ collection' = IF o.type = "delete"
                         THEN [m \in Keys |-> IF m \in Matched[o.key] THEN None ELSE collection[m]]
                         ELSE [collection EXCEPT ![o.key] = o.content]
  BY DEF Store
<1>2. o \in Op
  BY DEF TypeOK
<1>3. new.key = o.key /\ new.type = o.type /\ new.content = o.content /\ new.stored
  BY <1>2 DEF Op
<1> HIDE DEF new
<1>4. /\ o.type = "delete" => collection'[n] = IF n \in Branch[o.key] THEN None ELSE collection[n]
      /\ o.type # "delete" => collection'[n] = IF n = o.key THEN o.content ELSE collection[n]
  BY <1>1, <1>2 DEF TypeOK, Op, Amiss
<1>5. Removing(n)' <=> Removing(n)
  BY <1>1, <1>3 DEF Removing
<1>6. n \in Branch[n]
  BY MongoAssumption
<1>7. Apart(n)'
  BY <1>1, <1>3 DEF Good, Apart, Deletes
<1>8. Mapped(n)'
  BY <1>1, <1>3 DEF Good, Mapped
<1>9. SetUnderWay(n)'
  <2> SUFFICES ASSUME NEW p \in ops', p.key = n, p.type # "delete"
               PROVE  /\ ~Removing(n)' /\ last'[n] = p.content /\ pending'[n].content = p.content
                      /\ p.stored => collection'[n] = p.content
    BY DEF SetUnderWay
  <2>1. CASE p = new
    BY <2>1, <1>1, <1>3, <1>4, <1>5 DEF Good, SetUnderWay
  <2>2. CASE p \in ops /\ p # o
    <3>1. o.key # n
      BY <2>2, <1>6 DEF Good, Apart
    <3>2. ~(o.type = "delete" /\ n \in Branch[o.key])
      BY <2>2 DEF Good, Apart, Deletes
    <3> QED BY <2>2, <3>1, <3>2, <1>1, <1>4, <1>5 DEF Good, SetUnderWay
  <2> QED BY <1>1, <2>1, <2>2
<1>10. RemovalUnderWay(n)'
  <2> SUFFICES ASSUME NEW p \in ops', Deletes(p, n)
               PROVE  /\ p.key # n => pending'[n].type = "none"
                      /\ p.stored => collection'[n] = None
    BY DEF RemovalUnderWay, Deletes
  <2>1. CASE p = new
    BY <2>1, <1>1, <1>3, <1>4 DEF Good, RemovalUnderWay, Deletes
  <2>2. CASE p \in ops /\ p # o
    <3>1. o.key # n
      BY <2>2 DEF Good, Apart
    <3> QED BY <2>2, <3>1, <1>1, <1>4 DEF Good, RemovalUnderWay, Deletes
  <2> QED BY <1>1, <2>1, <2>2
<1>11. Shown(n)'
  <2>1. CASE Removing(n)
    BY <2>1, <1>1, <1>5 DEF Good, Shown
  <2>2. CASE ~Removing(n)
    <3>1. ~(o.type = "delete" /\ n \in Branch[o.key])
      BY <2>2 DEF Removing
    <3>2. CASE o.key = n
      <4>1. pending[n].type \in {"sent", "set"} /\ pending[n].content = o.content /\ last[n] = o.content
        BY <3>1, <3>2, <1>6 DEF Good, Mapped, SetUnderWay
      <4> QED BY <2>2, <4>1, <1>1, <1>5 DEF Shown, View
    <3>3. CASE o.key # n
      BY <2>2, <3>1, <3>3, <1>1, <1>4, <1>5 DEF Good, Shown, View
    <3> QED BY <3>2, <3>3
  <2> QED BY <2>1, <2>2
<1> QED BY <1>7, <1>8, <1>9, <1>10, <1>11 DEF Good

\* A statement on its way to n, or to a removal that covers n, leaves no
\* other that could decide about n.
LEMMA AnswerGood ==
  ASSUME TypeOK, NEW n \in Keys, Good(n), NEW o \in ops, Answer(o)
  PROVE  Good(n)'
<1>1. /\ o.stored /\ ops' = ops \ {o} /\ last' = last /\ collection' = collection
      /\ pending' = [pending EXCEPT ![o.key] = NoEntry]
  BY DEF Answer
<1>2. o \in Op
  BY DEF TypeOK
<1>3. /\ pending'[o.key].type = "none"
      /\ \A m \in Keys \ {o.key} : pending'[m] = pending[m]
  BY <1>1, <1>2 DEF TypeOK, Op, NoEntry
<1>4. o.key \in Keys /\ \A p \in ops : p.key \in Keys
  BY <1>2 DEF TypeOK, Op
<1>5. n \in Branch[n]
  BY MongoAssumption
<1>6. Removing(n)' => Removing(n)
  BY <1>1, <1>3 DEF Removing
<1>7. Apart(n)'
  BY <1>1 DEF Good, Apart, Deletes
<1>8. Mapped(n)'
  BY <1>1, <1>3, <1>4 DEF Good, Mapped, Apart
<1>9. SetUnderWay(n)'
  BY <1>1, <1>3, <1>4, <1>5, <1>6 DEF Good, SetUnderWay, Apart
<1>10. RemovalUnderWay(n)'
  BY <1>1, <1>3, <1>4 DEF Good, RemovalUnderWay, Deletes
<1>11. Shown(n)'
  <2>1. CASE Removing(n)'
    BY <2>1, <1>1, <1>6 DEF Good, Shown
  <2>2. CASE ~Removing(n)' /\ ~Removing(n)
    <3>1. CASE o.key = n
      <4>1. o.type # "delete"
        BY <2>2, <3>1, <1>5 DEF Removing
      <4> QED BY <2>2, <3>1, <4>1, <1>1, <1>3 DEF Good, SetUnderWay, Shown, View
    <3>2. CASE o.key # n
      BY <2>2, <3>2, <1>1, <1>3 DEF Good, Shown, View
    <3> QED BY <3>1, <3>2
  <2>3. CASE ~Removing(n)' /\ Removing(n)
    <3>1. last[n] = None
      BY <2>3 DEF Good, Shown
    <3>2. Deletes(o, n)
      <4>1. CASE \E p \in ops : p.type = "delete" /\ n \in Branch[p.key]
        BY <4>1, <2>3, <1>1 DEF Removing, Deletes
      <4>2. CASE \E m \in Keys : pending[m].type = "delete" /\ n \in Branch[m]
        <5>1. pending[o.key].type = "delete" /\ n \in Branch[o.key]
          BY <4>2, <2>3, <1>3 DEF Removing
        <5> QED BY <5>1 DEF Good, Mapped, Deletes
      <4> QED BY <2>3, <4>1, <4>2 DEF Removing
    <3>3. collection[n] = None
      BY <3>2, <1>1 DEF Good, RemovalUnderWay
    <3>4. pending'[n].type = "none"
      BY <3>2, <1>3 DEF Good, RemovalUnderWay
    <3> QED BY <2>3, <3>1, <3>3, <3>4, <1>1 DEF Shown, View
  <2> QED BY <2>1, <2>2, <2>3
<1> QED BY <1>7, <1>8, <1>9, <1>10, <1>11 DEF Good

LEMMA RefuseGood ==
  ASSUME TypeOK, NEW n \in Keys, Good(n), NEW o \in ops, Refuse(o)
  PROVE  Good(n)'
<1>1. /\ ops' = ops \ {o} /\ last' = last /\ collection' = collection
      /\ pending' = [pending EXCEPT ![o.key] =
                       [type |-> IF o.type = "delete" THEN "delete" ELSE "set", content |-> o.content]]
  BY DEF Refuse
<1>2. o \in Op
  BY DEF TypeOK
<1>3. /\ pending'[o.key].type = IF o.type = "delete" THEN "delete" ELSE "set"
      /\ pending'[o.key].content = o.content
      /\ \A m \in Keys \ {o.key} : pending'[m] = pending[m]
  BY <1>1, <1>2 DEF TypeOK, Op
<1>4. o.key \in Keys /\ \A p \in ops : p.key \in Keys
  BY <1>2 DEF TypeOK, Op
<1>5. n \in Branch[n]
  BY MongoAssumption
<1>6. Removing(n)' <=> Removing(n)
  <2>1. CASE Deletes(o, n)
    BY <2>1, <1>1, <1>3, <1>4 DEF Removing, Deletes
  <2>2. CASE ~Deletes(o, n)
    <3>1. n \in Branch[o.key] => pending[o.key].type # "delete" /\ o.type # "delete"
      BY <2>2 DEF Good, Mapped, Deletes
    <3> QED BY <2>2, <3>1, <1>1, <1>3 DEF Removing, Deletes
  <2> QED BY <2>1, <2>2
<1>7. Apart(n)'
  BY <1>1 DEF Good, Apart, Deletes
<1>8. Mapped(n)'
  BY <1>1, <1>3, <1>4 DEF Good, Mapped, Apart
<1>9. SetUnderWay(n)'
  BY <1>1, <1>3, <1>4, <1>5, <1>6 DEF Good, SetUnderWay, Apart
<1>10. RemovalUnderWay(n)'
  <2> SUFFICES ASSUME NEW p \in ops', Deletes(p, n)
               PROVE  /\ p.key # n => pending'[n].type = "none"
                      /\ p.stored => collection'[n] = None
    BY DEF RemovalUnderWay, Deletes
  <2>1. p \in ops /\ p # o
    BY <1>1
  <2>2. o.key # n
    BY <2>1 DEF Good, Apart
  <2> QED BY <2>1, <2>2, <1>1, <1>3 DEF Good, RemovalUnderWay
<1>11. Shown(n)'
  <2>1. CASE Removing(n)
    BY <2>1, <1>1, <1>6 DEF Good, Shown
  <2>2. CASE ~Removing(n) /\ o.key = n
    <3>1. o.type # "delete"
      BY <2>2, <1>5 DEF Removing
    <3> QED BY <2>2, <3>1, <1>1, <1>3, <1>6 DEF Good, SetUnderWay, Shown, View
  <2>3. CASE ~Removing(n) /\ o.key # n
    BY <2>3, <1>1, <1>3, <1>6 DEF Good, Shown, View
  <2> QED BY <2>1, <2>2, <2>3
<1> QED BY <1>7, <1>8, <1>9, <1>10, <1>11 DEF Good

\* A retry sends what the map holds, and nothing else concerns the key.
LEMMA ResendGood ==
  ASSUME TypeOK, NEW n \in Keys, Good(n), NEW k \in Keys, Resend(k), n \notin raced'
  PROVE  Good(n)'
<1> DEFINE new == [by |-> 0, key |-> k, type |-> pending[k].type, content |-> pending[k].content,
                   stored |-> FALSE]
<1>1. pending[k] \in Entry /\ pending[k].type \in {"sent", "set", "delete"}
  BY DEF Resend, ToSend, TypeOK
<1>2. [type |-> pending[k].type, content |-> pending[k].content] = pending[k]
  BY <1>1 DEF Entry
<1>3. /\ ops' = ops \cup {new} /\ last' = last /\ collection' = collection
      /\ n \notin Races(k)
  BY DEF Resend, Send
<1>4. pending' = pending
  BY <1>2 DEF Resend, Send, TypeOK
<1>5. new.key = k /\ new.type = pending[k].type /\ new.content = pending[k].content /\ new.stored = FALSE
  OBVIOUS
<1> HIDE DEF new
<1>6. k \in Branch[k] /\ Branch[k] \subseteq Keys
  BY MongoAssumption
<1>7. n \in Branch[k] => /\ \A o \in ops : o.key # k /\ k \notin Branch[o.key] /\ o.key \notin Branch[k]
                         /\ \A m \in Keys \ {k} : m \in Branch[k] \/ k \in Branch[m] => pending[m].type = "none"
  BY <1>3, Unraced
<1>8. Removing(n)' <=> Removing(n)
  BY <1>3, <1>4, <1>5 DEF Removing
<1>9. Apart(n)'
  BY <1>3, <1>5, <1>6, <1>7 DEF Good, Apart, Deletes
<1>10. Mapped(n)'
  BY <1>1, <1>3, <1>4, <1>5 DEF Good, Mapped
<1>11. SetUnderWay(n)'
  <2>1. ASSUME n = k, pending[k].type # "delete" PROVE ~Removing(n) /\ last[n] = pending[n].content
    <3>1. ~Removing(n)
      BY <2>1, <1>6, <1>7 DEF Removing
    <3> QED BY <2>1, <3>1, <1>1 DEF Good, Shown, View
  <2> QED BY <2>1, <1>3, <1>4, <1>5, <1>8 DEF Good, SetUnderWay
<1>12. RemovalUnderWay(n)'
  BY <1>3, <1>4, <1>5, <1>6, <1>7 DEF Good, RemovalUnderWay, Deletes
<1>13. Shown(n)'
  BY <1>3, <1>4, <1>8 DEF Good, Shown, View
<1> QED BY <1>9, <1>10, <1>11, <1>12, <1>13 DEF Good

\* A step that leaves the map, the statements and the rows alone.
LEMMA GoodKept ==
  ASSUME NEW n \in Keys, Good(n), UNCHANGED <<collection, pending, ops, last>>
  PROVE  Good(n)'
BY DEF Good, Apart, Mapped, SetUnderWay, RemovalUnderWay, Shown, Deletes, Removing, View

\* Without statements and with an empty map reads show the rows.
LEMMA FreshGood ==
  ASSUME NEW n \in Keys, ops = {}, pending = [k \in Keys |-> NoEntry], last = collection
  PROVE  Good(n)
<1>1. \A k \in Keys : pending[k].type = "none"
  BY DEF NoEntry
<1>2. ~Removing(n)
  BY <1>1 DEF Removing
<1> QED BY <1>1, <1>2 DEF Good, Apart, Mapped, SetUnderWay, RemovalUnderWay, Shown, Deletes, View

LEMMA FreshGoodPrimed ==
  ASSUME NEW n \in Keys, ops' = {}, pending' = [k \in Keys |-> NoEntry], last' = collection'
  PROVE  Good(n)'
<1>1. \A k \in Keys : pending'[k].type = "none"
  BY DEF NoEntry
<1>2. ~Removing(n)'
  BY <1>1 DEF Removing
<1> QED BY <1>1, <1>2 DEF Good, Apart, Mapped, SetUnderWay, RemovalUnderWay, Shown, Deletes, View

\* What a removal under way or refused takes or misses by mistake is known.
Noted ==
  /\ \A o \in ops : o.type = "delete" => Amiss(o.key) \subseteq strayed
  /\ \A k \in Keys : pending[k].type = "delete" => Amiss(k) \subseteq strayed

LEMMA NextNoted == TypeOK /\ Noted /\ [Next]_vars => Noted'
<1> SUFFICES ASSUME TypeOK, Noted, [Next]_vars PROVE Noted'
  OBVIOUS
<1>1. ASSUME NEW by, NEW k \in Keys, NEW type, NEW content, Send(by, k, type, content),
             type = "delete" => Amiss(k) \subseteq strayed', strayed \subseteq strayed'
      PROVE  Noted'
  <2> DEFINE new == [by |-> by, key |-> k, type |-> type, content |-> content, stored |-> FALSE]
  <2>1. ops' = ops \cup {new}
    BY <1>1 DEF Send
  <2>2. new.key = k /\ new.type = type
    OBVIOUS
  <2>3. \A m \in Keys : pending'[m].type = "delete" => pending[m].type = "delete"
    BY <1>1 DEF Send, TypeOK
  <2> HIDE DEF new
  <2>4. \A o \in ops' : o.type = "delete" => Amiss(o.key) \subseteq strayed'
    BY <1>1, <2>1, <2>2 DEF Noted
  <2>5. \A m \in Keys : pending'[m].type = "delete" => Amiss(m) \subseteq strayed'
    BY <1>1, <2>3 DEF Noted
  <2> QED BY <2>4, <2>5 DEF Noted, Amiss
<1>2. ASSUME NEW k \in Keys, NEW c \in Contents, SetNode(k, c) PROVE Noted'
  BY <1>1, <1>2 DEF SetNode
<1>3. ASSUME NEW k \in Keys, RemoveNode(k) PROVE Noted'
  BY <1>1, <1>3 DEF RemoveNode
<1>4. ASSUME NEW k \in Keys, Resend(k) PROVE Noted'
  <2>1. pending[k].type = "delete" => Amiss(k) \subseteq strayed
    BY DEF Noted
  <2> QED BY <1>1, <1>4, <2>1 DEF Resend
<1>5. ASSUME NEW o \in ops, Store(o) PROVE Noted'
  <2> DEFINE new == [o EXCEPT !.stored = TRUE]
  <2>1. o \in Op /\ ops' = (ops \ {o}) \cup {new} /\ pending' = pending /\ strayed' = strayed
    BY <1>5 DEF Store, TypeOK
  <2>2. new.key = o.key /\ new.type = o.type
    BY <2>1 DEF Op
  <2> HIDE DEF new
  <2> QED BY <2>1, <2>2 DEF Noted, Amiss
<1>6. ASSUME NEW o \in ops, Answer(o) \/ Refuse(o) PROVE Noted'
  <2>1. o \in Op /\ ops' \subseteq ops /\ strayed' = strayed
    BY <1>6 DEF Answer, Refuse, TypeOK
  <2>2. \A k \in Keys : pending'[k].type = "delete" =>
          pending[k].type = "delete" \/ (k = o.key /\ o.type = "delete")
    <3> SUFFICES ASSUME NEW k \in Keys, pending'[k].type = "delete", pending[k].type # "delete"
                 PROVE  k = o.key /\ o.type = "delete"
      OBVIOUS
    <3>1. pending'[k] # pending[k]
      OBVIOUS
    <3>2. CASE Answer(o)
      BY <3>1, <3>2 DEF Answer, TypeOK, NoEntry
    <3>3. CASE Refuse(o)
      <4>1. k = o.key
        BY <3>1, <3>3 DEF Refuse, TypeOK
      <4>2. pending'[k].type = IF o.type = "delete" THEN "delete" ELSE "set"
        BY <3>3, <4>1 DEF Refuse, TypeOK
      <4> QED BY <4>1, <4>2
    <3> QED BY <1>6, <3>2, <3>3
  <2> QED BY <2>1, <2>2 DEF Noted, Amiss
<1>7. ASSUME UNCHANGED <<pending, ops, strayed>> PROVE Noted'
  BY <1>7 DEF Noted, Amiss
<1>8. CASE Die
  <2>1. ops' = {} /\ \A k \in Keys : pending'[k].type # "delete"
    BY <1>8 DEF Die, NoEntry
  <2> QED BY <2>1 DEF Noted
<1>9. CASE Fire \/ (\E k \in Keys : Skip(k)) \/ Leave \/ Disconnect \/ Connect
  BY <1>7, <1>9 DEF Fire, Skip, Leave, Disconnect, Connect
<1>10. CASE UNCHANGED vars
  BY <1>7, <1>10 DEF vars
<1> QED BY <1>2, <1>3, <1>4, <1>5, <1>6, <1>8, <1>9, <1>10 DEF Next

AllGood == \A n \in Keys \ (raced \cup strayed) : Good(n)

LEMMA NextGood == TypeOK /\ Noted /\ AllGood /\ [Next]_vars => AllGood'
<1> SUFFICES ASSUME TypeOK, Noted, AllGood, [Next]_vars,
                    NEW n \in Keys, n \notin raced', n \notin strayed'
             PROVE  Good(n)'
  BY DEF AllGood
<1>1. ASSUME raced \subseteq raced', strayed \subseteq strayed' PROVE Good(n)
  BY <1>1 DEF AllGood
<1>2. ASSUME NEW k \in Keys, NEW c \in Contents, SetNode(k, c) PROVE Good(n)'
  BY <1>2, <1>1, SetNodeGood DEF SetNode
<1>3. ASSUME NEW k \in Keys, RemoveNode(k) PROVE Good(n)'
  BY <1>3, <1>1, RemoveNodeGood DEF RemoveNode
<1>4. ASSUME NEW o \in ops, Store(o) PROVE Good(n)'
  <2>1. o.type = "delete" => n \notin Amiss(o.key)
    BY <1>4 DEF Store, Noted
  <2> QED BY <1>4, <1>1, <2>1, StoreGood DEF Store
<1>5. ASSUME NEW o \in ops, Answer(o) PROVE Good(n)'
  BY <1>5, <1>1, AnswerGood DEF Answer
<1>6. ASSUME NEW o \in ops, Refuse(o) PROVE Good(n)'
  BY <1>6, <1>1, RefuseGood DEF Refuse
<1>7. CASE Fire
  BY <1>7, <1>1, GoodKept DEF Fire
<1>8. ASSUME NEW k \in Keys, Skip(k) PROVE Good(n)'
  BY <1>8, <1>1, GoodKept DEF Skip
<1>9. ASSUME NEW k \in Keys, Resend(k) PROVE Good(n)'
  BY <1>9, <1>1, ResendGood DEF Resend
<1>10. CASE Leave
  BY <1>10, <1>1, GoodKept DEF Leave
<1>11. CASE Disconnect
  BY <1>11, <1>1, GoodKept DEF Disconnect
<1>12. CASE Connect
  BY <1>12, <1>1, GoodKept DEF Connect
<1>13. CASE Die
  BY <1>13, FreshGoodPrimed DEF Die
<1>14. CASE UNCHANGED vars
  BY <1>14, <1>1, GoodKept DEF vars
<1> QED
  BY <1>2, <1>3, <1>4, <1>5, <1>6, <1>7, <1>8, <1>9, <1>10, <1>11, <1>12, <1>13, <1>14 DEF Next

(***************************************************************************)
(* Refused statements, retries and lost answers are invisible to readers   *)
(* of a key that never had two statements at a time and that no removal    *)
(* takes or misses by its expression, for any keys, databases and number   *)
(* of calls, whatever the expressions match.                               *)
(***************************************************************************)
THEOREM ReadsSeeLatestHolds == Spec => []ReadsSeeLatest
<1>1. Init => AllGood /\ Noted
  <2>1. Init => Noted
    BY DEF Init, Noted, NoEntry
  <2> QED BY <2>1, FreshGood DEF Init, AllGood
<1>2. AllGood => ReadsSeeLatest
  BY DEF AllGood, Good, Shown, ReadsSeeLatest
<1> QED BY <1>1, <1>2, NextGood, NextNoted, TypeCorrect, PTL DEF Spec

=============================================================================
