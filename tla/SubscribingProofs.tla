------------------------- MODULE SubscribingProofs -------------------------
(***************************************************************************)
(* Proofs about subscriptions over the socket, for any events, connections *)
(* and requests and any number of copies of a request.                     *)
(***************************************************************************)
EXTENDS Subscribing, SequenceTheorems, FiniteSetTheorems, TLAPS

----------------------------------------------------------------------------
(* The inductive invariant. *)

\* Requests are numbered as they are made.
Numbered ==
  /\ Used = 1..Cardinality(Used)
  /\ \A r \in Ids \ Used : request[r] = NoRequest

\* The copies that were made so far.
Emitted == {c \in Copies : c[2] <= request[c[1]].tries}

Inj(s) == \A i, j \in DOMAIN s : s[i] = s[j] => i = j

\* No copy is in two places, or in one twice: the buffer b of the client, the
\* queues by connection, the awaited checks and the lists by connection.
Apart(b, queues, awaited, lists) ==
  /\ Inj(b)
  /\ \A s \in Sockets : Inj(queues[s]) /\ Inj(lists[s])
  /\ \A s \in Sockets : Items(b) \cap Items(queues[s]) = {} /\ Items(b) \cap Items(lists[s]) = {}
  /\ \A s, t \in Sockets : s # t => /\ Items(queues[s]) \cap Items(queues[t]) = {}
                                    /\ Items(lists[s]) \cap Items(lists[t]) = {}
  /\ \A s, t \in Sockets : Items(queues[s]) \cap Items(lists[t]) = {}
  /\ \A c, d \in awaited : c.copy = d.copy => c = d
  /\ \A c \in awaited :
       /\ c.copy \notin Items(b)
       /\ \A s \in Sockets : c.copy \notin Items(queues[s]) /\ c.copy \notin Items(lists[s])

\* A copy is in one of these places.
Somewhere(m, b, queues, awaited, lists) ==
  \/ m \in Items(b)
  \/ \E s \in Sockets : m \in Items(queues[s]) \/ m \in Items(lists[s])
  \/ \E c \in awaited : m = c.copy

\* Every copy is in one place at most, and was made.
Once ==
  /\ Apart(buffer, inbox, checks, subs)
  /\ \A m : Somewhere(m, buffer, inbox, checks, subs) => m \in Emitted

Inv == TypeOK /\ Numbered /\ Once /\ ListsAgree

----------------------------------------------------------------------------
(* Lines and lists. *)

\* What a line is with one message more.
LEMMA ItemsAppend ==
  ASSUME NEW S, NEW s \in Seq(S), NEW m \in S
  PROVE  /\ Append(s, m) \in Seq(S)
         /\ Items(Append(s, m)) = Items(s) \cup {m}
         /\ Inj(s) /\ m \notin Items(s) => Inj(Append(s, m))
<1>1. /\ Append(s, m) \in Seq(S) /\ Len(s) \in Nat /\ DOMAIN s = 1..Len(s)
      /\ DOMAIN Append(s, m) = 1..(Len(s) + 1) /\ Append(s, m)[Len(s) + 1] = m
      /\ \A i \in 1..Len(s) : Append(s, m)[i] = s[i]
  BY AppendProperties, LenProperties
<1>2. Items(Append(s, m)) = Items(s) \cup {m}
  BY <1>1 DEF Items
<1>3. ASSUME Inj(s), m \notin Items(s)
      PROVE  Inj(Append(s, m))
  BY <1>1, <1>3 DEF Inj, Items
<1> QED BY <1>1, <1>2, <1>3

\* What a line is without its first message.
LEMMA ItemsTail ==
  ASSUME NEW S, NEW s \in Seq(S), s # <<>>
  PROVE  /\ Tail(s) \in Seq(S) /\ Head(s) \in S /\ Head(s) \in Items(s)
         /\ Items(s) = {Head(s)} \cup Items(Tail(s))
         /\ Inj(s) => Inj(Tail(s)) /\ Head(s) \notin Items(Tail(s))
<1>1. /\ Head(s) \in S /\ Tail(s) \in Seq(S) /\ Len(Tail(s)) = Len(s) - 1
      /\ Len(s) \in Nat \ {0} /\ DOMAIN s = 1..Len(s) /\ Head(s) = s[1]
      /\ DOMAIN Tail(s) = 1..(Len(s) - 1)
      /\ \A i \in 1..(Len(s) - 1) : Tail(s)[i] = s[i + 1]
  BY HeadTailProperties, LenProperties, EmptySeq
<1>2. \A i \in 1..(Len(s) - 1) : i + 1 \in 1..Len(s) /\ i + 1 # 1
  BY <1>1
<1>3. Head(s) \in Items(s)
  BY <1>1 DEF Items
<1>4. ASSUME NEW x \in Items(s)
      PROVE  x \in {Head(s)} \cup Items(Tail(s))
  <2>1. PICK i \in 1..Len(s) : x = s[i]
    BY <1>1, <1>4 DEF Items
  <2>2. CASE i = 1
    BY <1>1, <2>1, <2>2
  <2>3. CASE i # 1
    <3>1. i - 1 \in 1..(Len(s) - 1) /\ Tail(s)[i - 1] = s[i]
      BY <1>1, <2>3
    <3> QED BY <1>1, <2>1, <3>1 DEF Items
  <2> QED BY <2>2, <2>3
<1>5. Items(Tail(s)) \subseteq Items(s)
  BY <1>1, <1>2 DEF Items
<1>6. ASSUME Inj(s)
      PROVE  Inj(Tail(s)) /\ Head(s) \notin Items(Tail(s))
  <2>1. ASSUME NEW i \in DOMAIN Tail(s), NEW j \in DOMAIN Tail(s), Tail(s)[i] = Tail(s)[j]
        PROVE  i = j
    <3>1. i + 1 = j + 1
      BY <1>1, <1>2, <1>6, <2>1 DEF Inj
    <3> QED BY <1>1, <3>1
  <2>2. \A i \in DOMAIN Tail(s) : Tail(s)[i] # Head(s)
    BY <1>1, <1>2, <1>6 DEF Inj
  <2> QED BY <2>1, <2>2 DEF Inj, Items
<1> QED BY <1>1, <1>3, <1>4, <1>5, <1>6

\* Two lines one after the other.
LEMMA ItemsConcat ==
  ASSUME NEW S, NEW s \in Seq(S), NEW t \in Seq(S)
  PROVE  /\ s \o t \in Seq(S)
         /\ Items(s \o t) = Items(s) \cup Items(t)
         /\ Inj(s) /\ Inj(t) /\ Items(s) \cap Items(t) = {} => Inj(s \o t)
<1> DEFINE n == Len(s)
           u == s \o t
<1>1. /\ n \in Nat /\ Len(t) \in Nat /\ DOMAIN s = 1..n /\ DOMAIN t = 1..Len(t)
      /\ u \in Seq(S) /\ DOMAIN u = 1..(n + Len(t))
      /\ \A i \in 1..(n + Len(t)) : u[i] = IF i <= n THEN s[i] ELSE t[i - n]
  BY ConcatProperties, LenProperties
<1> HIDE DEF n, u
<1>2. ASSUME NEW i \in DOMAIN u
      PROVE  \/ i \in DOMAIN s /\ u[i] = s[i]
             \/ i - n \in DOMAIN t /\ u[i] = t[i - n]
  <2>1. CASE i <= n
    BY <1>1, <2>1
  <2>2. CASE ~(i <= n)
    <3>1. i - n \in 1..Len(t)
      BY <1>1, <2>2
    <3> QED BY <1>1, <2>2, <3>1
  <2> QED BY <2>1, <2>2
<1>3. ASSUME NEW i \in DOMAIN s
      PROVE  i \in DOMAIN u /\ u[i] = s[i]
  BY <1>1
<1>4. ASSUME NEW i \in DOMAIN t
      PROVE  n + i \in DOMAIN u /\ u[n + i] = t[i]
  <2>1. n + i \in 1..(n + Len(t)) /\ ~(n + i <= n) /\ (n + i) - n = i
    BY <1>1
  <2> QED BY <1>1, <2>1
<1>5. Items(u) = Items(s) \cup Items(t)
  BY <1>2, <1>3, <1>4 DEF Items
<1>6. ASSUME Inj(s), Inj(t), Items(s) \cap Items(t) = {}
      PROVE  Inj(u)
  <2> SUFFICES ASSUME NEW i \in DOMAIN u, NEW j \in DOMAIN u, u[i] = u[j]
               PROVE  i = j
    BY DEF Inj
  <2>1. i \in Nat /\ j \in Nat
    BY <1>1
  <2>2. CASE i \in DOMAIN s /\ u[i] = s[i] /\ j \in DOMAIN s /\ u[j] = s[j]
    BY <1>6, <2>2 DEF Inj
  <2>3. CASE i - n \in DOMAIN t /\ u[i] = t[i - n] /\ j - n \in DOMAIN t /\ u[j] = t[j - n]
    <3>1. i - n = j - n
      BY <1>6, <2>3 DEF Inj
    <3> QED BY <1>1, <2>1, <3>1
  <2>4. CASE i \in DOMAIN s /\ u[i] = s[i] /\ j - n \in DOMAIN t /\ u[j] = t[j - n]
    BY <1>6, <2>4 DEF Items
  <2>5. CASE j \in DOMAIN s /\ u[j] = s[j] /\ i - n \in DOMAIN t /\ u[i] = t[i - n]
    BY <1>6, <2>5 DEF Items
  <2> QED BY <1>2, <2>2, <2>3, <2>4, <2>5
<1> QED BY <1>1, <1>5, <1>6 DEF u

\* How many of a set of positions are up to one of them.
Rank(keep, i) == Cardinality({k \in keep : k <= i})

\* A finite set of positions can be counted through by rank.
LEMMA RankCounts ==
  ASSUME NEW n \in Nat, NEW keep \in SUBSET (1..n)
  PROVE  /\ Cardinality(keep) \in Nat
         /\ \A i \in keep : Rank(keep, i) \in 1..Cardinality(keep)
         /\ \A i, j \in keep : Rank(keep, i) = Rank(keep, j) => i = j
         /\ \A j \in 1..Cardinality(keep) : \E i \in keep : Rank(keep, i) = j
<1> DEFINE m == Cardinality(keep)
           upto(i) == {k \in keep : k <= i}
<1>1. IsFiniteSet(keep) /\ m \in Nat
  <2>1. IsFiniteSet(1..n)
    BY FS_Interval
  <2>2. IsFiniteSet(keep)
    BY <2>1, FS_Subset
  <2> QED BY <2>2, FS_CardinalityType
<1>2. ASSUME NEW i \in keep
      PROVE  /\ IsFiniteSet(upto(i)) /\ i \in upto(i) /\ upto(i) \subseteq keep
             /\ Rank(keep, i) = Cardinality(upto(i)) /\ Rank(keep, i) \in 1..m
  <2>1. i \in upto(i) /\ upto(i) \subseteq keep
    BY <1>2
  <2>2. IsFiniteSet(upto(i)) /\ Cardinality(upto(i)) <= m
    BY <1>1, <2>1, FS_Subset
  <2>3. Cardinality(upto(i)) \in Nat /\ Cardinality(upto(i)) # 0
    BY <2>1, <2>2, FS_CardinalityType, FS_EmptySet
  <2>4. Rank(keep, i) = Cardinality(upto(i))
    BY DEF Rank
  <2> HIDE DEF upto, m
  <2> QED BY <1>1, <2>1, <2>2, <2>3, <2>4
<1>3. ASSUME NEW i \in keep, NEW j \in keep, Rank(keep, i) = Rank(keep, j), i < j
      PROVE  FALSE
  <2>0. \A k \in keep : k \in Nat
    OBVIOUS
  <2>a. i \in Nat /\ j \in Nat
    BY <2>0
  <2>b. \A k \in keep : k <= i => k <= j
    BY <1>3, <2>0, <2>a
  <2>c. ~(j <= i) /\ j <= j
    BY <1>3, <2>a
  <2>1. upto(i) \subseteq upto(j) /\ j \in upto(j) /\ j \notin upto(i)
    BY <2>b, <2>c
  <2>2. Cardinality(upto(i)) = Cardinality(upto(j)) /\ IsFiniteSet(upto(j))
    BY <1>2, <1>3
  <2>3. upto(i) = upto(j)
    BY <2>1, <2>2, FS_Subset
  <2> QED BY <2>1, <2>3
<1>4. ASSUME NEW i \in keep, NEW j \in keep, Rank(keep, i) = Rank(keep, j)
      PROVE  i = j
  <2>1. i < j \/ j < i \/ i = j
    OBVIOUS
  <2> QED BY <1>3, <1>4, <2>1
<1> DEFINE f == [i \in keep |-> Rank(keep, i)]
<1>5. f \in Injection(keep, 1..m)
  BY <1>2, <1>4 DEF Injection, IsInjective
<1>6. IsFiniteSet(1..m) /\ Cardinality(1..m) = m
  <2>1. Cardinality(1..m) = IF 1 > m THEN 0 ELSE m - 1 + 1
    BY <1>1, FS_Interval
  <2>2. IsFiniteSet(1..m)
    BY <1>1, FS_Interval
  <2> HIDE DEF m
  <2> QED BY <1>1, <2>1, <2>2
<1>7. f \in Surjection(keep, 1..m)
  <2> HIDE DEF f, m
  <2>1. Cardinality(keep) = Cardinality(1..m)
    BY <1>6 DEF m
  <2> QED BY <1>5, <1>6, <2>1, FS_Injection
<1>8. \A j \in 1..m : \E i \in keep : Rank(keep, i) = j
  BY <1>7 DEF Surjection
<1> QED BY <1>1, <1>2, <1>4, <1>8

\* A list without some of its entries, in the same order, holds the others.
LEMMA WithoutMeaning ==
  ASSUME NEW S, NEW l \in Seq(S), NEW gone \in SUBSET DOMAIN l
  PROVE  /\ Without(l, gone) \in Seq(S)
         /\ Items(Without(l, gone)) = {l[i] : i \in DOMAIN l \ gone}
         /\ Inj(l) => Inj(Without(l, gone))
         /\ Inj(l) => Items(Without(l, gone)) = Items(l) \ {l[i] : i \in gone}
<1> DEFINE keep == {i \in DOMAIN l : i \notin gone}
           m == Cardinality(keep)
           at == [j \in 1..m |-> CHOOSE i \in keep : Rank(keep, i) = j]
           w == Without(l, gone)
<1>1. Len(l) \in Nat /\ DOMAIN l = 1..Len(l) /\ \A i \in 1..Len(l) : l[i] \in S
  BY LenProperties, ElementOfSeq
<1>2. keep \in SUBSET (1..Len(l))
  BY <1>1
<1>3. w = [j \in 1..m |-> l[at[j]]]
  BY DEF Without, Rank
<1> HIDE DEF keep, w
<1>4. /\ m \in Nat
      /\ \A i \in keep : Rank(keep, i) \in 1..m
      /\ \A i, j \in keep : Rank(keep, i) = Rank(keep, j) => i = j
      /\ \A j \in 1..m : \E i \in keep : Rank(keep, i) = j
  BY <1>1, <1>2, RankCounts
<1> HIDE DEF m
<1>5. ASSUME NEW j \in 1..m
      PROVE  at[j] \in keep /\ Rank(keep, at[j]) = j
  BY <1>4
<1>6. ASSUME NEW i \in keep
      PROVE  Rank(keep, i) \in 1..m /\ at[Rank(keep, i)] = i
  <2>1. Rank(keep, i) \in 1..m
    BY <1>4
  <2>2. at[Rank(keep, i)] \in keep /\ Rank(keep, at[Rank(keep, i)]) = Rank(keep, i)
    BY <1>5, <2>1
  <2> QED BY <1>4, <2>1, <2>2
<1> HIDE DEF at
<1>7. w \in Seq(S) /\ DOMAIN w = 1..m /\ \A j \in 1..m : w[j] = l[at[j]]
  <2>1. \A j \in 1..m : l[at[j]] \in S
    BY <1>1, <1>2, <1>5
  <2>2. w \in [1..m -> S]
    BY <1>3, <2>1
  <2> QED BY <1>3, <1>4, <2>2, SeqDef
<1>8. Items(w) = {l[i] : i \in keep}
  BY <1>5, <1>6, <1>7 DEF Items
<1>9. keep = DOMAIN l \ gone
  BY DEF keep
<1>10. ASSUME Inj(l)
       PROVE  Inj(w)
  <2> SUFFICES ASSUME NEW i \in 1..m, NEW j \in 1..m, w[i] = w[j]
               PROVE  i = j
    BY <1>7 DEF Inj
  <2>1. at[i] \in DOMAIN l /\ at[j] \in DOMAIN l
    BY <1>1, <1>2, <1>5
  <2>2. l[at[i]] = l[at[j]]
    BY <1>7
  <2>3. at[i] = at[j]
    BY <1>10, <2>1, <2>2 DEF Inj
  <2> QED BY <1>5, <2>3
<1>11. ASSUME Inj(l)
       PROVE  Items(w) = Items(l) \ {l[i] : i \in gone}
  BY <1>8, <1>9, <1>11 DEF Inj, Items
<1> QED BY <1>7, <1>8, <1>9, <1>10, <1>11 DEF w

----------------------------------------------------------------------------
(* Copies on their way. *)

Boxes == [Sockets -> Seq(Copies)]

\* A copy that is nowhere yet enters the buffer or a queue.
LEMMA ApartNew ==
  ASSUME NEW b \in Seq(Copies), NEW queues \in Boxes, NEW awaited, NEW lists \in Boxes,
         Apart(b, queues, awaited, lists),
         NEW m \in Copies, ~Somewhere(m, b, queues, awaited, lists)
  PROVE  /\ Apart(Append(b, m), queues, awaited, lists)
         /\ \A s \in Sockets :
              Apart(b, [queues EXCEPT ![s] = Append(@, m)], awaited, lists)
<1>1. /\ m \notin Items(b) /\ \A s \in Sockets : m \notin Items(queues[s]) /\ m \notin Items(lists[s])
      /\ \A c \in awaited : c.copy # m
  BY DEF Somewhere
<1>2. Inj(Append(b, m)) /\ Items(Append(b, m)) = Items(b) \cup {m}
  BY <1>1, ItemsAppend DEF Apart
<1>3. Apart(Append(b, m), queues, awaited, lists)
  <2>1. /\ \A s \in Sockets : Items(Append(b, m)) \cap Items(queues[s]) = {}
        /\ \A s \in Sockets : Items(Append(b, m)) \cap Items(lists[s]) = {}
    BY <1>1, <1>2 DEF Apart
  <2>2. \A c \in awaited : c.copy \notin Items(Append(b, m))
    BY <1>1, <1>2 DEF Apart
  <2> QED BY <1>2, <2>1, <2>2 DEF Apart
<1>4. ASSUME NEW s \in Sockets
      PROVE  Apart(b, [queues EXCEPT ![s] = Append(@, m)], awaited, lists)
  <2> DEFINE q == [queues EXCEPT ![s] = Append(@, m)]
  <2>1. q[s] = Append(queues[s], m) /\ \A t \in Sockets \ {s} : q[t] = queues[t]
    BY DEF Boxes
  <2> HIDE DEF q
  <2>2. Inj(q[s]) /\ Items(q[s]) = Items(queues[s]) \cup {m}
    <3>1. queues[s] \in Seq(Copies) /\ Inj(queues[s])
      BY DEF Boxes, Apart
    <3> QED BY <1>1, <2>1, <3>1, ItemsAppend
  <2>3. \A t \in Sockets : Items(q[t]) = IF t = s THEN Items(queues[s]) \cup {m} ELSE Items(queues[t])
    BY <2>1, <2>2
  <2>4. \A t \in Sockets : Inj(q[t]) /\ Inj(lists[t])
    BY <2>1, <2>2 DEF Apart
  <2>5. \A t, u \in Sockets : t # u => Items(q[t]) \cap Items(q[u]) = {}
    BY <1>1, <2>3 DEF Apart
  <2>6. ASSUME NEW t \in Sockets
        PROVE  /\ Items(b) \cap Items(q[t]) = {}
               /\ \A u \in Sockets : Items(q[t]) \cap Items(lists[u]) = {}
    <3>1. Items(q[t]) \subseteq Items(queues[t]) \cup {m}
      BY <2>3
    <3>2. /\ Items(b) \cap Items(queues[t]) = {}
          /\ \A u \in Sockets : Items(queues[t]) \cap Items(lists[u]) = {}
      BY DEF Apart
    <3> QED BY <1>1, <3>1, <3>2
  <2>7. \A c \in awaited : \A t \in Sockets : c.copy \notin Items(q[t])
    BY <1>1, <2>3 DEF Apart
  <2>8. Apart(b, q, awaited, lists)
    BY <2>4, <2>5, <2>6, <2>7 DEF Apart
  <2> QED BY <2>8 DEF q
<1> QED BY <1>3, <1>4

\* Queues and lists from which copies are taken.
LEMMA ApartFewer ==
  ASSUME NEW b, NEW queues, NEW awaited, NEW lists, Apart(b, queues, awaited, lists),
         NEW queues2, NEW lists2, NEW awaited2, awaited2 \subseteq awaited,
         \A s \in Sockets : /\ Inj(queues2[s]) /\ Items(queues2[s]) \subseteq Items(queues[s])
                            /\ Inj(lists2[s]) /\ Items(lists2[s]) \subseteq Items(lists[s])
  PROVE  Apart(b, queues2, awaited2, lists2)
<1>1. \A s, t \in Sockets : s # t => /\ Items(queues2[s]) \cap Items(queues2[t]) = {}
                                     /\ Items(lists2[s]) \cap Items(lists2[t]) = {}
  BY DEF Apart
<1>2. \A s, t \in Sockets : Items(queues2[s]) \cap Items(lists2[t]) = {}
  BY DEF Apart
<1>3. \A s \in Sockets : Items(b) \cap Items(queues2[s]) = {} /\ Items(b) \cap Items(lists2[s]) = {}
  BY DEF Apart
<1>4. /\ \A c, d \in awaited2 : c.copy = d.copy => c = d
      /\ \A c \in awaited2 :
           /\ c.copy \notin Items(b)
           /\ \A s \in Sockets : c.copy \notin Items(queues2[s]) /\ c.copy \notin Items(lists2[s])
  BY DEF Apart
<1> QED BY <1>1, <1>2, <1>3, <1>4 DEF Apart

\* A copy that is nowhere yet is checked.
LEMMA ApartChecks ==
  ASSUME NEW b, NEW queues, NEW awaited, NEW lists, Apart(b, queues, awaited, lists),
         NEW c, ~Somewhere(c.copy, b, queues, awaited, lists)
  PROVE  Apart(b, queues, awaited \cup {c}, lists)
BY DEF Apart, Somewhere

\* A copy that is nowhere yet enters a list.
LEMMA ApartLists ==
  ASSUME NEW b, NEW queues, NEW awaited, NEW lists \in Boxes, Apart(b, queues, awaited, lists),
         NEW m \in Copies, ~Somewhere(m, b, queues, awaited, lists), NEW s \in Sockets
  PROVE  Apart(b, queues, awaited, [lists EXCEPT ![s] = Append(@, m)])
<1> DEFINE q == [lists EXCEPT ![s] = Append(@, m)]
<1>1. /\ m \notin Items(b) /\ \A t \in Sockets : m \notin Items(queues[t]) /\ m \notin Items(lists[t])
      /\ \A c \in awaited : c.copy # m
  BY DEF Somewhere
<1>2. q[s] = Append(lists[s], m) /\ \A t \in Sockets \ {s} : q[t] = lists[t]
  BY DEF Boxes
<1> HIDE DEF q
<1>3. Inj(q[s]) /\ Items(q[s]) = Items(lists[s]) \cup {m}
  <2>1. lists[s] \in Seq(Copies) /\ Inj(lists[s])
    BY DEF Boxes, Apart
  <2> QED BY <1>1, <1>2, <2>1, ItemsAppend
<1>4. \A t \in Sockets : Items(q[t]) = IF t = s THEN Items(lists[s]) \cup {m} ELSE Items(lists[t])
  BY <1>2, <1>3
<1>5. \A t \in Sockets : Inj(q[t]) /\ Inj(queues[t])
  BY <1>2, <1>3 DEF Apart
<1>6. \A t, u \in Sockets : t # u => Items(q[t]) \cap Items(q[u]) = {}
  BY <1>1, <1>4 DEF Apart
<1>7. /\ \A t \in Sockets : Items(b) \cap Items(q[t]) = {}
      /\ \A t, u \in Sockets : Items(queues[t]) \cap Items(q[u]) = {}
  BY <1>1, <1>4 DEF Apart
<1>8. \A c \in awaited : \A t \in Sockets : c.copy \notin Items(q[t])
  BY <1>1, <1>4 DEF Apart
<1>9. Apart(b, queues, awaited, q)
  BY <1>5, <1>6, <1>7, <1>8 DEF Apart
<1> QED BY <1>9 DEF q

----------------------------------------------------------------------------
(* The client. *)

\* The requests made so far are finitely many.
LEMMA UsedCount ==
  ASSUME TypeOK, Numbered
  PROVE  /\ Cardinality(Used) \in 0..MaxRequests
         /\ \A r \in Ids : r \in Used <=> r <= Cardinality(Used)
<1>1. Used \subseteq 1..MaxRequests /\ MaxRequests \in Nat
  BY SubscribingAssumption DEF Used, Ids
<1>2. IsFiniteSet(1..MaxRequests) /\ Cardinality(1..MaxRequests) = MaxRequests
  <2>1. Cardinality(1..MaxRequests) = IF 1 > MaxRequests THEN 0 ELSE MaxRequests - 1 + 1
    BY <1>1, FS_Interval
  <2>2. IsFiniteSet(1..MaxRequests)
    BY <1>1, FS_Interval
  <2> QED BY <1>1, <2>1, <2>2
<1>3. IsFiniteSet(Used) /\ Cardinality(Used) <= MaxRequests
  BY <1>1, <1>2, FS_Subset
<1>4. Cardinality(Used) \in Nat
  BY <1>3, FS_CardinalityType
<1>5. \A r \in Ids : r \in 1..Cardinality(Used) <=> r <= Cardinality(Used)
  BY <1>1, <1>4 DEF Ids
<1>6. Used = 1..Cardinality(Used)
  BY DEF Numbered
<1> QED BY <1>1, <1>3, <1>4, <1>5, <1>6

\* The first numbers up to n.
LEMMA CountTo == \A n \in Nat : Cardinality(1..n) = n
<1> SUFFICES ASSUME NEW n \in Nat PROVE Cardinality(1..n) = n
  OBVIOUS
<1>1. Cardinality(1..n) = IF 1 > n THEN 0 ELSE n - 1 + 1
  BY FS_Interval
<1> QED BY <1>1

\* What a message that is sent does to the places of copies.
LEMMA EmitEffect ==
  ASSUME TypeOK, Once, NEW m \in Copies, m \notin Emitted, m \in Emitted', Emitted \subseteq Emitted',
         Emit(m), checks' = checks, subs' = subs
  PROVE  /\ Once'
         /\ buffer' \in Seq(Copies) /\ inbox' \in Boxes
<1>1. /\ buffer \in Seq(Copies) /\ inbox \in Boxes /\ subs \in Boxes
      /\ conn \in Sockets \cup {None}
  BY DEF TypeOK, Boxes
<1>2. ~Somewhere(m, buffer, inbox, checks, subs) /\ Apart(buffer, inbox, checks, subs)
  BY DEF Once
<1>3. CASE conn = None
  <2>1. buffer' = Append(buffer, m) /\ inbox' = inbox
    BY <1>3 DEF Emit
  <2>2. Items(buffer') = Items(buffer) \cup {m} /\ buffer' \in Seq(Copies)
    BY <1>1, <2>1, ItemsAppend
  <2>3. Apart(buffer', inbox, checks, subs)
    BY <1>1, <1>2, <2>1, ApartNew
  <2>4. \A x : Somewhere(x, buffer', inbox, checks, subs) => x \in Emitted'
    BY <2>2 DEF Once, Somewhere
  <2> QED BY <1>1, <2>1, <2>2, <2>3, <2>4 DEF Once
<1>4. CASE conn # None
  <2>1. buffer' = buffer /\ inbox' = [inbox EXCEPT ![conn] = Append(@, m)] /\ conn \in Sockets
    BY <1>1, <1>4 DEF Emit
  <2>2. /\ inbox'[conn] = Append(inbox[conn], m)
        /\ \A s \in Sockets \ {conn} : inbox'[s] = inbox[s]
    BY <1>1, <2>1 DEF Boxes
  <2>3. Items(inbox'[conn]) = Items(inbox[conn]) \cup {m} /\ inbox'[conn] \in Seq(Copies)
    <3>1. inbox[conn] \in Seq(Copies)
      BY <1>1, <2>1 DEF Boxes
    <3> QED BY <2>2, <3>1, ItemsAppend
  <2>4. inbox' \in Boxes
    BY <1>1, <2>1, <2>2, <2>3 DEF Boxes
  <2>5. Apart(buffer, inbox', checks, subs)
    BY <1>1, <1>2, <2>1, ApartNew
  <2>6. \A x : Somewhere(x, buffer, inbox', checks, subs) => x \in Emitted'
    <3>1. \A s \in Sockets : Items(inbox'[s]) \subseteq Items(inbox[s]) \cup {m}
      BY <2>2, <2>3
    <3> QED BY <3>1 DEF Once, Somewhere
  <2> QED BY <1>1, <2>1, <2>4, <2>5, <2>6 DEF Once
<1> QED BY <1>3, <1>4

\* A call of the client: a new request and its first copy.
LEMMA CallStep ==
  ASSUME Inv, NEW kind \in {"subscribe", "unsubscribe"}, NEW e \in Events \cup {AnyEvent},
         Call(kind, e), wanted' \in [Events -> 0..MaxCallbacks], clean' \in BOOLEAN,
         UNCHANGED <<conn, line, answers, server>>
  PROVE  Inv'
<1> DEFINE r == Cardinality(Used) + 1
           n == New(kind, e, conn # None)
<1> USE DEF Inv
<1>1. /\ r \in Ids /\ r \in Nat \ {0} /\ r \notin Used /\ Used = 1..(r - 1)
      /\ request' = [request EXCEPT ![r] = n] /\ Emit(<<r, 1>>)
  <2>1. Cardinality(Used) \in Nat
    BY UsedCount, SubscribingAssumption
  <2>2. r \in Ids /\ request' = [request EXCEPT ![r] = n] /\ Emit(<<r, 1>>)
    BY DEF Call
  <2>3. r \notin Used
    BY <2>1, <2>2, UsedCount
  <2>4. Used = 1..Cardinality(Used) /\ r - 1 = Cardinality(Used)
    BY <2>1 DEF Numbered
  <2> QED BY <2>1, <2>2, <2>3, <2>4
<1>2. n \in Request /\ n.kind = kind /\ n.tries = 1
  <2>1. 1 \in 0..MaxTries
    BY SubscribingAssumption
  <2> QED BY <2>1 DEF New, Request
<1> HIDE DEF r, n
<1>3. request[r] = NoRequest /\ request[r].tries = 0
  <2>1. request[r] = NoRequest
    BY <1>1 DEF Numbered
  <2>2. NoRequest.tries = 0
    BY DEF NoRequest
  <2> QED BY <2>1, <2>2
<1>4. /\ request' \in [Ids -> Request] /\ request'[r] = n
      /\ \A q \in Ids \ {r} : request'[q] = request[q]
  BY <1>1, <1>2 DEF TypeOK
<1>5. Used' = Used \cup {r}
  BY <1>1, <1>2, <1>4 DEF Used
<1>6. Numbered'
  <2>1. Used' = 1..r
    <3>1. 1..r = (1..(r - 1)) \cup {r}
      BY <1>1
    <3> QED BY <1>1, <1>5, <3>1
  <2>2. Cardinality(Used') = r
    BY <1>1, <2>1, CountTo
  <2>3. \A q \in Ids \ Used' : request'[q] = NoRequest
    BY <1>4, <1>5 DEF Numbered
  <2> QED BY <2>1, <2>2, <2>3 DEF Numbered
<1>7. <<r, 1>> \in Copies /\ <<r, 1>> \notin Emitted /\ <<r, 1>> \in Emitted'
  <2>1. <<r, 1>> \in Copies
    BY <1>1, SubscribingAssumption DEF Copies
  <2> QED BY <1>2, <1>3, <1>4, <2>1 DEF Emitted
<1>8. Emitted \subseteq Emitted'
  <2>1. \A m \in Emitted : m \in Copies /\ m[1] \in Ids /\ m[2] \in Nat \ {0}
                         /\ m[2] <= request[m[1]].tries
    BY DEF Emitted, Copies
  <2>2. \A m \in Emitted : m[1] # r
    BY <1>3, <2>1
  <2> QED BY <1>4, <2>1, <2>2 DEF Emitted
<1>9. Once' /\ buffer' \in Seq(Copies) /\ inbox' \in Boxes
  BY <1>1, <1>7, <1>8, EmitEffect DEF server
<1>10. TypeOK'
  BY <1>4, <1>9 DEF TypeOK, Boxes, server
<1>11. ListsAgree'
  BY DEF ListsAgree, server
<1> QED BY <1>6, <1>9, <1>10, <1>11

\* A copy that is sent when the timer of a request fires.
LEMMA RetryStep ==
  ASSUME Inv, NEW r \in Ids, Retry(r)
  PROVE  Inv'
<1> DEFINE m == <<r, request[r].tries + 1>>
           n == [request[r] EXCEPT !.tries = @ + 1,
                                   !.promise = IF conn = None THEN "rejected" ELSE @]
<1> USE DEF Inv
<1>1. /\ request \in [Ids -> Request] /\ request[r] \in Request /\ request[r].listening
      /\ request[r].tries \in 0..MaxTries /\ request[r].tries < MaxTries
      /\ request' = [request EXCEPT ![r] = n] /\ Emit(m)
  BY DEF Retry, TypeOK, Request
<1>2. /\ n \in Request /\ n.kind = request[r].kind /\ n.tries = request[r].tries + 1
  <2>1. request[r].tries + 1 \in 0..MaxTries
    BY <1>1, SubscribingAssumption
  <2> QED BY <1>1, <2>1 DEF Request
<1>3. m \in Copies /\ m[1] = r /\ m[2] = request[r].tries + 1
  <2>1. request[r].tries + 1 \in 1..MaxTries
    BY <1>1, SubscribingAssumption
  <2> QED BY <2>1 DEF Copies
<1> HIDE DEF m, n
<1>4. /\ request' \in [Ids -> Request] /\ request'[r] = n
      /\ \A q \in Ids \ {r} : request'[q] = request[q]
  BY <1>1, <1>2
<1>5. r \in Used
  <2>1. r \notin Used => request[r] = NoRequest
    BY DEF Numbered
  <2> QED BY <1>1, <2>1 DEF NoRequest
<1>6. Numbered'
  <2>1. Used' = Used
    BY <1>2, <1>4 DEF Used
  <2> QED BY <1>4, <1>5, <2>1 DEF Numbered
<1>7. m \notin Emitted /\ m \in Emitted'
  BY <1>1, <1>2, <1>3, <1>4 DEF Emitted
<1>8. Emitted \subseteq Emitted'
  <2>1. \A k \in Emitted : k \in Copies /\ k[1] \in Ids /\ k[2] \in Nat
                         /\ k[2] <= request[k[1]].tries
    BY DEF Emitted, Copies
  <2>2. \A q \in Ids : /\ request[q].tries \in Nat /\ request'[q].tries \in Nat
                       /\ request[q].tries <= request'[q].tries
    <3>1. \A x \in Request : x.tries \in Nat
      BY DEF Request
    <3> QED BY <1>1, <1>2, <1>4, <3>1
  <2> QED BY <2>1, <2>2 DEF Emitted
<1>9. checks' = checks /\ subs' = subs /\ UNCHANGED <<wanted, conn, line, answers, server>>
  BY DEF Retry, server
<1>10. Once' /\ buffer' \in Seq(Copies) /\ inbox' \in Boxes
  BY <1>1, <1>3, <1>7, <1>8, <1>9, EmitEffect
<1>11. clean' \in BOOLEAN
  BY DEF Retry
<1>12. TypeOK'
  BY <1>4, <1>9, <1>10, <1>11 DEF TypeOK, Boxes, server
<1>13. ListsAgree'
  BY <1>9 DEF ListsAgree, server
<1> QED BY <1>6, <1>10, <1>12, <1>13

\* Changes of a request that neither send a copy nor make it another one.
LEMMA SettledStep ==
  ASSUME Inv, TypeOK', NEW r \in Ids, request'[r].kind = request[r].kind,
         request'[r].tries = request[r].tries, request[r] = NoRequest => request'[r] = NoRequest,
         \A q \in Ids \ {r} : request'[q] = request[q],
         UNCHANGED <<buffer, inbox, checks, subs, database>>
  PROVE  Inv'
<1> USE DEF Inv
<1>1. Used' = Used
  BY DEF Used
<1>2. Numbered'
  BY <1>1 DEF Numbered
<1>3. \A q \in Ids : request'[q].tries = request[q].tries
  OBVIOUS
<1>4. Emitted' = Emitted
  <2>1. \A m \in Copies : m[1] \in Ids
    BY DEF Copies
  <2> QED BY <1>3, <2>1 DEF Emitted
<1>5. Once'
  BY <1>4 DEF Once
<1>6. ListsAgree'
  BY DEF ListsAgree
<1> QED BY <1>2, <1>5, <1>6

\* A request that the client gives up.
LEMMA GiveUpStep ==
  ASSUME Inv, NEW r \in Ids, GiveUp(r)
  PROVE  Inv'
<1> DEFINE n == [request[r] EXCEPT !.listening = FALSE,
                                   !.promise = IF @ = "open" THEN "rejected" ELSE @]
<1> USE DEF Inv
<1>1. /\ request \in [Ids -> Request] /\ request[r] \in Request /\ request[r].listening
      /\ request' = [request EXCEPT ![r] = n]
      /\ UNCHANGED <<wanted, conn, buffer, line, inbox, answers, server, clean>>
  BY DEF GiveUp, TypeOK
<1>2. n \in Request /\ n.kind = request[r].kind /\ n.tries = request[r].tries
  BY <1>1 DEF Request
<1> HIDE DEF n
<1>3. /\ request' \in [Ids -> Request] /\ request'[r] = n
      /\ \A q \in Ids \ {r} : request'[q] = request[q]
  BY <1>1, <1>2
<1>4. request[r] # NoRequest
  BY <1>1 DEF NoRequest
<1>5. TypeOK'
  BY <1>1, <1>3 DEF TypeOK, server
<1> QED BY <1>1, <1>2, <1>3, <1>4, <1>5, SettledStep DEF server

\* An answer that the client receives.
LEMMA ReceiveStep ==
  ASSUME Inv, NEW s \in Sockets, Receive(s)
  PROVE  Inv'
<1> DEFINE r == Head(answers[s])
           n == [request[r] EXCEPT !.listening = FALSE,
                                   !.promise = IF @ = "open" THEN "resolved" ELSE @]
<1> USE DEF Inv
<1>1. /\ request \in [Ids -> Request] /\ answers \in [Sockets -> Seq(Ids)] /\ answers[s] # <<>>
      /\ answers' = [answers EXCEPT ![s] = Tail(@)]
      /\ request' = IF request[r].listening THEN [request EXCEPT ![r] = n] ELSE request
      /\ UNCHANGED <<wanted, conn, buffer, line, inbox, server, clean>>
  BY DEF Receive, TypeOK
<1>2. r \in Ids /\ Tail(answers[s]) \in Seq(Ids) /\ request[r] \in Request
  BY <1>1, HeadTailProperties
<1> HIDE DEF r
<1>3. n \in Request /\ n.kind = request[r].kind /\ n.tries = request[r].tries
  BY <1>2 DEF Request
<1>4. request[r] = NoRequest => request' = request
  <2>1. NoRequest.listening = FALSE
    BY DEF NoRequest
  <2> QED BY <1>1, <2>1
<1> HIDE DEF n
<1>5. /\ request' \in [Ids -> Request] /\ (request'[r] = n \/ request' = request)
      /\ \A q \in Ids \ {r} : request'[q] = request[q]
  BY <1>1, <1>2, <1>3
<1>6. answers' \in [Sockets -> Seq(Ids)]
  BY <1>1, <1>2
<1>7. TypeOK'
  BY <1>1, <1>5, <1>6 DEF TypeOK, server
<1>8. /\ request'[r].kind = request[r].kind /\ request'[r].tries = request[r].tries
      /\ request[r] = NoRequest => request'[r] = NoRequest
  BY <1>3, <1>4, <1>5
<1> QED BY <1>1, <1>2, <1>5, <1>7, <1>8, SettledStep DEF server

\* The requests a client makes when it is connected again.
LEMMA ConnectedStep ==
  ASSUME Inv, NEW s \in Sockets, Connected(s)
  PROVE  Inv'
<1> USE DEF Inv
<1> DEFINE k == Cardinality(Used)
<1>1. PICK n \in 0..(MaxRequests - k) : \E f \in Again(n) :
        /\ request' = [r \in Ids |-> IF r \in (k + 1)..(k + n)
                                       THEN New("subscribe", f[r - k], TRUE) ELSE request[r]]
        /\ inbox' = [inbox EXCEPT ![s] = buffer \o [i \in 1..n |-> <<k + i, 1>>]]
  BY Zenon DEF Connected
<1>2. PICK f \in Again(n) :
        /\ request' = [r \in Ids |-> IF r \in (k + 1)..(k + n)
                                       THEN New("subscribe", f[r - k], TRUE) ELSE request[r]]
        /\ inbox' = [inbox EXCEPT ![s] = buffer \o [i \in 1..n |-> <<k + i, 1>>]]
  BY <1>1
<1> DEFINE fresh == [i \in 1..n |-> <<k + i, 1>>]
<1>3. /\ k \in Nat /\ n \in Nat /\ k + n \in 0..MaxRequests /\ Ids = 1..MaxRequests
      /\ \A r \in Ids : r \in Used <=> r <= k
  BY UsedCount, SubscribingAssumption DEF Ids
<1>4. Used = 1..k
  BY DEF Numbered
<1> HIDE DEF k
<1>5. /\ buffer' = <<>> /\ conn' = s /\ line' = [line EXCEPT ![s] = "open"]
      /\ UNCHANGED <<wanted, answers, server, clean>>
  BY DEF Connected
<1>6. /\ buffer \in Seq(Copies) /\ inbox \in Boxes /\ subs \in Boxes
      /\ request \in [Ids -> Request] /\ Apart(buffer, inbox, checks, subs)
  BY DEF TypeOK, Boxes, Once
<1>7. ASSUME NEW r \in (k + 1)..(k + n)
      PROVE  /\ r \in Ids /\ r \notin Used
             /\ request'[r] \in Request /\ request'[r].kind = "subscribe" /\ request'[r].tries = 1
  <2>1. r \in Ids /\ r \notin Used
    <3>1. r \in 1..(k + n) /\ ~(r <= k)
      BY <1>3, <1>7
    <3>2. 1..(k + n) \subseteq Ids
      BY <1>3, SubscribingAssumption
    <3> QED BY <1>3, <3>1, <3>2
  <2>2. r - k \in 1..n
    BY <1>3, <1>7
  <2>3. f[r - k] \in Events
    BY <2>2 DEF Again
  <2>4. request'[r] = New("subscribe", f[r - k], TRUE)
    BY <1>2, <1>7, <2>1
  <2>5. 1 \in 0..MaxTries
    BY SubscribingAssumption
  <2> QED BY <2>1, <2>3, <2>4, <2>5 DEF New, Request
<1>8. ASSUME NEW r \in Ids, r \notin (k + 1)..(k + n)
      PROVE  request'[r] = request[r]
  BY <1>2, <1>8
<1>9. request' \in [Ids -> Request]
  <2>1. \A r \in Ids : request'[r] \in Request
    BY <1>6, <1>7, <1>8
  <2> QED BY <1>2, <2>1
<1>10. Used' = 1..(k + n)
  <2>1. ASSUME NEW r \in Ids
        PROVE  r \in Used' <=> r \in Used \/ r \in (k + 1)..(k + n)
    <3>1. CASE r \in (k + 1)..(k + n)
      BY <1>7, <3>1 DEF Used
    <3>2. CASE r \notin (k + 1)..(k + n)
      BY <1>8, <3>2 DEF Used
    <3> QED BY <3>1, <3>2
  <2>2. 1..(k + n) = (1..k) \cup ((k + 1)..(k + n)) /\ 1..(k + n) \subseteq Ids
    <3>1. 1..(k + n) = (1..k) \cup ((k + 1)..(k + n))
      BY <1>3
    <3>2. 1..(k + n) \subseteq Ids
      BY <1>3, SubscribingAssumption
    <3> QED BY <3>1, <3>2
  <2>3. Used' \subseteq Ids
    BY DEF Used
  <2> QED BY <1>4, <2>1, <2>2, <2>3
<1>11. Numbered'
  <2>1. Cardinality(Used') = k + n
    BY <1>3, <1>10, CountTo
  <2>2. \A r \in Ids \ Used' : request'[r] = NoRequest
    <3>1. \A r \in Ids : r \notin 1..(k + n) => r \notin 1..k /\ r \notin (k + 1)..(k + n)
      BY <1>3
    <3> QED BY <1>4, <1>8, <1>10, <3>1 DEF Numbered
  <2> QED BY <1>10, <2>1, <2>2 DEF Numbered
<1>12. /\ fresh \in Seq(Copies) /\ Inj(fresh) /\ DOMAIN fresh = 1..n
       /\ \A i \in 1..n : /\ fresh[i] = <<k + i, 1>> /\ k + i \in (k + 1)..(k + n)
                          /\ fresh[i] \notin Emitted /\ fresh[i] \in Emitted'
  <2>1. \A i \in 1..n : k + i \in (k + 1)..(k + n)
    BY <1>3
  <2>2. 1 \in 1..MaxTries
    BY SubscribingAssumption
  <2>3. \A i \in 1..n : <<k + i, 1>> \in Copies
    BY <1>7, <2>1, <2>2 DEF Copies
  <2>4. fresh \in Seq(Copies)
    BY <1>3, <2>3, SeqDef
  <2>5. \A i, j \in 1..n : <<k + i, 1>> = <<k + j, 1>> => i = j
    BY <1>3
  <2>6. Inj(fresh)
    BY <2>5 DEF Inj
  <2>7. ASSUME NEW i \in 1..n
        PROVE  <<k + i, 1>> \notin Emitted /\ <<k + i, 1>> \in Emitted'
    <3>1. request[k + i] = NoRequest
      BY <1>7, <2>1 DEF Numbered
    <3>2. request[k + i].tries = 0
      BY <3>1 DEF NoRequest
    <3>3. request'[k + i].tries = 1
      BY <1>7, <2>1
    <3> QED BY <2>3, <3>2, <3>3 DEF Emitted
  <2> QED BY <2>1, <2>4, <2>6, <2>7
<1> HIDE DEF fresh
<1>13. \A i \in DOMAIN fresh : ~Somewhere(fresh[i], buffer, inbox, checks, subs)
  BY <1>12 DEF Once
<1>14. /\ \A m \in Items(fresh) : /\ m \notin Items(buffer) /\ m \in Emitted'
                                  /\ \A t \in Sockets : m \notin Items(inbox[t]) /\ m \notin Items(subs[t])
                                  /\ \A c \in checks : c.copy # m
  <2>1. \A m \in Items(fresh) : m \in Emitted' /\ ~Somewhere(m, buffer, inbox, checks, subs)
    BY <1>12, <1>13 DEF Items
  <2> QED BY <2>1 DEF Somewhere
<1>15. /\ inbox'[s] = buffer \o fresh /\ inbox' \in Boxes
       /\ \A t \in Sockets \ {s} : inbox'[t] = inbox[t]
       /\ Items(inbox'[s]) = Items(buffer) \cup Items(fresh) /\ Inj(inbox'[s])
  <2>1. inbox' = [inbox EXCEPT ![s] = buffer \o fresh]
    BY <1>2 DEF fresh
  <2>2. /\ buffer \o fresh \in Seq(Copies)
        /\ Items(buffer \o fresh) = Items(buffer) \cup Items(fresh)
        /\ Inj(buffer \o fresh)
    <3>1. Inj(buffer) /\ Items(buffer) \cap Items(fresh) = {}
      BY <1>6, <1>14 DEF Apart
    <3> QED BY <1>6, <1>12, <3>1, ItemsConcat
  <2> QED BY <1>6, <2>1, <2>2 DEF Boxes
<1>16. Items(<<>>) = {} /\ Inj(<<>>) /\ <<>> \in Seq(Copies)
  BY EmptySeq DEF Items, Inj
<1>17. Apart(<<>>, inbox', checks, subs)
  <2>1. \A t \in Sockets : Inj(inbox'[t]) /\ Inj(subs[t])
    BY <1>6, <1>15 DEF Apart
  <2>2. \A t, u \in Sockets : t # u => Items(inbox'[t]) \cap Items(inbox'[u]) = {}
    <3>1. ASSUME NEW t \in Sockets, NEW u \in Sockets, t # u, t # s, u # s
          PROVE  Items(inbox'[t]) \cap Items(inbox'[u]) = {}
      BY <1>6, <1>15, <3>1 DEF Apart
    <3>2. ASSUME NEW t \in Sockets, t # s
          PROVE  Items(inbox'[t]) \cap Items(inbox'[s]) = {}
      <4>1. Items(inbox[t]) \cap Items(buffer) = {} /\ Items(inbox[t]) \cap Items(fresh) = {}
        BY <1>6, <1>14 DEF Apart
      <4> QED BY <1>15, <3>2, <4>1
    <3> QED BY <3>1, <3>2
  <2>3. \A t, u \in Sockets : Items(inbox'[t]) \cap Items(subs[u]) = {}
    <3>1. ASSUME NEW u \in Sockets
          PROVE  Items(inbox'[s]) \cap Items(subs[u]) = {}
      <4>1. Items(buffer) \cap Items(subs[u]) = {} /\ Items(fresh) \cap Items(subs[u]) = {}
        BY <1>6, <1>14 DEF Apart
      <4> QED BY <1>15, <4>1
    <3> QED BY <1>6, <1>15, <3>1 DEF Apart
  <2>4. ASSUME NEW c \in checks, NEW t \in Sockets
        PROVE  c.copy \notin Items(inbox'[t])
    <3>1. CASE t = s
      BY <1>6, <1>14, <1>15, <3>1 DEF Apart
    <3>2. CASE t # s
      BY <1>6, <1>15, <3>2 DEF Apart
    <3> QED BY <3>1, <3>2
  <2> QED BY <1>6, <1>16, <2>1, <2>2, <2>3, <2>4 DEF Apart
<1>18. Emitted \subseteq Emitted'
  <2>1. \A m \in Emitted : m \in Copies /\ m[1] \in Ids /\ m[2] \in Nat \ {0}
                         /\ m[2] <= request[m[1]].tries
    BY DEF Emitted, Copies
  <2>2. \A m \in Emitted : m[1] \notin (k + 1)..(k + n)
    <3>1. \A r \in (k + 1)..(k + n) : request[r] = NoRequest
      BY <1>7 DEF Numbered
    <3>2. NoRequest.tries = 0
      BY DEF NoRequest
    <3> QED BY <2>1, <3>1, <3>2
  <2> QED BY <1>8, <2>1, <2>2 DEF Emitted
<1>19. Once'
  <2>1. checks' = checks /\ subs' = subs
    BY <1>5 DEF server
  <2>2. ASSUME NEW m, Somewhere(m, <<>>, inbox', checks, subs)
        PROVE  m \in Emitted'
    <3>1. \/ Somewhere(m, buffer, inbox, checks, subs)
          \/ m \in Items(fresh)
      BY <1>15, <1>16, <2>2 DEF Somewhere
    <3> QED BY <1>14, <1>18, <3>1 DEF Once
  <2> QED BY <1>5, <1>17, <2>1, <2>2 DEF Once
<1>20. TypeOK'
  <2>1. line' \in [Sockets -> {"unused", "accepted", "open", "lost", "closed"}]
    BY <1>5 DEF TypeOK
  <2> QED BY <1>5, <1>9, <1>15, <1>16, <2>1 DEF TypeOK, Boxes, server
<1>21. ListsAgree'
  BY <1>5 DEF ListsAgree, server
<1> QED BY <1>11, <1>19, <1>20, <1>21

----------------------------------------------------------------------------
(* The server. *)

\* Steps that leave requests and copies alone.
LEMMA LineStep ==
  ASSUME Inv, TypeOK', UNCHANGED <<request, buffer, inbox, checks, subs, database>>
  PROVE  Inv'
<1> USE DEF Inv
<1>1. Used' = Used /\ Emitted' = Emitted
  BY DEF Used, Emitted
<1>2. Numbered' /\ Once' /\ ListsAgree'
  BY <1>1 DEF Numbered, Once, ListsAgree
<1> QED BY <1>2

\* A connection is lost, or another one accepted.
LEMMA ConnectionStep ==
  ASSUME Inv, NEW s \in Sockets, Lose(s) \/ Accept(s)
  PROVE  Inv'
<1> USE DEF Inv
<1>1. <<>> \in Seq(Ids)
  BY EmptySeq
<1>2. UNCHANGED <<request, buffer, inbox, checks, subs, database, wanted, clean>>
  BY DEF Lose, Accept, client, server
<1>3. /\ line' \in [Sockets -> {"unused", "accepted", "open", "lost", "closed"}]
      /\ conn' \in Sockets \cup {None} /\ answers' \in [Sockets -> Seq(Ids)]
      /\ known' \in Sockets \cup {None}
  BY <1>1 DEF Lose, Accept, TypeOK, client, server
<1>4. TypeOK'
  BY <1>2, <1>3 DEF TypeOK
<1> QED BY <1>2, <1>4, LineStep

\* acknowledgeRequest puts the number of a request on the way to the client.
LEMMA AcknowledgeType ==
  ASSUME TypeOK, NEW s \in Sockets, NEW m \in Copies, Acknowledge(s, m)
  PROVE  answers' \in [Sockets -> Seq(Ids)]
<1>1. m[1] \in Ids
  BY DEF Copies
<1>2. Append(answers[s], m[1]) \in Seq(Ids)
  BY <1>1, AppendProperties DEF TypeOK
<1> QED BY <1>2 DEF Acknowledge, TypeOK

\* A message that is taken from its queue: its copy is nowhere else.
LEMMA TakenEffect ==
  ASSUME Inv, NEW s \in Sockets, inbox[s] # <<>>, inbox' = [inbox EXCEPT ![s] = Tail(@)]
  PROVE  /\ inbox' \in Boxes /\ Head(inbox[s]) \in Copies /\ Head(inbox[s]) \in Emitted
         /\ Apart(buffer, inbox', checks, subs)
         /\ ~Somewhere(Head(inbox[s]), buffer, inbox', checks, subs)
         /\ \A m : Somewhere(m, buffer, inbox', checks, subs) => m \in Emitted
<1> USE DEF Inv
<1>1. /\ inbox \in Boxes /\ inbox[s] \in Seq(Copies) /\ Apart(buffer, inbox, checks, subs)
  BY DEF TypeOK, Boxes, Once
<1>2. /\ Tail(inbox[s]) \in Seq(Copies) /\ Head(inbox[s]) \in Copies /\ Head(inbox[s]) \in Items(inbox[s])
      /\ Items(inbox[s]) = {Head(inbox[s])} \cup Items(Tail(inbox[s]))
      /\ Inj(Tail(inbox[s])) /\ Head(inbox[s]) \notin Items(Tail(inbox[s]))
  BY <1>1, ItemsTail DEF Apart
<1>3. inbox' \in Boxes /\ inbox'[s] = Tail(inbox[s]) /\ \A t \in Sockets \ {s} : inbox'[t] = inbox[t]
  BY <1>1, <1>2 DEF Boxes
<1>4. \A t \in Sockets : Inj(inbox'[t]) /\ Items(inbox'[t]) \subseteq Items(inbox[t])
  BY <1>1, <1>2, <1>3 DEF Apart
<1>5. Apart(buffer, inbox', checks, subs)
  <2>1. \A t \in Sockets : Inj(subs[t]) /\ Items(subs[t]) \subseteq Items(subs[t])
    BY <1>1 DEF Apart
  <2> QED BY <1>1, <1>4, <2>1, ApartFewer
<1>6. ~Somewhere(Head(inbox[s]), buffer, inbox', checks, subs)
  <2>1. \A t \in Sockets : Head(inbox[s]) \notin Items(inbox'[t])
    BY <1>1, <1>2, <1>3 DEF Apart
  <2>2. Head(inbox[s]) \notin Items(buffer) /\ \A t \in Sockets : Head(inbox[s]) \notin Items(subs[t])
    BY <1>1, <1>2 DEF Apart
  <2>3. \A c \in checks : Head(inbox[s]) # c.copy
    BY <1>1, <1>2 DEF Apart
  <2> QED BY <2>1, <2>2, <2>3 DEF Somewhere
<1>7. ASSUME NEW m, Somewhere(m, buffer, inbox', checks, subs)
      PROVE  m \in Emitted
  BY <1>4, <1>7 DEF Once, Somewhere
<1>8. Head(inbox[s]) \in Emitted
  BY <1>2 DEF Once, Somewhere
<1> QED BY <1>2, <1>3, <1>5, <1>6, <1>7, <1>8

\* Steps by which messages are taken off their queues, and one list k loses
\* the entries gone, here as at the database.
LEMMA FewerStep ==
  ASSUME Inv, TypeOK', UNCHANGED <<request, buffer, checks>>,
         \A t \in Sockets : Inj(inbox'[t]) /\ Items(inbox'[t]) \subseteq Items(inbox[t]),
         NEW k \in Sockets, NEW gone \in SUBSET Items(subs[k]),
         Inj(subs'[k]), Items(subs'[k]) = Items(subs[k]) \ gone,
         \A t \in Sockets \ {k} : subs'[t] = subs[t],
         database' = database \ gone
  PROVE  Inv'
<1> USE DEF Inv
<1>1. Used' = Used /\ Emitted' = Emitted
  BY DEF Used, Emitted
<1>2. Numbered'
  BY <1>1 DEF Numbered
<1>3. Apart(buffer, inbox, checks, subs)
  BY DEF Once
<1>4. \A t \in Sockets : Inj(subs'[t]) /\ Items(subs'[t]) \subseteq Items(subs[t])
  <2>1. \A t \in Sockets : Inj(subs[t])
    BY <1>3 DEF Apart
  <2> QED BY <2>1
<1>5. Apart(buffer, inbox', checks, subs')
  BY <1>3, <1>4, ApartFewer
<1>6. ASSUME NEW m, Somewhere(m, buffer, inbox', checks, subs')
      PROVE  m \in Emitted
  <2>1. Somewhere(m, buffer, inbox, checks, subs)
    BY <1>4, <1>6 DEF Somewhere
  <2> QED BY <2>1 DEF Once
<1>7. Once'
  BY <1>1, <1>5, <1>6 DEF Once
<1>8. \A t \in Sockets : Items(subs'[t]) = Items(subs[t]) \ gone
  <2>1. \A t \in Sockets \ {k} : Items(subs[k]) \cap Items(subs[t]) = {}
    BY <1>3 DEF Apart
  <2> QED BY <2>1
<1>9. ListsAgree'
  BY <1>8 DEF ListsAgree
<1> QED BY <1>2, <1>7, <1>9

\* A message of a client the server does not know.
LEMMA HandleUnknownStep ==
  ASSUME Inv, NEW s \in Sockets, HandleUnknown(s)
  PROVE  Inv'
<1> USE DEF Inv
<1>1. /\ inbox[s] # <<>> /\ inbox' = [inbox EXCEPT ![s] = Tail(@)]
      /\ UNCHANGED <<wanted, request, conn, buffer, line, answers, known, subs, checks, database, clean>>
  BY DEF HandleUnknown, client, server
<1>2. inbox' \in Boxes /\ Apart(buffer, inbox', checks, subs)
  BY <1>1, TakenEffect
<1>3. TypeOK'
  BY <1>1, <1>2 DEF TypeOK, Boxes
<1>4. \A m : Somewhere(m, buffer, inbox', checks, subs) => m \in Emitted
  BY <1>1, TakenEffect
<1>5. Used' = Used /\ Emitted' = Emitted
  BY <1>1 DEF Used, Emitted
<1>6. Numbered' /\ Once' /\ ListsAgree'
  BY <1>1, <1>2, <1>4, <1>5 DEF Numbered, Once, ListsAgree
<1> QED BY <1>3, <1>6

\* A subscription: it is in the list already, or its check is awaited.
LEMMA HandleSubscribeStep ==
  ASSUME Inv, NEW s \in Sockets, HandleSubscribe(s)
  PROVE  Inv'
<1> USE DEF Inv
<1> DEFINE m == Head(inbox[s])
           c == [copy |-> m, client |-> known, socket |-> s]
<1>1. /\ inbox[s] # <<>> /\ inbox' = [inbox EXCEPT ![s] = Tail(@)] /\ known \in Sockets
      /\ UNCHANGED <<wanted, request, conn, buffer, line, known, subs, database>>
      /\ \/ Acknowledge(s, m) /\ checks' = checks
         \/ answers' = answers /\ checks' = checks \cup {c}
      /\ clean' \in BOOLEAN
  BY DEF HandleSubscribe, Message, TypeOK, client
<1>2. /\ inbox' \in Boxes /\ m \in Copies /\ m \in Emitted
      /\ Apart(buffer, inbox', checks, subs)
      /\ ~Somewhere(m, buffer, inbox', checks, subs)
      /\ \A x : Somewhere(x, buffer, inbox', checks, subs) => x \in Emitted
  BY <1>1, TakenEffect
<1> HIDE DEF m
<1>3. answers' \in [Sockets -> Seq(Ids)]
  BY <1>1, <1>2, AcknowledgeType DEF TypeOK
<1>4. c \in Check /\ c.copy = m
  BY <1>1, <1>2 DEF Check
<1> HIDE DEF c
<1>5. TypeOK'
  BY <1>1, <1>2, <1>3, <1>4 DEF TypeOK, Boxes
<1>6. Apart(buffer, inbox', checks \cup {c}, subs)
  BY <1>2, <1>4, ApartChecks
<1>7. ASSUME NEW x, Somewhere(x, buffer, inbox', checks \cup {c}, subs)
      PROVE  x \in Emitted
  <2>1. Somewhere(x, buffer, inbox', checks, subs) \/ x = m
    BY <1>4, <1>7 DEF Somewhere
  <2> QED BY <1>2, <2>1
<1>8. Used' = Used /\ Emitted' = Emitted
  BY <1>1 DEF Used, Emitted
<1>9. Once'
  <2>1. CASE checks' = checks
    BY <1>1, <1>2, <1>8, <2>1 DEF Once
  <2>2. CASE checks' = checks \cup {c}
    BY <1>1, <1>6, <1>7, <1>8, <2>2 DEF Once
  <2> QED BY <1>1, <2>1, <2>2
<1>10. Numbered' /\ ListsAgree'
  BY <1>1, <1>8 DEF Numbered, ListsAgree
<1> QED BY <1>5, <1>9, <1>10

\* A subscription whose check is over enters the list and the database.
LEMMA CheckedStep ==
  ASSUME Inv, NEW c \in checks, Checked(c)
  PROVE  Inv'
<1> USE DEF Inv
<1> DEFINE k == c.client
           m == c.copy
<1>1. /\ checks' = checks \ {c} /\ subs' = [subs EXCEPT ![k] = Append(@, m)]
      /\ database' = database \cup {m} /\ Acknowledge(c.socket, m)
      /\ UNCHANGED <<wanted, request, conn, buffer, line, inbox, known, clean>>
  BY DEF Checked, client
<1>2. k \in Sockets /\ m \in Copies /\ c.socket \in Sockets
  BY DEF TypeOK, Check
<1> HIDE DEF k, m
<1>3. Apart(buffer, inbox, checks, subs) /\ subs \in Boxes
  BY DEF Once, TypeOK, Boxes
<1>4. m \in Emitted /\ ~Somewhere(m, buffer, inbox, checks \ {c}, subs)
  <2>1. m \in Emitted
    BY DEF Once, Somewhere, m
  <2>2. /\ m \notin Items(buffer)
        /\ \A t \in Sockets : m \notin Items(inbox[t]) /\ m \notin Items(subs[t])
        /\ \A d \in checks \ {c} : d.copy # m
    BY <1>3 DEF Apart, m
  <2> QED BY <2>1, <2>2 DEF Somewhere
<1>5. Apart(buffer, inbox, checks \ {c}, subs)
  BY <1>3 DEF Apart
<1>6. Apart(buffer, inbox, checks', subs')
  BY <1>1, <1>2, <1>3, <1>4, <1>5, ApartLists
<1>7. /\ subs' \in Boxes /\ Items(subs'[k]) = Items(subs[k]) \cup {m}
      /\ \A t \in Sockets \ {k} : subs'[t] = subs[t]
  <2>1. subs'[k] = Append(subs[k], m) /\ \A t \in Sockets \ {k} : subs'[t] = subs[t]
    BY <1>1, <1>2, <1>3 DEF Boxes
  <2>2. subs[k] \in Seq(Copies)
    BY <1>2, <1>3 DEF Boxes
  <2>3. Append(subs[k], m) \in Seq(Copies) /\ Items(Append(subs[k], m)) = Items(subs[k]) \cup {m}
    BY <1>2, <2>2, ItemsAppend
  <2> QED BY <1>1, <1>2, <1>3, <2>1, <2>3 DEF Boxes
<1>8. Used' = Used /\ Emitted' = Emitted
  BY <1>1 DEF Used, Emitted
<1>9. Once'
  <2>1. ASSUME NEW x, Somewhere(x, buffer, inbox, checks', subs')
        PROVE  x \in Emitted
    <3>1. Somewhere(x, buffer, inbox, checks, subs) \/ x = m
      BY <1>1, <1>7, <2>1 DEF Somewhere
    <3> QED BY <1>4, <3>1 DEF Once
  <2> QED BY <1>1, <1>6, <1>8, <2>1 DEF Once
<1>10. ListsAgree'
  <2>1. \A t \in Sockets : Items(subs'[t]) = IF t = k THEN Items(subs[t]) \cup {m} ELSE Items(subs[t])
    BY <1>7
  <2>2. UNION {Items(subs'[t]) : t \in Sockets} = (UNION {Items(subs[t]) : t \in Sockets}) \cup {m}
    BY <1>2, <2>1
  <2> QED BY <1>1, <2>2 DEF ListsAgree
<1>11. answers' \in [Sockets -> Seq(Ids)]
  BY <1>1, <1>2, AcknowledgeType
<1>12. TypeOK'
  <2>1. checks' \subseteq Check /\ database' \subseteq Copies
    BY <1>1, <1>2 DEF TypeOK
  <2> QED BY <1>1, <1>7, <1>11, <2>1 DEF TypeOK, Boxes
<1>13. Numbered'
  BY <1>1, <1>8 DEF Numbered
<1> QED BY <1>9, <1>10, <1>12, <1>13

\* An unsubscribe takes entries off the list of the client and from the
\* database.
LEMMA HandleUnsubscribeStep ==
  ASSUME Inv, NEW s \in Sockets, HandleUnsubscribe(s)
  PROVE  Inv'
<1> USE DEF Inv
<1> DEFINE m == Head(inbox[s])
           l == subs[known]
           at == Removed(l, EventOf(m))
           gone == {l[i] : i \in at}
<1>1. /\ inbox[s] # <<>> /\ inbox' = [inbox EXCEPT ![s] = Tail(@)] /\ known \in Sockets
      /\ subs' = [subs EXCEPT ![known] = Without(@, at)]
      /\ database' = database \ gone /\ Acknowledge(s, m)
      /\ UNCHANGED <<wanted, request, conn, buffer, line, known, checks>>
      /\ clean' \in BOOLEAN
  BY DEF HandleUnsubscribe, Message, TypeOK, client
<1>2. inbox' \in Boxes /\ m \in Copies
  BY <1>1, TakenEffect
<1>3. \A t \in Sockets : Inj(inbox'[t]) /\ Items(inbox'[t]) \subseteq Items(inbox[t])
  <2>1. \A t \in Sockets : inbox[t] \in Seq(Copies) /\ Inj(inbox[t])
    BY DEF TypeOK, Once, Apart
  <2>2. Inj(Tail(inbox[s])) /\ Items(Tail(inbox[s])) \subseteq Items(inbox[s])
    BY <1>1, <2>1, ItemsTail
  <2>3. inbox'[s] = Tail(inbox[s]) /\ \A t \in Sockets \ {s} : inbox'[t] = inbox[t]
    BY <1>1 DEF TypeOK
  <2> QED BY <2>1, <2>2, <2>3
<1>4. at \in SUBSET DOMAIN l
  BY DEF Removed
<1>5. l \in Seq(Copies) /\ Inj(l) /\ subs \in Boxes
  BY <1>1 DEF TypeOK, Once, Apart, Boxes
<1>6. gone \in SUBSET Items(l)
  BY <1>4 DEF Items
<1> HIDE DEF m, at
<1>7. Without(l, at) \in Seq(Copies) /\ Inj(Without(l, at)) /\ Items(Without(l, at)) = Items(l) \ gone
  BY <1>4, <1>5, WithoutMeaning
<1> HIDE DEF gone
<1>8. subs' \in Boxes /\ subs'[known] = Without(l, at) /\ \A t \in Sockets \ {known} : subs'[t] = subs[t]
  BY <1>1, <1>5, <1>7 DEF Boxes
<1>9. answers' \in [Sockets -> Seq(Ids)]
  BY <1>1, <1>2, AcknowledgeType
<1>10. TypeOK'
  <2>1. database' \subseteq Copies
    BY <1>1 DEF TypeOK
  <2> QED BY <1>1, <1>2, <1>8, <1>9, <2>1 DEF TypeOK, Boxes
<1> QED BY <1>1, <1>3, <1>6, <1>7, <1>8, <1>10, FewerStep

\* The end of a connection: the list of the client goes, whatever connection
\* it is on.
LEMMA DisconnectStep ==
  ASSUME Inv, NEW s \in Sockets, Disconnect(s)
  PROVE  Inv'
<1> USE DEF Inv
<1>1. /\ line' = [line EXCEPT ![s] = "closed"] /\ inbox' = [inbox EXCEPT ![s] = <<>>]
      /\ known' = None /\ clean' \in BOOLEAN
      /\ UNCHANGED <<wanted, request, conn, buffer, answers, checks>>
  BY DEF Disconnect, TypeOK, client
<1>2. <<>> \in Seq(Copies) /\ Items(<<>>) = {} /\ Inj(<<>>)
  BY EmptySeq DEF Items, Inj
<1>3. inbox' \in Boxes /\ \A t \in Sockets : Inj(inbox'[t]) /\ Items(inbox'[t]) \subseteq Items(inbox[t])
  <2>1. inbox \in Boxes /\ \A t \in Sockets : Inj(inbox[t])
    BY DEF TypeOK, Boxes, Once, Apart
  <2>2. inbox'[s] = <<>> /\ \A t \in Sockets \ {s} : inbox'[t] = inbox[t]
    BY <1>1, <2>1 DEF Boxes
  <2>3. inbox' \in Boxes
    BY <1>1, <1>2, <2>1 DEF Boxes
  <2> QED BY <1>2, <2>1, <2>2, <2>3
<1>4. subs \in Boxes /\ \A t \in Sockets : Inj(subs[t])
  BY DEF TypeOK, Boxes, Once, Apart
<1>5. line' \in [Sockets -> {"unused", "accepted", "open", "lost", "closed"}]
  BY <1>1 DEF TypeOK
<1>6. CASE known = None
  <2>1. subs' = subs /\ database' = database
    BY <1>6 DEF Disconnect
  <2>2. TypeOK'
    BY <1>1, <1>3, <1>5, <2>1 DEF TypeOK, Boxes
  <2>3. {} \in SUBSET Items(subs[s]) /\ Items(subs[s]) = Items(subs[s]) \ {} /\ database' = database \ {}
    BY <2>1
  <2> QED BY <1>1, <1>3, <1>4, <2>1, <2>2, <2>3, FewerStep
<1>7. CASE known # None
  <2>1. known \in Sockets
    BY <1>7 DEF TypeOK
  <2>2. subs' = [subs EXCEPT ![known] = <<>>] /\ database' = database \ Items(subs[known])
    BY <1>7 DEF Disconnect
  <2>3. subs' \in Boxes /\ subs'[known] = <<>> /\ \A t \in Sockets \ {known} : subs'[t] = subs[t]
    BY <1>2, <1>4, <2>1, <2>2 DEF Boxes
  <2>4. TypeOK'
    <3>1. database' \subseteq Copies
      BY <2>2 DEF TypeOK
    <3> QED BY <1>1, <1>3, <1>5, <2>3, <3>1 DEF TypeOK, Boxes
  <2>5. Items(subs'[known]) = Items(subs[known]) \ Items(subs[known]) /\ Inj(subs'[known])
    BY <1>2, <2>3
  <2> QED BY <1>1, <1>3, <2>1, <2>2, <2>3, <2>4, <2>5, FewerStep
<1> QED BY <1>6, <1>7

----------------------------------------------------------------------------
(* The theorems. *)

\* The invariant holds at first: nothing was asked for yet.
LEMMA InvInit == Init => Inv
<1> SUFFICES ASSUME Init PROVE Inv
  OBVIOUS
<1>1. /\ 0 \in 0..MaxCallbacks /\ 0 \in 0..MaxTries
  BY SubscribingAssumption
<1>2. NoRequest \in Request /\ NoRequest.kind = "none" /\ NoRequest.tries = 0
  BY <1>1 DEF NoRequest, Request
<1>3. \A S : <<>> \in Seq(S)
  BY EmptySeq
<1>4. Items(<<>>) = {} /\ Inj(<<>>)
  BY DEF Items, Inj
<1>5. TypeOK
  BY <1>1, <1>2, <1>3 DEF Init, TypeOK
<1>6. Used = {} /\ \A r \in Ids : request[r] = NoRequest
  BY <1>2 DEF Init, Used
<1>7. Numbered
  <2>1. Cardinality({}) = 0 /\ 1..0 = {}
    BY FS_EmptySet
  <2> QED BY <1>6, <2>1 DEF Numbered
<1>8. \A s \in Sockets : Items(inbox[s]) = {} /\ Inj(inbox[s]) /\ Items(subs[s]) = {} /\ Inj(subs[s])
  BY <1>4 DEF Init
<1>9. Items(buffer) = {} /\ Inj(buffer) /\ checks = {} /\ database = {}
  BY <1>4 DEF Init
<1>10. Once
  BY <1>8, <1>9 DEF Once, Apart, Somewhere
<1>11. ListsAgree
  BY <1>8, <1>9 DEF ListsAgree
<1> QED BY <1>5, <1>7, <1>10, <1>11 DEF Inv

\* Every step keeps the invariant.
LEMMA InvNext == Inv /\ [Next]_vars => Inv'
<1> SUFFICES ASSUME Inv, [Next]_vars PROVE Inv'
  OBVIOUS
<1> USE DEF Inv
<1>1. wanted \in [Events -> 0..MaxCallbacks] /\ MaxCallbacks \in Nat
  BY SubscribingAssumption DEF TypeOK
<1>2. ASSUME NEW e \in Events, Subscribe(e)
      PROVE  Inv'
  <2>1. /\ Call("subscribe", e) /\ UNCHANGED <<conn, line, answers, server, clean>>
        /\ wanted' = [wanted EXCEPT ![e] = @ + 1] /\ wanted[e] < MaxCallbacks
    BY <1>2 DEF Subscribe
  <2>2. wanted' \in [Events -> 0..MaxCallbacks]
    <3>1. wanted[e] + 1 \in 0..MaxCallbacks
      BY <1>1, <2>1
    <3> QED BY <1>1, <2>1, <3>1
  <2>3. clean' \in BOOLEAN
    BY <2>1 DEF TypeOK
  <2> QED BY <2>1, <2>2, <2>3, CallStep
<1>3. ASSUME NEW e \in Events, Unsubscribe(e)
      PROVE  Inv'
  <2>1. /\ Call("unsubscribe", e) /\ UNCHANGED <<conn, line, answers, server>>
        /\ wanted' = [wanted EXCEPT ![e] = @ - 1] /\ wanted[e] > 0
        /\ clean' \in BOOLEAN
    BY <1>3 DEF Unsubscribe
  <2>2. wanted' \in [Events -> 0..MaxCallbacks]
    <3>1. wanted[e] - 1 \in 0..MaxCallbacks
      BY <1>1, <2>1
    <3> QED BY <1>1, <2>1, <3>1
  <2> QED BY <2>1, <2>2, CallStep
<1>4. ASSUME UnsubscribeAny
      PROVE  Inv'
  <2>1. /\ Call("unsubscribe", AnyEvent) /\ UNCHANGED <<conn, line, answers, server, clean>>
        /\ wanted' = [e \in Events |-> 0]
    BY <1>4 DEF UnsubscribeAny
  <2>2. wanted' \in [Events -> 0..MaxCallbacks]
    <3>1. 0 \in 0..MaxCallbacks
      BY <1>1
    <3> QED BY <2>1, <3>1
  <2>3. clean' \in BOOLEAN
    BY <2>1 DEF TypeOK
  <2> QED BY <2>1, <2>2, <2>3, CallStep
<1>5. ASSUME NEW r \in Ids, Timer(r)
      PROVE  Inv'
  BY <1>5, RetryStep, GiveUpStep DEF Timer
<1>6. ASSUME NEW s \in Sockets,
             Receive(s) \/ Connected(s) \/ Lose(s) \/ Accept(s) \/ Handle(s) \/ Disconnect(s)
      PROVE  Inv'
  BY <1>6, ReceiveStep, ConnectedStep, ConnectionStep, HandleUnknownStep, HandleSubscribeStep,
     HandleUnsubscribeStep, DisconnectStep DEF Handle
<1>7. ASSUME NEW c \in checks, Checked(c)
      PROVE  Inv'
  BY <1>7, CheckedStep
<1>8. CASE UNCHANGED vars
  <2>1. UNCHANGED <<wanted, request, conn, buffer, line, inbox, answers, known, subs, checks, database, clean>>
    BY <1>8 DEF vars, client, server
  <2>2. Used' = Used /\ Emitted' = Emitted
    BY <2>1 DEF Used, Emitted
  <2>3. TypeOK' /\ Numbered' /\ Once' /\ ListsAgree'
    BY <2>1, <2>2 DEF TypeOK, Numbered, Once, ListsAgree
  <2> QED BY <2>3
<1> QED BY <1>2, <1>3, <1>4, <1>5, <1>6, <1>7, <1>8 DEF Next

\* The invariant holds in every reachable state.
LEMMA Invariance == Spec => []Inv
BY InvInit, InvNext, PTL DEF Spec

\* The variables have their types for any bounds: no list or queue ever holds
\* a message that is not a copy of a request, and no request is sent more
\* than MaxTries times.
THEOREM TypeCorrect == Spec => []TypeOK
<1>1. Inv => TypeOK
  BY DEF Inv
<1> QED BY <1>1, Invariance, PTL

\* What is subscribed at the database is what the lists of the clients hold,
\* through repeated requests, lost connections and skipped entries.
THEOREM ListsStayAgreed == Spec => []ListsAgree
<1>1. Inv => ListsAgree
  BY DEF Inv
<1> QED BY <1>1, Invariance, PTL

----------------------------------------------------------------------------
(* Client and server in step: the invariant. *)

\* The copy c of one of the requests q subscribes to the event e.
Asks(q, c, e) == q[c[1]].kind = "subscribe" /\ q[c[1]].event = e

\* The copy c of one of the requests q takes the event e off.
Drops(q, c, e) == q[c[1]].kind = "unsubscribe" /\ Matches(q[c[1]].event, e)

\* On the line l a subscription to e comes after whatever takes e off.
Ends(q, l, e) ==
  \E i \in DOMAIN l : Asks(q, l[i], e) /\ \A j \in DOMAIN l : j > i => ~Drops(q, l[j], e)

\* Something on the line l takes e off.
Clears(q, l, e) == \E i \in DOMAIN l : Drops(q, l[i], e)

\* Lines and ends: at most one connection is up, it is the client's from
\* "connect" on, and only then does it carry messages.
Up == {"accepted", "open"}

Lines ==
  /\ \A s \in Sockets : line[s] = "open" <=> conn = s
  /\ \A s, t \in Sockets : line[s] \in Up /\ line[t] \in Up => s = t
  /\ known # None => line[known] \in {"accepted", "open", "lost"}
  /\ conn # None => buffer = <<>>
  /\ \A s \in Sockets : line[s] \in {"unused", "accepted"} => inbox[s] = <<>>

\* Subscriptions name an event, and nothing else gets into a list.
Kinds ==
  /\ \A r \in Used : request[r].kind = "subscribe" => request[r].event \in Events
  /\ \A s \in Sockets : \A c \in Items(subs[s]) : request[c[1]].kind = "subscribe"
  /\ \A c \in checks : request[c.copy[1]].kind = "subscribe"

\* The server knows the client by the connection that is up.
Current == \A s \in Sockets : line[s] \in Up => known = s

\* The client made a subscription to e that no newer request undoes.
Asked(e) ==
  \E r \in Used : request[r].kind = "subscribe" /\ request[r].event = e /\ ~Overtaken(r)

Wants == \A e \in Events : wanted[e] > 0 <=> Asked(e)

\* The server has e in the list of s, or checks a subscription for it.
Has(s, e) == e \in EventsAt(s) \/ \E c \in checks : c.client = s /\ EventOf(c.copy) = e

\* What the messages of the connection will make of what the server has is
\* what the client wants.
Serves ==
  conn # None =>
    \A e \in Events :
      wanted[e] > 0 <=> \/ Ends(request, inbox[conn], e)
                        \/ Has(conn, e) /\ ~Clears(request, inbox[conn], e)

\* What waits for a connection ends with no subscription that is not wanted.
Keeps == \A e \in Events : Ends(request, buffer, e) => wanted[e] > 0

\* No event is twice in a list, nor both there and being checked, nor
\* checked twice.
Single ==
  /\ \A s \in Sockets : \A c, d \in Items(subs[s]) : EventOf(c) = EventOf(d) => c = d
  /\ \A c \in checks : EventOf(c.copy) \notin EventsAt(c.client)
  /\ \A c, d \in checks : c.client = d.client /\ EventOf(c.copy) = EventOf(d.copy) => c = d

\* The server keeps nothing for connections that are not in use yet or gone.
Gone ==
  \A s \in Sockets : line[s] \in {"unused", "accepted", "closed"} =>
    subs[s] = <<>> /\ \A c \in checks : c.client # s

InStep == Current /\ Wants /\ Serves /\ Keeps /\ Single /\ Gone

SyncInv == Inv /\ Lines /\ Kinds /\ (clean => InStep)

----------------------------------------------------------------------------
(* What a line leaves behind. *)

\* Requests of l are in p what they were in q.
Alike(p, q, l) ==
  \A c \in Items(l) : p[c[1]].kind = q[c[1]].kind /\ p[c[1]].event = q[c[1]].event

\* Lines with the same requests.
LEMMA EndsAlike ==
  ASSUME NEW p, NEW q, NEW l, NEW e, Alike(p, q, l)
  PROVE  /\ Ends(p, l, e) <=> Ends(q, l, e)
         /\ Clears(p, l, e) <=> Clears(q, l, e)
<1>1. \A i \in DOMAIN l : /\ Asks(p, l[i], e) <=> Asks(q, l[i], e)
                          /\ Drops(p, l[i], e) <=> Drops(q, l[i], e)
  BY DEF Alike, Items, Asks, Drops
<1> QED BY <1>1 DEF Ends, Clears

\* A line with one message more.
LEMMA EndsAppend ==
  ASSUME NEW S, NEW q, NEW l \in Seq(S), NEW m \in S, NEW e
  PROVE  /\ Ends(q, Append(l, m), e) <=> Asks(q, m, e) \/ (Ends(q, l, e) /\ ~Drops(q, m, e))
         /\ Clears(q, Append(l, m), e) <=> Clears(q, l, e) \/ Drops(q, m, e)
<1> DEFINE n == Len(l)
           u == Append(l, m)
<1>1. /\ n \in Nat /\ DOMAIN l = 1..n /\ DOMAIN u = 1..(n + 1) /\ u[n + 1] = m
      /\ \A i \in 1..n : u[i] = l[i]
  BY AppendProperties, LenProperties
<1> HIDE DEF n, u
<1>2. 1..(n + 1) = 1..n \cup {n + 1} /\ \A i \in 1..n : n + 1 > i /\ ~(i > n + 1)
  BY <1>1
<1>3. ~(n + 1 > n + 1)
  BY <1>1
<1>4. Asks(q, m, e) => ~Drops(q, m, e)
  BY DEF Asks, Drops
<1>5. Ends(q, u, e) <=> Asks(q, m, e) \/ (Ends(q, l, e) /\ ~Drops(q, m, e))
  BY <1>1, <1>2, <1>3, <1>4 DEF Ends
<1>6. Clears(q, u, e) <=> Clears(q, l, e) \/ Drops(q, m, e)
  BY <1>1, <1>2 DEF Clears
<1> QED BY <1>5, <1>6 DEF u

\* A line and its first message.
LEMMA EndsTail ==
  ASSUME NEW S, NEW q, NEW l \in Seq(S), l # <<>>, NEW e
  PROVE  /\ Ends(q, l, e) <=> Ends(q, Tail(l), e)
                              \/ (Asks(q, Head(l), e) /\ ~Clears(q, Tail(l), e))
         /\ Clears(q, l, e) <=> Drops(q, Head(l), e) \/ Clears(q, Tail(l), e)
<1> DEFINE n == Len(l) - 1
           t == Tail(l)
           h == Head(l)
<1>1. /\ n \in Nat /\ DOMAIN l = 1..(n + 1) /\ h = l[1] /\ DOMAIN t = 1..n
      /\ \A i \in 1..n : t[i] = l[i + 1]
  <2>1. /\ Tail(l) \in Seq(S) /\ Len(Tail(l)) = Len(l) - 1
        /\ Len(l) \in Nat \ {0} /\ DOMAIN l = 1..Len(l) /\ Head(l) = l[1]
        /\ DOMAIN Tail(l) = 1..(Len(l) - 1)
        /\ \A i \in 1..(Len(l) - 1) : Tail(l)[i] = l[i + 1]
    BY HeadTailProperties, LenProperties, EmptySeq
  <2> QED BY <2>1
<1> HIDE DEF n, t, h
<1>2. /\ 1 \in 1..(n + 1)
      /\ \A i \in 1..n : i + 1 \in 1..(n + 1) /\ i + 1 > 1 /\ ~(1 > i + 1)
      /\ \A i \in 1..(n + 1) : i = 1 \/ (i - 1 \in 1..n /\ (i - 1) + 1 = i)
      /\ \A i, j \in 1..n : i + 1 > j + 1 <=> i > j
      /\ ~(1 > 1)
  BY <1>1
<1>3. ASSUME Ends(q, l, e)
      PROVE  Ends(q, t, e) \/ (Asks(q, h, e) /\ ~Clears(q, t, e))
  <2>1. PICK i \in 1..(n + 1) : Asks(q, l[i], e) /\ \A j \in 1..(n + 1) : j > i => ~Drops(q, l[j], e)
    BY <1>1, <1>3 DEF Ends
  <2>2. CASE i = 1
    <3>1. \A j \in 1..n : ~Drops(q, t[j], e)
      BY <1>1, <1>2, <2>1, <2>2
    <3> QED BY <1>1, <2>1, <2>2, <3>1 DEF Clears
  <2>3. CASE i # 1
    <3>1. PICK k \in 1..n : i = k + 1
      BY <1>2, <2>3
    <3>2. Asks(q, t[k], e)
      BY <1>1, <2>1, <3>1
    <3>3. \A j \in 1..n : j > k => ~Drops(q, t[j], e)
      BY <1>1, <1>2, <2>1, <3>1
    <3> QED BY <1>1, <3>2, <3>3 DEF Ends
  <2> QED BY <2>2, <2>3
<1>4. ASSUME Ends(q, t, e)
      PROVE  Ends(q, l, e)
  <2>1. PICK i \in 1..n : Asks(q, t[i], e) /\ \A j \in 1..n : j > i => ~Drops(q, t[j], e)
    BY <1>1, <1>4 DEF Ends
  <2>2. i + 1 \in 1..(n + 1) /\ Asks(q, l[i + 1], e)
    BY <1>1, <1>2, <2>1
  <2>3. ASSUME NEW j \in 1..(n + 1), j > i + 1
        PROVE  ~Drops(q, l[j], e)
    <3>1. j # 1
      BY <1>2, <2>3
    <3>2. PICK k \in 1..n : j = k + 1
      BY <1>2, <3>1
    <3>3. k > i
      BY <1>2, <2>3, <3>2
    <3> QED BY <1>1, <2>1, <3>2, <3>3
  <2> QED BY <1>1, <2>2, <2>3 DEF Ends
<1>5. ASSUME Asks(q, h, e), ~Clears(q, t, e)
      PROVE  Ends(q, l, e)
  <2>1. ASSUME NEW j \in 1..(n + 1), j > 1
        PROVE  ~Drops(q, l[j], e)
    <3>1. PICK k \in 1..n : j = k + 1
      BY <1>2, <2>1
    <3> QED BY <1>1, <1>5, <3>1 DEF Clears
  <2> QED BY <1>1, <1>2, <1>5, <2>1 DEF Ends
<1>6. Clears(q, l, e) <=> Drops(q, h, e) \/ Clears(q, t, e)
  <2>1. ASSUME Clears(q, l, e)
        PROVE  Drops(q, h, e) \/ Clears(q, t, e)
    <3>1. PICK i \in 1..(n + 1) : Drops(q, l[i], e)
      BY <1>1, <2>1 DEF Clears
    <3>2. CASE i = 1
      BY <1>1, <3>1, <3>2
    <3>3. CASE i # 1
      <4>1. PICK k \in 1..n : i = k + 1
        BY <1>2, <3>3
      <4> QED BY <1>1, <3>1, <4>1 DEF Clears
    <3> QED BY <3>2, <3>3
  <2>2. ASSUME Clears(q, t, e)
        PROVE  Clears(q, l, e)
    BY <1>1, <1>2, <2>2 DEF Clears
  <2>3. ASSUME Drops(q, h, e)
        PROVE  Clears(q, l, e)
    BY <1>1, <1>2, <2>3 DEF Clears
  <2> QED BY <2>1, <2>2, <2>3
<1> QED BY <1>3, <1>4, <1>5, <1>6 DEF t, h

\* Two lines one after the other, the second of which takes nothing off.
LEMMA EndsConcat ==
  ASSUME NEW S, NEW q, NEW l \in Seq(S), NEW t \in Seq(S), NEW e, ~Clears(q, t, e)
  PROVE  Ends(q, l \o t, e) <=> Ends(q, l, e) \/ \E i \in DOMAIN t : Asks(q, t[i], e)
<1> DEFINE n == Len(l)
           u == l \o t
<1>1. /\ n \in Nat /\ Len(t) \in Nat /\ DOMAIN l = 1..n /\ DOMAIN t = 1..Len(t)
      /\ DOMAIN u = 1..(n + Len(t))
      /\ \A i \in 1..(n + Len(t)) : u[i] = IF i <= n THEN l[i] ELSE t[i - n]
  BY ConcatProperties, LenProperties
<1> HIDE DEF n, u
<1>2. \A i \in DOMAIN l : i \in DOMAIN u /\ i <= n /\ u[i] = l[i]
  BY <1>1
<1>3. ASSUME NEW i \in DOMAIN t
      PROVE  n + i \in DOMAIN u /\ n + i > n /\ u[n + i] = t[i]
  <2>1. n + i \in 1..(n + Len(t)) /\ ~(n + i <= n) /\ (n + i) - n = i /\ n + i > n
    BY <1>1
  <2> QED BY <1>1, <2>1
<1>4. ASSUME NEW i \in DOMAIN u
      PROVE  \/ i \in DOMAIN l
             \/ i > n /\ \E j \in DOMAIN t : u[i] = t[j] /\ i = n + j
  <2>1. CASE i <= n
    BY <1>1, <2>1
  <2>2. CASE ~(i <= n)
    <3>1. i - n \in 1..Len(t) /\ i > n /\ n + (i - n) = i
      BY <1>1, <2>2
    <3> QED BY <1>1, <2>2, <3>1
  <2> QED BY <2>1, <2>2
<1>5. \A j \in DOMAIN t : ~Drops(q, t[j], e)
  BY DEF Clears
<1>6. ASSUME Ends(q, u, e)
      PROVE  Ends(q, l, e) \/ \E i \in DOMAIN t : Asks(q, t[i], e)
  <2>1. PICK i \in DOMAIN u : Asks(q, u[i], e) /\ \A j \in DOMAIN u : j > i => ~Drops(q, u[j], e)
    BY <1>6 DEF Ends
  <2>2. CASE i \in DOMAIN l
    BY <1>2, <2>1, <2>2 DEF Ends
  <2>3. CASE \E j \in DOMAIN t : u[i] = t[j]
    BY <2>1, <2>3
  <2> QED BY <1>4, <2>2, <2>3
<1>7. ASSUME Ends(q, l, e)
      PROVE  Ends(q, u, e)
  <2>1. PICK i \in DOMAIN l : Asks(q, l[i], e) /\ \A j \in DOMAIN l : j > i => ~Drops(q, l[j], e)
    BY <1>7 DEF Ends
  <2>2. \A j \in DOMAIN u : j > i => ~Drops(q, u[j], e)
    BY <1>2, <1>4, <1>5, <2>1
  <2> QED BY <1>2, <2>1, <2>2 DEF Ends
<1>8. ASSUME NEW i \in DOMAIN t, Asks(q, t[i], e)
      PROVE  Ends(q, u, e)
  <2>1. ASSUME NEW j \in DOMAIN u, j > n + i
        PROVE  ~Drops(q, u[j], e)
    <3>1. j \notin DOMAIN l
      BY <1>1, <1>2, <2>1
    <3> QED BY <1>4, <1>5, <3>1
  <2> QED BY <1>3, <1>8, <2>1 DEF Ends
<1> QED BY <1>6, <1>7, <1>8 DEF u

----------------------------------------------------------------------------
(* What every step keeps. *)

\* Requests that were made stay what they are.
Kept == \A r \in Used : /\ r \in Used'
                       /\ request'[r].kind = request[r].kind
                       /\ request'[r].event = request[r].event

\* All copies are of requests that were made.
LEMMA CopiesUsed ==
  ASSUME Inv
  PROVE  /\ \A c \in Items(buffer) : c \in Copies /\ c[1] \in Used
         /\ \A s \in Sockets : \A c \in Items(inbox[s]) \cup Items(subs[s]) : c \in Copies /\ c[1] \in Used
         /\ \A c \in checks : c.copy \in Copies /\ c.copy[1] \in Used
<1>1. \A m : Somewhere(m, buffer, inbox, checks, subs) => m \in Emitted
  BY DEF Inv, Once
<1>2. ASSUME NEW m \in Emitted
      PROVE  m \in Copies /\ m[1] \in Used
  <2>1. m \in Copies /\ m[1] \in Ids /\ m[2] \in 1..MaxTries /\ m[2] <= request[m[1]].tries
    BY DEF Emitted, Copies
  <2>2. request[m[1]].tries # 0
    BY <2>1
  <2>3. NoRequest.tries = 0
    BY DEF NoRequest
  <2> QED BY <2>1, <2>2, <2>3 DEF Inv, Numbered
<1> QED BY <1>1, <1>2 DEF Somewhere

\* When nothing changes at the server, it has what it had.
LEMMA ServerKept ==
  ASSUME Inv, Kept, UNCHANGED <<subs, checks>>
  PROVE  /\ Kinds => \A s \in Sockets : \A c \in Items(subs'[s]) : request'[c[1]].kind = "subscribe"
         /\ Kinds => \A c \in checks' : request'[c.copy[1]].kind = "subscribe"
         /\ \A s \in Sockets : EventsAt(s)' = EventsAt(s)
         /\ \A s \in Sockets : \A e : Has(s, e)' <=> Has(s, e)
         /\ Single => Single'
<1>1. /\ \A s \in Sockets : \A c \in Items(subs[s]) : c[1] \in Used
      /\ \A c \in checks : c.copy[1] \in Used
  BY CopiesUsed
<1>2. /\ \A s \in Sockets : \A c \in Items(subs[s]) :
           request'[c[1]].event = request[c[1]].event /\ request'[c[1]].kind = request[c[1]].kind
      /\ \A c \in checks : /\ request'[c.copy[1]].event = request[c.copy[1]].event
                           /\ request'[c.copy[1]].kind = request[c.copy[1]].kind
  BY <1>1 DEF Kept
<1>3. /\ \A s \in Sockets : \A c \in Items(subs[s]) : EventOf(c)' = EventOf(c)
      /\ \A c \in checks : EventOf(c.copy)' = EventOf(c.copy)
  BY <1>2 DEF EventOf
<1>4. \A s \in Sockets : EventsAt(s)' = EventsAt(s)
  BY <1>3 DEF EventsAt
<1>5. \A s \in Sockets : \A e : Has(s, e)' <=> Has(s, e)
  BY <1>3, <1>4 DEF Has
<1>6. ASSUME Single
      PROVE  Single'
  <2>1. \A c \in checks : c.client \in Sockets
    BY DEF Inv, TypeOK, Check
  <2>2. \A s \in Sockets : \A c, d \in Items(subs'[s]) : EventOf(c)' = EventOf(d)' => c = d
    BY <1>3, <1>6 DEF Single
  <2>3. \A c \in checks' : EventOf(c.copy)' \notin EventsAt(c.client)'
    BY <1>3, <1>4, <1>6, <2>1 DEF Single
  <2>4. \A c, d \in checks' : c.client = d.client /\ EventOf(c.copy)' = EventOf(d.copy)' => c = d
    BY <1>3, <1>6 DEF Single
  <2> QED BY <2>2, <2>3, <2>4 DEF Single
<1> QED BY <1>2, <1>4, <1>5, <1>6 DEF Kinds

\* Requests keep what they ask for: those that are new subscribe.
LEMMA AskedMore ==
  ASSUME Inv, Inv', Kept, NEW e,
         \A n \in Used' \ Used : request'[n].kind = "subscribe" /\ \A r \in Used : n > r
  PROVE  Asked(e)' <=> Asked(e) \/ \E n \in Used' \ Used : request'[n].event = e
<1>1. Used \subseteq Used' /\ Used' \subseteq Nat
  BY SubscribingAssumption DEF Kept, Used, Ids
<1>2. \A r \in Used : request'[r].kind = request[r].kind /\ request'[r].event = request[r].event
  BY DEF Kept
<1>3. ASSUME NEW r \in Used, request[r].kind = "subscribe"
      PROVE  Overtaken(r)' <=> Overtaken(r)
  <2>1. ASSUME NEW n \in Used'
        PROVE  n > r /\ request'[n].kind # request'[r].kind /\ Matches(request'[n].event, request'[r].event)
               <=> n \in Used /\ n > r /\ request[n].kind # request[r].kind
                   /\ Matches(request[n].event, request[r].event)
    BY <1>2, <1>3
  <2> QED BY <1>1, <2>1 DEF Overtaken
<1>4. ASSUME NEW n \in Used' \ Used
      PROVE  ~Overtaken(n)'
  <2>1. ASSUME NEW k \in Used', k > n
        PROVE  request'[k].kind = "subscribe"
    <3>1. k \notin Used
      BY <1>1, <2>1
    <3> QED BY <3>1
  <2> QED BY <2>1 DEF Overtaken
<1>5. ASSUME Asked(e)'
      PROVE  Asked(e) \/ \E n \in Used' \ Used : request'[n].event = e
  BY <1>2, <1>3, <1>5 DEF Asked
<1>6. ASSUME Asked(e)
      PROVE  Asked(e)'
  BY <1>1, <1>2, <1>3, <1>6 DEF Asked
<1>7. ASSUME NEW n \in Used' \ Used, request'[n].event = e
      PROVE  Asked(e)'
  BY <1>4, <1>7 DEF Asked
<1> QED BY <1>5, <1>6, <1>7

\* A new unsubscribe undoes what it matches.
LEMMA AskedLess ==
  ASSUME Inv, Inv', Kept, NEW e, NEW n, n \notin Used, Used' = Used \cup {n},
         request'[n].kind = "unsubscribe", \A r \in Used : n > r
  PROVE  Asked(e)' <=> Asked(e) /\ ~Matches(request'[n].event, e)
<1>1. Used' \subseteq Nat
  BY SubscribingAssumption DEF Used, Ids
<1>2. \A r \in Used : request'[r].kind = request[r].kind /\ request'[r].event = request[r].event
  BY DEF Kept
<1>3. ASSUME NEW r \in Used, request[r].kind = "subscribe"
      PROVE  Overtaken(r)' <=> Overtaken(r) \/ Matches(request'[n].event, request[r].event)
  <2>1. ASSUME NEW k \in Used
        PROVE  k > r /\ request'[k].kind # request'[r].kind /\ Matches(request'[k].event, request'[r].event)
               <=> k > r /\ request[k].kind # request[r].kind
                   /\ Matches(request[k].event, request[r].event)
    BY <1>2
  <2>2. n > r /\ request'[n].kind # request'[r].kind /\ request'[r].event = request[r].event
    BY <1>2, <1>3
  <2> QED BY <2>1, <2>2 DEF Overtaken
<1>4. ASSUME NEW r \in Used'
      PROVE  (request'[r].kind = "subscribe" /\ request'[r].event = e)
             <=> (r \in Used /\ request[r].kind = "subscribe" /\ request[r].event = e)
  BY <1>2
<1>5. Asked(e)' => Asked(e) /\ ~Matches(request'[n].event, e)
  BY <1>3, <1>4 DEF Asked
<1>6. Asked(e) /\ ~Matches(request'[n].event, e) => Asked(e)'
  BY <1>3, <1>4 DEF Asked
<1> QED BY <1>5, <1>6

----------------------------------------------------------------------------
(* In step: the client. *)

\* What a sent message changes about what is wanted is what it asks for.
Agrees(m) ==
  \A e \in Events :
    /\ Asks(request', m, e) => wanted'[e] > 0
    /\ Drops(request', m, e) => ~(wanted'[e] > 0)
    /\ Asks(request', m, e) \/ Drops(request', m, e) \/ (wanted'[e] > 0 <=> wanted[e] > 0)

\* A message that is sent, or kept for the next connection.
LEMMA SentStep ==
  ASSUME Inv, Lines, Kept, Serves, Keeps, NEW m \in Copies, Emit(m), Agrees(m),
         UNCHANGED <<conn, subs, checks>>
  PROVE  Serves' /\ Keeps'
<1>1. /\ buffer \in Seq(Copies) /\ inbox \in [Sockets -> Seq(Copies)]
      /\ conn \in Sockets \cup {None}
  BY DEF Inv, TypeOK
<1>2. \A s \in Sockets : \A e : Has(s, e)' <=> Has(s, e)
  BY ServerKept
<1>3. CASE conn = None
  <2>1. buffer' = Append(buffer, m) /\ conn' = None
    BY <1>3 DEF Emit
  <2>2. Alike(request', request, buffer)
    BY CopiesUsed DEF Alike, Kept
  <2>3. ASSUME NEW e \in Events, Ends(request', buffer', e)
        PROVE  wanted'[e] > 0
    <3>1. Asks(request', m, e) \/ (Ends(request', buffer, e) /\ ~Drops(request', m, e))
      BY <1>1, <2>1, <2>3, EndsAppend
    <3>2. Ends(request', buffer, e) => wanted[e] > 0
      BY <2>2, EndsAlike DEF Keeps
    <3> QED BY <3>1, <3>2 DEF Agrees
  <2> QED BY <2>1, <2>3 DEF Serves, Keeps
<1>4. CASE conn # None
  <2>1. /\ conn \in Sockets /\ conn' = conn /\ buffer' = <<>>
        /\ inbox[conn] \in Seq(Copies) /\ inbox'[conn] = Append(inbox[conn], m)
    BY <1>1, <1>4 DEF Emit, Lines
  <2>2. Alike(request', request, inbox[conn])
    BY <2>1, CopiesUsed DEF Alike, Kept
  <2>3. ASSUME NEW e \in Events
        PROVE  wanted'[e] > 0 <=> \/ Ends(request', inbox'[conn], e)
                                  \/ Has(conn, e)' /\ ~Clears(request', inbox'[conn], e)
    <3>1. /\ Ends(request', inbox'[conn], e)
             <=> Asks(request', m, e) \/ (Ends(request', inbox[conn], e) /\ ~Drops(request', m, e))
          /\ Clears(request', inbox'[conn], e)
             <=> Clears(request', inbox[conn], e) \/ Drops(request', m, e)
      BY <2>1, EndsAppend
    <3>2. /\ Ends(request', inbox[conn], e) <=> Ends(request, inbox[conn], e)
          /\ Clears(request', inbox[conn], e) <=> Clears(request, inbox[conn], e)
      BY <2>2, EndsAlike
    <3>3. Has(conn, e)' <=> Has(conn, e)
      BY <1>2, <2>1
    <3>4. wanted[e] > 0 <=> \/ Ends(request, inbox[conn], e)
                            \/ Has(conn, e) /\ ~Clears(request, inbox[conn], e)
      BY <1>4 DEF Serves
    <3>5. /\ Asks(request', m, e) => wanted'[e] > 0
          /\ Drops(request', m, e) => ~(wanted'[e] > 0)
          /\ Asks(request', m, e) \/ Drops(request', m, e) \/ (wanted'[e] > 0 <=> wanted[e] > 0)
      BY DEF Agrees
    <3> QED BY <3>1, <3>2, <3>3, <3>4, <3>5
  <2>4. Serves'
    BY <2>1, <2>3 DEF Serves
  <2>5. \A e : ~Ends(request', <<>>, e)
    BY DEF Ends
  <2>6. Keeps'
    BY <2>1, <2>5 DEF Keeps
  <2> QED BY <2>4, <2>6
<1> QED BY <1>3, <1>4

\* Lines when a message is sent.
LEMMA SentLines ==
  ASSUME Inv, Lines, NEW m \in Copies, Emit(m), UNCHANGED <<conn, line, known>>
  PROVE  Lines'
<1>1. inbox \in [Sockets -> Seq(Copies)] /\ conn \in Sockets \cup {None}
  BY DEF Inv, TypeOK
<1>2. conn # None => buffer' = <<>>
  BY DEF Emit, Lines
<1>3. ASSUME NEW s \in Sockets, line[s] \in {"unused", "accepted"}
      PROVE  inbox'[s] = <<>>
  <2>1. conn # s /\ inbox[s] = <<>>
    BY <1>3 DEF Lines
  <2> QED BY <1>1, <2>1 DEF Emit
<1> QED BY <1>2, <1>3 DEF Lines

\* The number of the next request.
Following == Cardinality(Used) + 1

\* The request r is made and its first copy sent.
Makes(r, kind, e) ==
  /\ r \in Ids /\ r \notin Used /\ \A q \in Used : r > q
  /\ Used' = Used \cup {r} /\ Kept
  /\ request'[r].kind = kind /\ request'[r].event = e
  /\ <<r, 1>> \in Copies /\ Emit(<<r, 1>>)

\* What a call of the client does.
LEMMA CallEffect ==
  ASSUME Inv, NEW kind \in {"subscribe", "unsubscribe"}, NEW e \in Events \cup {AnyEvent},
         Call(kind, e)
  PROVE  Makes(Following, kind, e)
<1> DEFINE r == Cardinality(Used) + 1
<1>1. /\ r \in Ids /\ request' = [request EXCEPT ![r] = New(kind, e, conn # None)] /\ Emit(<<r, 1>>)
  BY DEF Call
<1>2. /\ request \in [Ids -> Request] /\ Cardinality(Used) \in Nat
      /\ \A q \in Ids : q \in Used <=> q <= Cardinality(Used)
  BY UsedCount, SubscribingAssumption DEF Inv, TypeOK
<1>3. r \notin Used /\ \A q \in Used : r > q
  <2>1. Used \subseteq Ids /\ Ids \subseteq Nat
    BY SubscribingAssumption DEF Used, Ids
  <2> QED BY <1>1, <1>2, <2>1
<1> HIDE DEF r
<1>4. /\ request'[r].kind = kind /\ request'[r].event = e
      /\ \A q \in Ids \ {r} : request'[q] = request[q]
  BY <1>1, <1>2 DEF New
<1>5. Used' = Used \cup {r}
  BY <1>1, <1>4 DEF Used
<1>6. Kept
  BY <1>3, <1>4, <1>5 DEF Kept, Used
<1>7. <<r, 1>> \in Copies
  BY <1>1, SubscribingAssumption DEF Copies
<1> QED BY <1>1, <1>3, <1>4, <1>5, <1>6, <1>7 DEF Makes, Following, r

\* A call keeps client and server in step, if it changes what is wanted as
\* the request says.
LEMMA CallInStep ==
  ASSUME SyncInv, Inv', NEW kind \in {"subscribe", "unsubscribe"}, NEW e \in Events \cup {AnyEvent},
         Call(kind, e), kind = "subscribe" => e \in Events, UNCHANGED <<conn, line, answers, server>>,
         clean' => /\ clean
                   /\ kind = "subscribe" => \A f \in Events : wanted'[f] > 0 <=> wanted[f] > 0 \/ f = e
                   /\ kind = "unsubscribe" =>
                        \A f \in Events : wanted'[f] > 0 <=> wanted[f] > 0 /\ ~Matches(e, f)
  PROVE  SyncInv'
<1> DEFINE r == Following
<1>1. Inv /\ Lines /\ Kinds /\ (clean => InStep)
  BY DEF SyncInv
<1>2. /\ r \in Ids /\ r \notin Used /\ \A q \in Used : r > q
      /\ Used' = Used \cup {r} /\ Kept
      /\ request'[r].kind = kind /\ request'[r].event = e
      /\ <<r, 1>> \in Copies /\ Emit(<<r, 1>>)
  BY <1>1, CallEffect DEF Makes
<1> HIDE DEF r
<1>3. UNCHANGED <<conn, line, known, subs, checks>>
  BY DEF server
<1>4. Lines'
  BY <1>1, <1>2, <1>3, SentLines
<1>5. Kinds'
  <2>1. \A q \in Used' : request'[q].kind = "subscribe" => request'[q].event \in Events
    BY <1>1, <1>2 DEF Kept, Kinds
  <2> QED BY <1>1, <1>2, <1>3, <2>1, ServerKept DEF Kinds
<1>6. ASSUME clean'
      PROVE  InStep'
  <2>1. /\ InStep /\ clean
        /\ kind = "subscribe" => \A f \in Events : wanted'[f] > 0 <=> wanted[f] > 0 \/ f = e
        /\ kind = "unsubscribe" => \A f \in Events : wanted'[f] > 0 <=> wanted[f] > 0 /\ ~Matches(e, f)
    BY <1>1, <1>6
  <2>2. Current' /\ Gone'
    BY <1>3, <2>1 DEF InStep, Current, Gone
  <2>3. Single'
    BY <1>1, <1>2, <1>3, <2>1, ServerKept DEF InStep
  <2>4. Wants'
    <3>1. CASE kind = "subscribe"
      <4>1. \A f : Asked(f)' <=> Asked(f) \/ e = f
        BY <1>1, <1>2, <3>1, AskedMore
      <4> QED BY <2>1, <3>1, <4>1 DEF InStep, Wants
    <3>2. CASE kind = "unsubscribe"
      <4>1. \A f : Asked(f)' <=> Asked(f) /\ ~Matches(e, f)
        BY <1>1, <1>2, <3>2, AskedLess
      <4> QED BY <2>1, <3>2, <4>1 DEF InStep, Wants
    <3> QED BY <3>1, <3>2
  <2>5. Agrees(<<r, 1>>)
    <3>1. \A f : /\ Asks(request', <<r, 1>>, f) <=> kind = "subscribe" /\ e = f
                 /\ Drops(request', <<r, 1>>, f) <=> kind = "unsubscribe" /\ Matches(e, f)
      BY <1>2 DEF Asks, Drops
    <3> QED BY <2>1, <3>1 DEF Agrees
  <2>6. Serves' /\ Keeps'
    BY <1>1, <1>2, <1>3, <2>1, <2>5, SentStep DEF InStep
  <2> QED BY <2>2, <2>3, <2>4, <2>6 DEF InStep
<1> QED BY <1>4, <1>5, <1>6 DEF SyncInv

\* A further copy of a request that no newer one contradicts asks for what
\* is wanted.
LEMMA RetryInStep ==
  ASSUME SyncInv, Inv', NEW r \in Ids, Retry(r)
  PROVE  SyncInv'
<1> DEFINE m == <<r, request[r].tries + 1>>
<1>1. Inv /\ Lines /\ Kinds /\ (clean => InStep)
  BY DEF SyncInv
<1>2. /\ request \in [Ids -> Request] /\ request[r].listening /\ Emit(m)
      /\ request' = [request EXCEPT ![r].tries = @ + 1,
                                    ![r].promise = IF conn = None THEN "rejected" ELSE @]
      /\ UNCHANGED <<wanted, conn, line, known, subs, checks>>
      /\ clean' => clean /\ ~Overtaken(r)
  BY <1>1 DEF Retry, Inv, TypeOK, server
<1>3. \A q \in Ids : request'[q].kind = request[q].kind /\ request'[q].event = request[q].event
  BY <1>2 DEF Request
<1>4. Used' = Used
  BY <1>3 DEF Used
<1>5. Kept
  BY <1>3, <1>4 DEF Kept, Used
<1>6. r \in Used
  <2>1. r \notin Used => request[r] = NoRequest
    BY <1>1 DEF Inv, Numbered
  <2> QED BY <1>2, <2>1 DEF NoRequest
<1>7. m \in Copies /\ m[1] = r
  <2>1. request[r].tries \in 0..MaxTries /\ request[r].tries < MaxTries
    BY <1>2 DEF Retry, Request
  <2>2. request[r].tries + 1 \in 1..MaxTries
    BY <2>1, SubscribingAssumption
  <2> QED BY <2>2 DEF Copies
<1> HIDE DEF m
<1>8. Lines'
  BY <1>1, <1>2, <1>7, SentLines
<1>9. Kinds'
  <2>1. \A q \in Used' : request'[q].kind = "subscribe" => request'[q].event \in Events
    BY <1>1, <1>3, <1>4 DEF Kinds, Used
  <2> QED BY <1>1, <1>2, <1>5, <2>1, ServerKept DEF Kinds
<1>10. ASSUME clean'
       PROVE  InStep'
  <2>1. InStep /\ ~Overtaken(r)
    BY <1>1, <1>2, <1>10
  <2>2. Current' /\ Gone'
    BY <1>2, <2>1 DEF InStep, Current, Gone
  <2>3. Single'
    BY <1>1, <1>2, <1>5, <2>1, ServerKept DEF InStep
  <2>4. Wants'
    <3>1. \A e : Asked(e)' <=> Asked(e)
      BY <1>1, <1>4, <1>5, AskedMore
    <3> QED BY <1>2, <2>1, <3>1 DEF InStep, Wants
  <2>5. ASSUME NEW e \in Events, Asks(request', m, e)
        PROVE  wanted'[e] > 0
    <3>1. request[r].kind = "subscribe" /\ request[r].event = e
      BY <1>3, <1>7, <2>5 DEF Asks
    <3>2. Asked(e)
      BY <1>6, <2>1, <3>1 DEF Asked
    <3> QED BY <1>2, <2>1, <3>2 DEF InStep, Wants
  <2>6. ASSUME NEW e \in Events, Drops(request', m, e), wanted'[e] > 0
        PROVE  FALSE
    <3>1. request[r].kind = "unsubscribe" /\ Matches(request[r].event, e)
      BY <1>3, <1>7, <2>6 DEF Drops
    <3>2. PICK q \in Used : request[q].kind = "subscribe" /\ request[q].event = e /\ ~Overtaken(q)
      BY <1>2, <2>1, <2>6 DEF InStep, Wants, Asked
    <3>3. q > r \/ r > q
      <4>1. q # r /\ q \in Nat /\ r \in Nat
        BY <3>1, <3>2, SubscribingAssumption DEF Used, Ids
      <4> QED BY <4>1
    <3>4. Matches(request[q].event, request[r].event) /\ Matches(request[r].event, request[q].event)
      BY <3>1, <3>2 DEF Matches
    <3> QED BY <1>6, <2>1, <3>1, <3>2, <3>3, <3>4 DEF Overtaken
  <2>7. Agrees(m)
    BY <1>2, <2>5, <2>6 DEF Agrees
  <2>8. Serves' /\ Keeps'
    BY <1>1, <1>2, <1>5, <1>7, <2>1, <2>7, SentStep DEF InStep
  <2> QED BY <2>2, <2>3, <2>4, <2>8 DEF InStep
<1> QED BY <1>8, <1>9, <1>10 DEF SyncInv

\* Steps that only settle a request, or do nothing.
LEMMA SettledInStep ==
  ASSUME SyncInv, Inv', Kept, Used' = Used,
         UNCHANGED <<wanted, conn, buffer, line, inbox, known, subs, checks, clean>>
  PROVE  SyncInv'
<1>1. Inv /\ Lines /\ Kinds /\ (clean => InStep)
  BY DEF SyncInv
<1>2. Lines'
  BY <1>1 DEF Lines
<1>3. Kinds'
  <2>1. \A q \in Used' : request'[q].kind = "subscribe" => request'[q].event \in Events
    BY <1>1 DEF Kept, Kinds
  <2> QED BY <1>1, <2>1, ServerKept DEF Kinds
<1>4. ASSUME InStep
      PROVE  InStep'
  <2>1. Current' /\ Gone' /\ Single'
    BY <1>1, <1>4, ServerKept DEF InStep, Current, Gone
  <2>2. Wants'
    <3>1. \A e : Asked(e)' <=> Asked(e)
      BY <1>1, AskedMore
    <3> QED BY <1>4, <3>1 DEF InStep, Wants
  <2>3. Keeps'
    <3>1. Alike(request', request, buffer)
      BY <1>1, CopiesUsed DEF Alike, Kept
    <3>2. \A e : Ends(request', buffer, e) <=> Ends(request, buffer, e)
      BY <3>1, EndsAlike
    <3> QED BY <1>4, <3>2 DEF InStep, Keeps
  <2>4. Serves'
    <3>1. CASE conn = None
      BY <3>1 DEF Serves
    <3>2. CASE conn # None
      <4>1. conn \in Sockets
        BY <1>1, <3>2 DEF Inv, TypeOK
      <4>2. Alike(request', request, inbox[conn])
        BY <1>1, <4>1, CopiesUsed DEF Alike, Kept
      <4>3. \A e : /\ Ends(request', inbox[conn], e) <=> Ends(request, inbox[conn], e)
                   /\ Clears(request', inbox[conn], e) <=> Clears(request, inbox[conn], e)
        BY <4>2, EndsAlike
      <4>4. \A e : Has(conn, e)' <=> Has(conn, e)
        BY <1>1, <4>1, ServerKept
      <4> QED BY <1>4, <4>3, <4>4 DEF InStep, Serves
    <3> QED BY <3>1, <3>2
  <2> QED BY <2>1, <2>2, <2>3, <2>4 DEF InStep
<1> QED BY <1>1, <1>2, <1>3, <1>4 DEF SyncInv

\* The client gives a request up, or receives an answer.
LEMMA AnswerInStep ==
  ASSUME SyncInv, Inv', (\E r \in Ids : GiveUp(r)) \/ \E s \in Sockets : Receive(s)
  PROVE  SyncInv'
<1>1. /\ request \in [Ids -> Request]
      /\ UNCHANGED <<wanted, conn, buffer, line, inbox, known, subs, checks, clean>>
  BY DEF SyncInv, Inv, TypeOK, GiveUp, Receive, server
<1>2. \A q \in Ids : request'[q].kind = request[q].kind /\ request'[q].event = request[q].event
  <2>1. ASSUME NEW r \in Ids, GiveUp(r)
        PROVE  \A q \in Ids : request'[q].kind = request[q].kind /\ request'[q].event = request[q].event
    BY <1>1, <2>1 DEF GiveUp, Request
  <2>2. ASSUME NEW s \in Sockets, Receive(s)
        PROVE  \A q \in Ids : request'[q].kind = request[q].kind /\ request'[q].event = request[q].event
    <3> DEFINE r == Head(answers[s])
               n == [request[r] EXCEPT !.listening = FALSE,
                                       !.promise = IF @ = "open" THEN "resolved" ELSE @]
    <3>1. request' = IF request[r].listening THEN [request EXCEPT ![r] = n] ELSE request
      BY <2>2 DEF Receive
    <3>2. r \in Ids => n.kind = request[r].kind /\ n.event = request[r].event
      BY <1>1 DEF Request
    <3> HIDE DEF r, n
    <3> QED BY <1>1, <3>1, <3>2
  <2> QED BY <2>1, <2>2
<1>3. Used' = Used /\ Kept
  BY <1>2 DEF Used, Kept
<1> QED BY <1>1, <1>3, SettledInStep

\* The client is connected: what it kept goes to the server, and then a
\* subscription for all that is wanted.
LEMMA ConnectedInStep ==
  ASSUME SyncInv, Inv', NEW s \in Sockets, Connected(s)
  PROVE  SyncInv'
<1> DEFINE k == Cardinality(Used)
<1>1. /\ Inv /\ Lines /\ Kinds /\ (clean => InStep)
      /\ buffer \in Seq(Copies) /\ inbox \in [Sockets -> Seq(Copies)] /\ request \in [Ids -> Request]
      /\ line \in [Sockets -> {"unused", "accepted", "open", "lost", "closed"}]
      /\ wanted \in [Events -> 0..MaxCallbacks] /\ MaxCallbacks \in Nat
  BY SubscribingAssumption DEF SyncInv, Inv, TypeOK
<1>2. PICK n \in 0..(MaxRequests - k) : \E f \in Again(n) :
        /\ request' = [r \in Ids |-> IF r \in (k + 1)..(k + n)
                                       THEN New("subscribe", f[r - k], TRUE) ELSE request[r]]
        /\ inbox' = [inbox EXCEPT ![s] = buffer \o [i \in 1..n |-> <<k + i, 1>>]]
  BY Zenon DEF Connected
<1>3. PICK f \in Again(n) :
        /\ request' = [r \in Ids |-> IF r \in (k + 1)..(k + n)
                                       THEN New("subscribe", f[r - k], TRUE) ELSE request[r]]
        /\ inbox' = [inbox EXCEPT ![s] = buffer \o [i \in 1..n |-> <<k + i, 1>>]]
  BY <1>2
<1> DEFINE fresh == [i \in 1..n |-> <<k + i, 1>>]
<1>4. /\ k \in Nat /\ n \in Nat /\ k + n \in 0..MaxRequests /\ Ids = 1..MaxRequests
      /\ \A r \in Ids : r \in Used <=> r <= k
  BY <1>1, UsedCount, SubscribingAssumption DEF Ids, Inv
<1> HIDE DEF k
<1>5. /\ line[s] = "accepted" /\ buffer' = <<>> /\ conn' = s /\ line' = [line EXCEPT ![s] = "open"]
      /\ UNCHANGED <<wanted, known, subs, checks, clean>>
  BY DEF Connected, server
<1>6. /\ DOMAIN f = 1..n /\ \A i \in 1..n : f[i] \in Events
      /\ \A e \in Events : Cardinality({i \in 1..n : f[i] = e}) = wanted[e]
  BY DEF Again
<1>7. ASSUME NEW i \in 1..n
      PROVE  /\ k + i \in Ids /\ k + i \notin Used
             /\ request'[k + i].kind = "subscribe" /\ request'[k + i].event = f[i]
  <2>1. k + i \in (k + 1)..(k + n) /\ k + i \in 1..(k + n) /\ ~(k + i <= k) /\ (k + i) - k = i
    BY <1>4
  <2>2. 1..(k + n) \subseteq Ids
    BY <1>4, SubscribingAssumption
  <2>3. request'[k + i] = New("subscribe", f[i], TRUE)
    BY <1>3, <2>1, <2>2
  <2> QED BY <1>4, <2>1, <2>2, <2>3 DEF New
<1>8. ASSUME NEW r \in Ids
      PROVE  request'[r] = request[r] \/ \E i \in 1..n : r = k + i
  <2>1. CASE r \in (k + 1)..(k + n)
    <3>1. r - k \in 1..n /\ r = k + (r - k)
      BY <1>4, <2>1
    <3> QED BY <3>1
  <2>2. CASE r \notin (k + 1)..(k + n)
    BY <1>3, <2>2
  <2> QED BY <2>1, <2>2
<1>9. Kept
  <2>1. \A r \in Used : request'[r] = request[r] /\ r \in Ids
    BY <1>7, <1>8 DEF Used
  <2> QED BY <2>1 DEF Kept, Used
<1>10. Used' = Used \cup {k + i : i \in 1..n}
  BY <1>7, <1>8 DEF Used
<1>11. \A r \in Used' \ Used : \E i \in 1..n : r = k + i
  BY <1>10
<1>12. ASSUME NEW r \in Used' \ Used
       PROVE  request'[r].kind = "subscribe" /\ request'[r].event \in Events /\ \A q \in Used : r > q
  <2>1. PICK i \in 1..n : r = k + i
    BY <1>11
  <2>2. \A q \in Used : q <= k /\ q \in Nat
    BY <1>4, SubscribingAssumption DEF Used
  <2>3. \A q \in Used : k + i > q
    BY <1>4, <2>2
  <2> QED BY <1>6, <1>7, <2>1, <2>3
<1>13. \A e \in Events : wanted[e] > 0 <=> \E i \in 1..n : f[i] = e
  <2> SUFFICES ASSUME NEW e \in Events
               PROVE  wanted[e] > 0 <=> \E i \in 1..n : f[i] = e
    OBVIOUS
  <2> DEFINE at == {i \in 1..n : f[i] = e}
  <2>1. IsFiniteSet(at)
    <3>1. IsFiniteSet(1..n)
      BY <1>4, FS_Interval
    <3> QED BY <3>1, FS_Subset
  <2>2. Cardinality(at) \in Nat /\ (Cardinality(at) = 0 <=> at = {})
    BY <2>1, FS_CardinalityType, FS_EmptySet
  <2>3. Cardinality(at) = wanted[e]
    BY <1>6
  <2>4. at # {} <=> \E i \in 1..n : f[i] = e
    OBVIOUS
  <2> HIDE DEF at
  <2> QED BY <2>2, <2>3, <2>4
<1>14. /\ fresh \in Seq(Copies) /\ DOMAIN fresh = 1..n /\ \A i \in 1..n : fresh[i] = <<k + i, 1>>
  <2>1. 1 \in 1..MaxTries
    BY SubscribingAssumption
  <2>2. \A i \in 1..n : <<k + i, 1>> \in Copies
    BY <1>7, <2>1 DEF Copies
  <2>3. fresh \in Seq(Copies)
    BY <1>4, <2>2, SeqDef
  <2> QED BY <2>3
<1> HIDE DEF fresh
<1>15. /\ inbox'[s] = buffer \o fresh /\ \A t \in Sockets \ {s} : inbox'[t] = inbox[t]
  BY <1>1, <1>3 DEF fresh
<1>16. Lines'
  <2>1. \A t \in Sockets \ {s} : line'[t] = line[t] /\ line[t] \notin Up
    BY <1>1, <1>5 DEF Lines, Up
  <2>2. line'[s] = "open"
    BY <1>1, <1>5
  <2>3. \A t \in Sockets : line'[t] = "open" <=> conn' = t
    BY <1>5, <2>1, <2>2 DEF Up
  <2>4. \A t, u \in Sockets : line'[t] \in Up /\ line'[u] \in Up => t = u
    BY <2>1
  <2>5. known' # None => line'[known'] \in {"accepted", "open", "lost"}
    BY <1>1, <1>5 DEF Lines, Inv, TypeOK
  <2>6. \A t \in Sockets : line'[t] \in {"unused", "accepted"} => inbox'[t] = <<>>
    BY <1>1, <1>15, <2>1, <2>2 DEF Lines
  <2> QED BY <1>5, <2>3, <2>4, <2>5, <2>6 DEF Lines
<1>17. Kinds'
  <2>1. \A q \in Used' : request'[q].kind = "subscribe" => request'[q].event \in Events
    BY <1>1, <1>9, <1>12 DEF Kept, Kinds
  <2> QED BY <1>1, <1>5, <1>9, <2>1, ServerKept DEF Kinds
<1>18. ASSUME InStep
       PROVE  InStep'
  <2>1. \A t \in Sockets : line'[t] \in Up => line[t] \in Up
    BY <1>1, <1>5 DEF Up
  <2>2. Current'
    BY <1>5, <1>18, <2>1 DEF InStep, Current
  <2>3. Single'
    BY <1>1, <1>5, <1>9, <1>18, ServerKept DEF InStep
  <2>4. Gone'
    BY <1>1, <1>5, <1>18 DEF InStep, Gone
  <2>5. Wants'
    <3>1. \A e : Asked(e)' <=> Asked(e) \/ \E r \in Used' \ Used : request'[r].event = e
      BY <1>1, <1>9, <1>12, AskedMore
    <3>2. ASSUME NEW r \in Used' \ Used
          PROVE  wanted[request'[r].event] > 0
      <4>1. PICK i \in 1..n : r = k + i
        BY <1>11
      <4> QED BY <1>6, <1>7, <1>13, <4>1
    <3> QED BY <1>5, <1>18, <3>1, <3>2 DEF InStep, Wants
  <2>6. Keeps'
    BY <1>5 DEF Keeps, Ends
  <2>7. ASSUME NEW e \in Events
        PROVE  /\ ~Has(s, e)'
               /\ wanted[e] > 0 <=> Ends(request', inbox'[s], e)
    <3>1. ~Has(s, e)
      <4>1. subs[s] = <<>> /\ \A c \in checks : c.client # s
        BY <1>5, <1>18 DEF InStep, Gone
      <4> QED BY <4>1 DEF Has, EventsAt, Items
    <3>2. Has(s, e)' <=> Has(s, e)
      BY <1>1, <1>5, <1>9, ServerKept
    <3>3. ~Clears(request', fresh, e)
      <4>1. \A i \in 1..n : ~Drops(request', fresh[i], e)
        BY <1>7, <1>14 DEF Drops
      <4> QED BY <1>14, <4>1 DEF Clears
    <3>4. Ends(request', inbox'[s], e)
          <=> Ends(request', buffer, e) \/ \E i \in DOMAIN fresh : Asks(request', fresh[i], e)
      <4>1. buffer \in Seq(Copies) /\ fresh \in Seq(Copies)
        BY <1>1, <1>14
      <4>2. Ends(request', buffer \o fresh, e)
            <=> Ends(request', buffer, e) \/ \E i \in DOMAIN fresh : Asks(request', fresh[i], e)
        BY <3>3, <4>1, EndsConcat
      <4> QED BY <1>15, <4>2
    <3>5. Ends(request', buffer, e) => wanted[e] > 0
      <4>1. Alike(request', request, buffer)
        BY <1>1, <1>9, CopiesUsed DEF Alike, Kept
      <4>2. Ends(request', buffer, e) <=> Ends(request, buffer, e)
        BY <4>1, EndsAlike
      <4> QED BY <1>18, <4>2 DEF InStep, Keeps
    <3>6. (\E i \in DOMAIN fresh : Asks(request', fresh[i], e)) <=> \E i \in 1..n : f[i] = e
      <4>1. \A i \in 1..n : Asks(request', fresh[i], e) <=> f[i] = e
        BY <1>7, <1>14 DEF Asks
      <4> QED BY <1>14, <4>1
    <3> QED BY <1>13, <3>1, <3>2, <3>4, <3>5, <3>6
  <2>8. Serves'
    BY <1>5, <2>7 DEF Serves
  <2> QED BY <2>2, <2>3, <2>4, <2>5, <2>6, <2>8 DEF InStep
<1> QED BY <1>1, <1>5, <1>16, <1>17, <1>18 DEF SyncInv

\* A connection is lost.
LEMMA LoseInStep ==
  ASSUME SyncInv, Inv', NEW s \in Sockets, Lose(s)
  PROVE  SyncInv'
<1>1. /\ Inv /\ Lines /\ Kinds /\ (clean => InStep)
      /\ line \in [Sockets -> {"unused", "accepted", "open", "lost", "closed"}]
      /\ known \in Sockets \cup {None}
  BY DEF SyncInv, Inv, TypeOK
<1>2. /\ line[s] \in Up /\ line' = [line EXCEPT ![s] = "lost"] /\ conn' = None
      /\ UNCHANGED <<wanted, request, buffer, inbox, known, subs, checks, clean>>
  BY DEF Lose, Up, server
<1>3. Used' = Used /\ Kept
  BY <1>2 DEF Used, Kept
<1>4. \A t \in Sockets : line'[t] \notin Up /\ (t # s => line'[t] = line[t]) /\ line'[s] = "lost"
  BY <1>1, <1>2 DEF Lines, Up
<1>5. Lines'
  <2>1. known' # None => line'[known'] \in {"accepted", "open", "lost"}
    BY <1>1, <1>2, <1>4 DEF Lines
  <2>2. \A t \in Sockets : ~(line'[t] = "open") /\ ~(conn' = t)
    BY <1>2, <1>4 DEF Up, Sockets, None
  <2>3. \A t \in Sockets : line'[t] \in {"unused", "accepted"} => inbox'[t] = <<>>
    BY <1>1, <1>2, <1>4 DEF Lines
  <2> QED BY <1>2, <1>4, <2>1, <2>2, <2>3 DEF Lines
<1>6. Kinds'
  BY <1>1, <1>2, <1>3 DEF Kinds
<1>7. ASSUME InStep
      PROVE  InStep'
  <2>1. Current' /\ Serves'
    BY <1>2, <1>4 DEF Current, Serves
  <2>2. Keeps'
    BY <1>2, <1>7 DEF InStep, Keeps
  <2>3. Single'
    BY <1>1, <1>2, <1>3, <1>7, ServerKept DEF InStep
  <2>4. Gone'
    BY <1>2, <1>4, <1>7 DEF InStep, Gone
  <2>5. Wants'
    <3>1. \A e : Asked(e)' <=> Asked(e)
      BY <1>1, <1>3, AskedMore
    <3> QED BY <1>2, <1>7, <3>1 DEF InStep, Wants
  <2> QED BY <2>1, <2>2, <2>3, <2>4, <2>5 DEF InStep
<1> QED BY <1>1, <1>2, <1>5, <1>6, <1>7 DEF SyncInv

----------------------------------------------------------------------------
(* In step: the server. *)

\* Steps of the server change nothing at the client.
LEMMA ServerSide ==
  ASSUME SyncInv, Inv', UNCHANGED <<wanted, request, conn, buffer>>
  PROVE  /\ Used' = Used /\ Kept /\ \A c : EventOf(c)' = EventOf(c)
         /\ \A r \in Used' : request'[r].kind = "subscribe" => request'[r].event \in Events
         /\ Wants => Wants'
         /\ Keeps => Keeps'
<1>1. Inv /\ Kinds
  BY DEF SyncInv
<1>2. Used' = Used /\ Kept /\ \A c : EventOf(c)' = EventOf(c)
  BY DEF Used, Kept, EventOf
<1>3. \A e : Asked(e)' <=> Asked(e)
  BY <1>1, <1>2, AskedMore
<1>4. Wants => Wants'
  BY <1>3 DEF Wants
<1>5. Keeps => Keeps'
  BY DEF Keeps
<1> QED BY <1>1, <1>2, <1>4, <1>5 DEF Kinds

\* A new connection takes the place of the one before.
LEMMA AcceptInStep ==
  ASSUME SyncInv, Inv', NEW s \in Sockets, Accept(s)
  PROVE  SyncInv'
<1>1. /\ Inv /\ Lines /\ Kinds /\ (clean => InStep)
      /\ line \in [Sockets -> {"unused", "accepted", "open", "lost", "closed"}]
  BY DEF SyncInv, Inv, TypeOK
<1>2. /\ conn = None /\ line' = [line EXCEPT ![s] = "accepted"] /\ known' = s
      /\ \A t \in Sockets : IF t < s THEN line[t] \notin {"unused", "accepted"} ELSE line[t] = "unused"
      /\ UNCHANGED <<wanted, request, conn, buffer, inbox, subs, checks, clean>>
  BY DEF Accept, client
<1>3. /\ line[s] = "unused" /\ line'[s] = "accepted"
      /\ \A t \in Sockets \ {s} : line'[t] = line[t] /\ line[t] \notin Up
  <2>1. ~(s < s) /\ ~(None \in Sockets)
    BY DEF Sockets, None
  <2>2. \A t \in Sockets : line[t] # "open"
    BY <1>1, <1>2, <2>1 DEF Lines
  <2>3. \A t \in Sockets : line[t] # "accepted"
    BY <1>2
  <2> QED BY <1>1, <1>2, <2>1, <2>2, <2>3 DEF Up
<1>4. Lines'
  <2>1. \A t \in Sockets : line'[t] = "open" <=> conn' = t
    BY <1>1, <1>2, <1>3 DEF Lines
  <2>2. \A t, u \in Sockets : line'[t] \in Up /\ line'[u] \in Up => t = u
    BY <1>3
  <2>3. \A t \in Sockets : line'[t] \in {"unused", "accepted"} => inbox'[t] = <<>>
    BY <1>1, <1>2, <1>3 DEF Lines
  <2> QED BY <1>2, <1>3, <2>1, <2>2, <2>3 DEF Lines
<1>5. Kinds'
  BY <1>1, <1>2, ServerSide DEF Kinds
<1>6. ASSUME InStep
      PROVE  InStep'
  <2>1. Current'
    BY <1>2, <1>3 DEF Current
  <2>2. Wants' /\ Keeps' /\ Kept
    BY <1>2, <1>6, ServerSide DEF InStep
  <2>3. Serves'
    BY <1>2 DEF Serves
  <2>4. Single'
    BY <1>1, <1>2, <1>6, <2>2, ServerKept DEF InStep
  <2>5. Gone'
    BY <1>2, <1>3, <1>6 DEF InStep, Gone
  <2> QED BY <2>1, <2>2, <2>3, <2>4, <2>5 DEF InStep
<1> QED BY <1>1, <1>2, <1>4, <1>5, <1>6 DEF SyncInv

\* Lines when the next message of a connection is taken.
LEMMA TakenLines ==
  ASSUME Inv, Lines, NEW s \in Sockets, line[s] \in {"open", "lost"},
         inbox' = [inbox EXCEPT ![s] = Tail(@)], UNCHANGED <<conn, buffer, line, known>>
  PROVE  Lines'
<1>1. inbox \in [Sockets -> Seq(Copies)]
  BY DEF Inv, TypeOK
<1>2. \A t \in Sockets : line[t] \in {"unused", "accepted"} => inbox'[t] = <<>>
  BY <1>1 DEF Lines
<1> QED BY <1>2 DEF Lines

\* A message is ignored since the server does not know the client.
LEMMA UnknownInStep ==
  ASSUME SyncInv, Inv', NEW s \in Sockets, HandleUnknown(s)
  PROVE  SyncInv'
<1>1. Inv /\ Lines /\ Kinds /\ (clean => InStep)
  BY DEF SyncInv
<1>2. /\ line[s] \in {"open", "lost"} /\ known = None /\ inbox' = [inbox EXCEPT ![s] = Tail(@)]
      /\ UNCHANGED <<wanted, request, conn, buffer, line, known, subs, checks, clean>>
  BY DEF HandleUnknown, client, server
<1>3. Lines'
  BY <1>1, <1>2, TakenLines
<1>4. Kinds'
  BY <1>1, <1>2, ServerSide DEF Kinds
<1>5. ASSUME InStep
      PROVE  InStep'
  <2>1. Current' /\ Gone'
    BY <1>2, <1>5 DEF InStep, Current, Gone
  <2>2. Wants' /\ Keeps' /\ Kept
    BY <1>2, <1>5, ServerSide DEF InStep
  <2>3. conn = None
    <3>1. conn \in Sockets \cup {None}
      BY <1>1 DEF Inv, TypeOK
    <3>2. ASSUME conn \in Sockets
          PROVE  known = conn /\ conn # None
      BY <1>1, <1>5, <3>2 DEF Lines, InStep, Current, Up, Sockets, None
    <3> QED BY <1>2, <3>1, <3>2
  <2>4. Serves'
    BY <1>2, <2>3 DEF Serves
  <2>5. Single'
    BY <1>1, <1>2, <1>5, <2>2, ServerKept DEF InStep
  <2> QED BY <2>1, <2>2, <2>4, <2>5 DEF InStep
<1> QED BY <1>1, <1>2, <1>3, <1>4, <1>5 DEF SyncInv

\* A message that is handled makes of what the server has what it asks for;
\* so what the line and the server make together stays.
LEMMA HandledServes ==
  ASSUME Inv, Lines, Current, Serves, NEW s \in Sockets, s = known, inbox[s] # <<>>,
         inbox' = [inbox EXCEPT ![s] = Tail(@)], UNCHANGED <<wanted, request, conn>>,
         \A e \in Events : Has(s, e)' <=> \/ Has(s, e) /\ ~Drops(request, Head(inbox[s]), e)
                                          \/ Asks(request, Head(inbox[s]), e)
  PROVE  Serves'
<1>1. inbox \in [Sockets -> Seq(Copies)] /\ conn \in Sockets \cup {None}
  BY DEF Inv, TypeOK
<1>2. inbox[s] \in Seq(Copies) /\ inbox'[s] = Tail(inbox[s])
  BY <1>1
<1>3. CASE conn = None
  BY <1>3 DEF Serves
<1>4. CASE conn # None
  <2>1. conn = s
    BY <1>1, <1>4 DEF Lines, Current, Up
  <2>2. ASSUME NEW e \in Events
        PROVE  wanted[e] > 0 <=> \/ Ends(request, inbox'[s], e)
                                 \/ Has(s, e)' /\ ~Clears(request, inbox'[s], e)
    <3>1. /\ Ends(request, inbox[s], e)
             <=> Ends(request, Tail(inbox[s]), e)
                 \/ (Asks(request, Head(inbox[s]), e) /\ ~Clears(request, Tail(inbox[s]), e))
          /\ Clears(request, inbox[s], e)
             <=> Drops(request, Head(inbox[s]), e) \/ Clears(request, Tail(inbox[s]), e)
      BY <1>2, EndsTail
    <3>2. wanted[e] > 0 <=> \/ Ends(request, inbox[s], e)
                            \/ Has(s, e) /\ ~Clears(request, inbox[s], e)
      BY <1>4, <2>1 DEF Serves
    <3> QED BY <1>2, <3>1, <3>2
  <2> QED BY <2>1, <2>2 DEF Serves
<1> QED BY <1>3, <1>4

\* A subscription up to its access check.
LEMMA SubscribedInStep ==
  ASSUME SyncInv, Inv', NEW s \in Sockets, HandleSubscribe(s)
  PROVE  SyncInv'
<1> DEFINE m == Head(inbox[s])
           e == EventOf(m)
           c == [copy |-> m, client |-> known, socket |-> s]
<1>1. Inv /\ Lines /\ Kinds /\ (clean => InStep)
  BY DEF SyncInv
<1>2. /\ line[s] \in {"open", "lost"} /\ inbox[s] # <<>> /\ known # None
      /\ request[m[1]].kind = "subscribe" /\ inbox' = [inbox EXCEPT ![s] = Tail(@)]
      /\ UNCHANGED <<wanted, request, conn, buffer, line, known, subs>>
      /\ \/ e \in EventsAt(known) /\ checks' = checks
         \/ e \notin EventsAt(known) /\ checks' = checks \cup {c}
      /\ clean' => clean /\ s = known /\ ~BeingChecked(known, e)
  BY DEF HandleSubscribe, Message, client
<1>3. m \in Copies /\ m[1] \in Used
  <2>1. inbox[s] \in Seq(Copies)
    BY <1>1 DEF Inv, TypeOK
  <2>2. m \in Items(inbox[s])
    BY <1>2, <2>1, ItemsTail
  <2> QED BY <1>1, <2>2, CopiesUsed
<1>4. c.copy = m /\ c.client = known
  OBVIOUS
<1>5. e = request[m[1]].event /\ e \in Events
  BY <1>1, <1>2, <1>3 DEF EventOf, Kinds
<1> HIDE DEF m, e, c
<1>6. Lines'
  BY <1>1, <1>2, TakenLines
<1>7. /\ Used' = Used /\ Kept /\ \A d : EventOf(d)' = EventOf(d)
      /\ \A r \in Used' : request'[r].kind = "subscribe" => request'[r].event \in Events
  BY <1>2, ServerSide
<1>8. Kinds'
  <2>1. \A d \in checks' : request'[d.copy[1]].kind = "subscribe"
    BY <1>1, <1>2, <1>4 DEF Kinds
  <2> QED BY <1>1, <1>2, <1>7, <2>1 DEF Kinds
<1>9. \A t \in Sockets : EventsAt(t)' = EventsAt(t)
  BY <1>2, <1>7 DEF EventsAt
<1>10. ASSUME clean'
       PROVE  InStep'
  <2>1. InStep /\ s = known /\ ~BeingChecked(known, e)
    BY <1>1, <1>2, <1>10
  <2>2. Current'
    BY <1>2, <2>1 DEF InStep, Current
  <2>3. Wants' /\ Keeps'
    BY <1>2, <2>1, ServerSide DEF InStep
  <2>4. ASSUME NEW f \in Events
        PROVE  Has(s, f)' <=> \/ Has(s, f) /\ ~Drops(request, m, f)
                              \/ Asks(request, m, f)
    <3>1. ~Drops(request, m, f) /\ (Asks(request, m, f) <=> f = e)
      BY <1>2, <1>5 DEF Drops, Asks
    <3>2. Has(s, f)' <=> Has(s, f) \/ f = e
      <4>1. Has(s, f)' <=> f \in EventsAt(s) \/ \E d \in checks' : d.client = s /\ EventOf(d.copy) = f
        BY <1>7, <1>9 DEF Has
      <4>2. CASE e \in EventsAt(known) /\ checks' = checks
        BY <2>1, <4>1, <4>2 DEF Has
      <4>3. CASE checks' = checks \cup {c}
        <5>1. c.client = s /\ EventOf(c.copy) = e
          BY <1>4, <2>1 DEF e
        <5> QED BY <4>1, <4>3, <5>1 DEF Has
      <4> QED BY <1>2, <4>2, <4>3
    <3> QED BY <3>1, <3>2
  <2>5. Serves'
    BY <1>1, <1>2, <2>1, <2>4, HandledServes DEF InStep, m
  <2>6. Single'
    <3>1. CASE checks' = checks
      BY <1>1, <1>2, <1>7, <2>1, <3>1, ServerKept DEF InStep
    <3>2. CASE e \notin EventsAt(known) /\ checks' = checks \cup {c}
      <4>1. \A d \in checks : ~(d.client = known /\ EventOf(d.copy) = e)
        BY <2>1 DEF BeingChecked, Matches
      <4>2. EventOf(c.copy) = e
        BY <1>4 DEF e
      <4>3. \A d \in checks' : EventOf(d.copy) \notin EventsAt(d.client)
        BY <1>4, <2>1, <3>2, <4>2 DEF InStep, Single
      <4>4. \A d, x \in checks' : d.client = x.client /\ EventOf(d.copy) = EventOf(x.copy) => d = x
        BY <1>4, <2>1, <3>2, <4>1, <4>2 DEF InStep, Single
      <4>5. \A t \in Sockets : \A d, x \in Items(subs'[t]) : EventOf(d) = EventOf(x) => d = x
        BY <1>2, <2>1 DEF InStep, Single
      <4>6. \A d \in checks' : d.client \in Sockets
        BY DEF Inv, TypeOK, Check
      <4>7. \A d \in checks' : EventOf(d.copy)' \notin EventsAt(d.client)'
        BY <1>7, <1>9, <4>3, <4>6
      <4> QED BY <1>7, <4>4, <4>5, <4>7 DEF Single
    <3> QED BY <1>2, <3>1, <3>2
  <2>7. Gone'
    BY <1>2, <1>4, <2>1 DEF InStep, Gone
  <2> QED BY <2>2, <2>3, <2>5, <2>6, <2>7 DEF InStep
<1> QED BY <1>6, <1>8, <1>10 DEF SyncInv

\* A subscription whose check is over: what was checked is in the list now.
LEMMA CheckedInStep ==
  ASSUME SyncInv, Inv', NEW c \in checks, Checked(c)
  PROVE  SyncInv'
<1> DEFINE k == c.client
           m == c.copy
<1>1. /\ Inv /\ Lines /\ Kinds /\ (clean => InStep)
      /\ subs \in [Sockets -> Seq(Copies)] /\ k \in Sockets /\ m \in Copies
  BY DEF SyncInv, Inv, TypeOK, Check
<1>2. /\ checks' = checks \ {c} /\ subs' = [subs EXCEPT ![k] = Append(@, m)]
      /\ UNCHANGED <<wanted, request, conn, buffer, line, inbox, known, clean>>
  BY DEF Checked, client
<1>3. /\ Used' = Used /\ Kept /\ \A d : EventOf(d)' = EventOf(d)
      /\ \A r \in Used' : request'[r].kind = "subscribe" => request'[r].event \in Events
  BY <1>2, ServerSide
<1>4. /\ Items(subs'[k]) = Items(subs[k]) \cup {m}
      /\ \A t \in Sockets \ {k} : subs'[t] = subs[t]
  <2>1. subs[k] \in Seq(Copies) /\ subs'[k] = Append(subs[k], m)
    BY <1>1, <1>2
  <2> QED BY <1>1, <1>2, <2>1, ItemsAppend
<1>5. /\ EventsAt(k)' = EventsAt(k) \cup {EventOf(m)}
      /\ \A t \in Sockets \ {k} : EventsAt(t)' = EventsAt(t)
  BY <1>3, <1>4 DEF EventsAt
<1>6. Lines'
  BY <1>1, <1>2 DEF Lines
<1>7. Kinds'
  <2>1. request[m[1]].kind = "subscribe"
    BY <1>1 DEF Kinds
  <2>2. \A t \in Sockets : \A d \in Items(subs'[t]) : request'[d[1]].kind = "subscribe"
    BY <1>1, <1>2, <1>4, <2>1 DEF Kinds
  <2> QED BY <1>1, <1>2, <1>3, <2>2 DEF Kinds
<1>8. \A t \in Sockets : \A e : Has(t, e)' <=> Has(t, e)
  <2>1. ASSUME NEW t \in Sockets, NEW e
        PROVE  Has(t, e)' <=> Has(t, e)
    <3>1. Has(t, e)' <=> e \in EventsAt(t)' \/ \E d \in checks' : d.client = t /\ EventOf(d.copy) = e
      BY <1>3 DEF Has
    <3>2. CASE t = k
      BY <1>2, <1>5, <3>1, <3>2 DEF Has
    <3>3. CASE t # k
      BY <1>2, <1>5, <3>1, <3>3 DEF Has
    <3> QED BY <3>2, <3>3
  <2> QED BY <2>1
<1>9. ASSUME InStep
      PROVE  InStep'
  <2>1. Current'
    BY <1>2, <1>9 DEF InStep, Current
  <2>2. Wants' /\ Keeps'
    BY <1>2, <1>9, ServerSide DEF InStep
  <2>3. Serves'
    <3>1. conn # None => conn \in Sockets
      BY <1>1 DEF Inv, TypeOK
    <3> QED BY <1>2, <1>8, <1>9, <3>1 DEF InStep, Serves
  <2>4. Single'
    <3>1. EventOf(m) \notin EventsAt(k)
      BY <1>9 DEF InStep, Single
    <3>2. \A d \in Items(subs[k]) : EventOf(d) # EventOf(m)
      BY <3>1 DEF EventsAt
    <3>3. \A t \in Sockets : \A d, x \in Items(subs'[t]) : EventOf(d) = EventOf(x) => d = x
      BY <1>4, <1>9, <3>2 DEF InStep, Single
    <3>4. \A d \in checks' : d.client = k => EventOf(d.copy) # EventOf(m)
      BY <1>2, <1>9 DEF InStep, Single
    <3>5. ASSUME NEW d \in checks'
          PROVE  EventOf(d.copy) \notin EventsAt(d.client)'
      <4>1. d \in checks /\ d.client \in Sockets /\ EventOf(d.copy) \notin EventsAt(d.client)
        BY <1>1, <1>2, <1>9 DEF Inv, TypeOK, Check, InStep, Single
      <4>2. CASE d.client = k
        BY <1>5, <3>4, <4>1, <4>2
      <4>3. CASE d.client # k
        BY <1>5, <4>1, <4>3
      <4> QED BY <4>2, <4>3
    <3>6. \A d, x \in checks' : d.client = x.client /\ EventOf(d.copy) = EventOf(x.copy) => d = x
      BY <1>2, <1>9 DEF InStep, Single
    <3> QED BY <1>3, <3>3, <3>5, <3>6 DEF Single
  <2>5. Gone'
    <3>1. line[k] \notin {"unused", "accepted", "closed"}
      BY <1>1, <1>9 DEF InStep, Gone
    <3> QED BY <1>2, <1>4, <1>9, <3>1 DEF InStep, Gone
  <2> QED BY <2>1, <2>2, <2>3, <2>4, <2>5 DEF InStep
<1> QED BY <1>1, <1>2, <1>6, <1>7, <1>9 DEF SyncInv

\* Steps that take entries off lists: no event comes to be twice anywhere.
LEMMA FewerSingle ==
  ASSUME Inv, Single, UNCHANGED <<request, checks>>,
         \A t \in Sockets : Items(subs'[t]) \subseteq Items(subs[t])
  PROVE  Single'
<1>1. \A c : EventOf(c)' = EventOf(c)
  BY DEF EventOf
<1>2. \A t \in Sockets : EventsAt(t)' \subseteq EventsAt(t)
  BY <1>1 DEF EventsAt
<1>3. \A c \in checks : c.client \in Sockets
  BY DEF Inv, TypeOK, Check
<1>4. \A c \in checks : EventOf(c.copy) \notin EventsAt(c.client)'
  BY <1>2, <1>3 DEF Single
<1> QED BY <1>1, <1>4 DEF Single

\* An unsubscribe takes all it matches off the list, unless a check is
\* awaited or the list has several entries to skip.
LEMMA UnsubscribedInStep ==
  ASSUME SyncInv, Inv', NEW s \in Sockets, HandleUnsubscribe(s)
  PROVE  SyncInv'
<1> DEFINE m == Head(inbox[s])
           e == EventOf(m)
           l == subs[known]
           at == Removed(l, e)
<1>1. /\ Inv /\ Lines /\ Kinds /\ (clean => InStep)
      /\ subs \in [Sockets -> Seq(Copies)]
  BY DEF SyncInv, Inv, TypeOK
<1>2. /\ line[s] \in {"open", "lost"} /\ inbox[s] # <<>> /\ known \in Sockets
      /\ request[m[1]].kind = "unsubscribe" /\ inbox' = [inbox EXCEPT ![s] = Tail(@)]
      /\ subs' = [subs EXCEPT ![known] = Without(@, at)]
      /\ UNCHANGED <<wanted, request, conn, buffer, line, known, checks>>
      /\ clean' => /\ clean /\ s = known /\ ~BeingChecked(known, e)
                   /\ e = AnyEvent => Len(l) < 2
  BY <1>1 DEF HandleUnsubscribe, Message, client, Inv, TypeOK
<1>3. l \in Seq(Copies) /\ at \in SUBSET DOMAIN l
  BY <1>1, <1>2 DEF Removed
<1>4. e = request[m[1]].event
  BY DEF EventOf
<1>5. at = IF e = AnyEvent THEN {i \in DOMAIN l : i % 2 = 1} ELSE {i \in DOMAIN l : EventOf(l[i]) = e}
  BY DEF Removed
<1> HIDE DEF m, e, at
<1>6. /\ Items(subs'[known]) = {l[i] : i \in DOMAIN l \ at}
      /\ \A t \in Sockets \ {known} : subs'[t] = subs[t]
  <2>1. subs'[known] = Without(l, at) /\ \A t \in Sockets \ {known} : subs'[t] = subs[t]
    BY <1>1, <1>2
  <2>2. Items(Without(l, at)) = {l[i] : i \in DOMAIN l \ at}
    BY <1>3, WithoutMeaning
  <2> QED BY <2>1, <2>2
<1>7. \A t \in Sockets : Items(subs'[t]) \subseteq Items(subs[t])
  <2>1. Items(subs'[known]) \subseteq Items(subs[known])
    BY <1>6 DEF Items
  <2> QED BY <1>6, <2>1
<1>8. Lines'
  BY <1>1, <1>2, TakenLines
<1>9. /\ Used' = Used /\ Kept /\ \A d : EventOf(d)' = EventOf(d)
      /\ \A r \in Used' : request'[r].kind = "subscribe" => request'[r].event \in Events
  BY <1>2, ServerSide
<1>10. Kinds'
  BY <1>1, <1>2, <1>7, <1>9 DEF Kinds
<1>11. ASSUME clean'
       PROVE  InStep'
  <2>1. InStep /\ s = known /\ ~BeingChecked(known, e) /\ (e = AnyEvent => Len(l) < 2)
    BY <1>1, <1>2, <1>11
  <2>2. Current'
    BY <1>2, <2>1 DEF InStep, Current
  <2>3. Wants' /\ Keeps'
    BY <1>2, <2>1, ServerSide DEF InStep
  <2>4. ASSUME NEW f \in Events
        PROVE  f \in EventsAt(s)' <=> f \in EventsAt(s) /\ ~Matches(e, f)
    <3>1. f \in EventsAt(s)' <=> \E i \in DOMAIN l \ at : EventOf(l[i]) = f
      <4>1. Items(subs'[s]) = {l[i] : i \in DOMAIN l \ at}
        BY <1>6, <2>1
      <4> QED BY <1>9, <4>1 DEF EventsAt
    <3>2. f \in EventsAt(s) <=> \E i \in DOMAIN l : EventOf(l[i]) = f
      BY <2>1 DEF EventsAt, Items
    <3>3. CASE e = AnyEvent
      <4>1. DOMAIN l = 1..Len(l) /\ Len(l) \in Nat /\ Len(l) < 2
        BY <1>3, <2>1, <3>3, LenProperties
      <4>2. \A i \in DOMAIN l : i % 2 = 1
        <5>1. \A i \in DOMAIN l : i = 1
          BY <4>1
        <5> QED BY <5>1
      <4>3. DOMAIN l \ at = {}
        BY <1>5, <3>3, <4>2
      <4> QED BY <3>1, <3>3, <4>3 DEF Matches
    <3>4. CASE e # AnyEvent
      <4>1. Matches(e, f) <=> e = f
        BY <3>4, SubscribingAssumption DEF Matches
      <4>2. \A i \in DOMAIN l : i \in at <=> EventOf(l[i]) = e
        BY <1>5, <3>4
      <4> QED BY <3>1, <3>2, <4>1, <4>2
    <3> QED BY <3>3, <3>4
  <2>5. ASSUME NEW f \in Events
        PROVE  Has(s, f)' <=> \/ Has(s, f) /\ ~Drops(request, m, f)
                              \/ Asks(request, m, f)
    <3>1. ~Asks(request, m, f) /\ (Drops(request, m, f) <=> Matches(e, f))
      BY <1>2, <1>4 DEF Drops, Asks
    <3>2. Has(s, f)' <=> f \in EventsAt(s)' \/ \E d \in checks : d.client = s /\ EventOf(d.copy) = f
      BY <1>2, <1>9 DEF Has
    <3>3. Matches(e, f) => ~\E d \in checks : d.client = s /\ EventOf(d.copy) = f
      BY <2>1 DEF BeingChecked, Matches
    <3> QED BY <2>1, <2>4, <3>1, <3>2, <3>3 DEF Has
  <2>6. Serves'
    BY <1>1, <1>2, <2>1, <2>5, HandledServes DEF InStep, m
  <2>7. Single'
    BY <1>1, <1>2, <1>7, <2>1, FewerSingle DEF InStep
  <2>8. Gone'
    <3>1. line[known] \notin {"unused", "accepted", "closed"}
      BY <1>2, <2>1
    <3> QED BY <1>2, <1>6, <2>1, <3>1 DEF InStep, Gone
  <2> QED BY <2>2, <2>3, <2>6, <2>7, <2>8 DEF InStep
<1> QED BY <1>8, <1>10, <1>11 DEF SyncInv

\* The end of a connection that the client has not replaced.
LEMMA DisconnectInStep ==
  ASSUME SyncInv, Inv', NEW s \in Sockets, Disconnect(s)
  PROVE  SyncInv'
<1>1. /\ Inv /\ Lines /\ Kinds /\ (clean => InStep)
      /\ subs \in [Sockets -> Seq(Copies)] /\ inbox \in [Sockets -> Seq(Copies)]
      /\ known \in Sockets \cup {None} /\ conn \in Sockets \cup {None}
      /\ line \in [Sockets -> {"unused", "accepted", "open", "lost", "closed"}]
  BY DEF SyncInv, Inv, TypeOK
<1>2. /\ line[s] = "lost" /\ line' = [line EXCEPT ![s] = "closed"]
      /\ inbox' = [inbox EXCEPT ![s] = <<>>] /\ known' = None
      /\ UNCHANGED <<wanted, request, conn, buffer, checks>>
      /\ known = None => subs' = subs
      /\ known # None => subs' = [subs EXCEPT ![known] = <<>>]
      /\ clean' => /\ clean /\ (known = s \/ (known = None /\ subs[s] = <<>>))
                   /\ ~BeingChecked(s, AnyEvent)
  BY DEF Disconnect, client
<1>3. /\ line'[s] = "closed" /\ \A t \in Sockets \ {s} : line'[t] = line[t]
      /\ inbox'[s] = <<>> /\ \A t \in Sockets \ {s} : inbox'[t] = inbox[t]
  BY <1>1, <1>2
<1>4. \A t \in Sockets : subs'[t] = subs[t] \/ subs'[t] = <<>>
  BY <1>1, <1>2
<1>5. \A t \in Sockets : Items(subs'[t]) \subseteq Items(subs[t])
  <2>1. Items(<<>>) = {}
    BY DEF Items
  <2> QED BY <1>4, <2>1
<1>6. /\ Used' = Used /\ Kept /\ \A d : EventOf(d)' = EventOf(d)
      /\ \A r \in Used' : request'[r].kind = "subscribe" => request'[r].event \in Events
  BY <1>2, ServerSide
<1>7. Lines'
  <2>1. \A t \in Sockets : line'[t] = "open" <=> conn' = t
    BY <1>1, <1>2, <1>3 DEF Lines
  <2>2. \A t, u \in Sockets : line'[t] \in Up /\ line'[u] \in Up => t = u
    BY <1>1, <1>3 DEF Lines, Up
  <2>3. \A t \in Sockets : line'[t] \in {"unused", "accepted"} => inbox'[t] = <<>>
    BY <1>1, <1>3 DEF Lines
  <2> QED BY <1>1, <1>2, <2>1, <2>2, <2>3 DEF Lines
<1>8. Kinds'
  BY <1>1, <1>2, <1>5, <1>6 DEF Kinds
<1>9. ASSUME clean'
      PROVE  InStep'
  <2>1. InStep /\ (known = s \/ (known = None /\ subs[s] = <<>>)) /\ ~BeingChecked(s, AnyEvent)
    BY <1>1, <1>2, <1>9
  <2>2. \A t \in Sockets : line[t] \notin Up
    <3>1. None \notin Sockets
      BY DEF Sockets, None
    <3> QED BY <1>2, <2>1, <3>1 DEF InStep, Current, Up
  <2>3. Current'
    BY <1>3, <2>2 DEF Current, Up
  <2>4. Wants' /\ Keeps'
    BY <1>2, <2>1, ServerSide DEF InStep
  <2>5. Serves'
    <3>1. conn = None
      BY <1>1, <2>2 DEF Lines, Up
    <3> QED BY <1>2, <3>1 DEF Serves
  <2>6. Single'
    BY <1>1, <1>2, <1>5, <2>1, FewerSingle DEF InStep
  <2>7. subs'[s] = <<>>
    <3>1. s # None
      BY DEF Sockets, None
    <3> QED BY <1>1, <1>2, <2>1, <3>1
  <2>8. \A c \in checks : c.client # s
    BY <2>1 DEF BeingChecked, Matches
  <2>9. Gone'
    BY <1>2, <1>3, <1>4, <2>1, <2>7, <2>8 DEF InStep, Gone
  <2> QED BY <2>3, <2>4, <2>5, <2>6, <2>9 DEF InStep
<1> QED BY <1>7, <1>8, <1>9 DEF SyncInv

----------------------------------------------------------------------------
(* In step: the theorem. *)

\* At first nothing is wanted, sent or known.
LEMMA SyncInit == Init => SyncInv
<1> SUFFICES ASSUME Init PROVE SyncInv
  OBVIOUS
<1>1. Inv
  BY InvInit
<1>2. /\ \A s \in Sockets : line[s] = "unused" /\ inbox[s] = <<>> /\ subs[s] = <<>>
      /\ conn = None /\ known = None /\ buffer = <<>> /\ checks = {}
      /\ \A e \in Events : wanted[e] = 0
  BY DEF Init
<1>3. None \notin Sockets
  BY DEF Sockets, None
<1>4. Used = {}
  BY DEF Init, Used, NoRequest
<1>5. Items(<<>>) = {} /\ \A q, e : ~Ends(q, <<>>, e)
  BY DEF Items, Ends
<1>6. Lines
  BY <1>2, <1>3 DEF Lines, Up
<1>7. Kinds
  BY <1>2, <1>4, <1>5 DEF Kinds
<1>8. Current /\ Serves
  BY <1>2 DEF Current, Serves, Up
<1>9. Wants
  BY <1>2, <1>4 DEF Wants, Asked
<1>10. Keeps /\ Single /\ Gone
  BY <1>2, <1>5 DEF Keeps, Single, Gone, EventsAt
<1> QED BY <1>1, <1>6, <1>7, <1>8, <1>9, <1>10 DEF SyncInv, InStep

\* Every step keeps client and server in step, or is one of the mishaps.
LEMMA SyncNext == SyncInv /\ [Next]_vars => SyncInv'
<1> SUFFICES ASSUME SyncInv, [Next]_vars PROVE SyncInv'
  OBVIOUS
<1>1. Inv /\ Inv'
  BY InvNext DEF SyncInv
<1>2. wanted \in [Events -> 0..MaxCallbacks] /\ MaxCallbacks \in Nat
  BY <1>1, SubscribingAssumption DEF Inv, TypeOK
<1>3. ASSUME NEW e \in Events, Subscribe(e)
      PROVE  SyncInv'
  <2>1. /\ Call("subscribe", e) /\ UNCHANGED <<conn, line, answers, server, clean>>
        /\ wanted' = [wanted EXCEPT ![e] = @ + 1]
    BY <1>3 DEF Subscribe
  <2>2. \A f \in Events : wanted'[f] > 0 <=> wanted[f] > 0 \/ f = e
    BY <1>2, <2>1
  <2> QED BY <1>1, <2>1, <2>2, CallInStep
<1>4. ASSUME NEW e \in Events, Unsubscribe(e)
      PROVE  SyncInv'
  <2>1. /\ Call("unsubscribe", e) /\ UNCHANGED <<conn, line, answers, server>>
        /\ wanted' = [wanted EXCEPT ![e] = @ - 1] /\ (clean' => clean /\ wanted[e] = 1)
    BY <1>4 DEF Unsubscribe
  <2>2. \A f \in Events : Matches(e, f) <=> f = e
    BY SubscribingAssumption DEF Matches
  <2>3. wanted[e] = 1 => \A f \in Events : wanted'[f] > 0 <=> wanted[f] > 0 /\ ~Matches(e, f)
    BY <1>2, <2>1, <2>2
  <2> QED BY <1>1, <2>1, <2>3, CallInStep
<1>5. ASSUME UnsubscribeAny
      PROVE  SyncInv'
  <2>1. /\ Call("unsubscribe", AnyEvent) /\ UNCHANGED <<conn, line, answers, server, clean>>
        /\ wanted' = [f \in Events |-> 0]
    BY <1>5 DEF UnsubscribeAny
  <2>2. \A f \in Events : wanted'[f] > 0 <=> wanted[f] > 0 /\ ~Matches(AnyEvent, f)
    BY <2>1 DEF Matches
  <2> QED BY <1>1, <2>1, <2>2, CallInStep
<1>6. ASSUME NEW r \in Ids, Retry(r)
      PROVE  SyncInv'
  BY <1>1, <1>6, RetryInStep
<1>7. ASSUME NEW r \in Ids, GiveUp(r)
      PROVE  SyncInv'
  BY <1>1, <1>7, AnswerInStep
<1>8. ASSUME NEW s \in Sockets, Receive(s)
      PROVE  SyncInv'
  BY <1>1, <1>8, AnswerInStep
<1>9. ASSUME NEW s \in Sockets, Connected(s) \/ Lose(s) \/ Accept(s)
      PROVE  SyncInv'
  BY <1>1, <1>9, ConnectedInStep, LoseInStep, AcceptInStep
<1>10. ASSUME NEW s \in Sockets, Handle(s) \/ Disconnect(s)
       PROVE  SyncInv'
  BY <1>1, <1>10, UnknownInStep, SubscribedInStep, UnsubscribedInStep, DisconnectInStep DEF Handle
<1>11. ASSUME NEW c \in checks, Checked(c)
       PROVE  SyncInv'
  BY <1>1, <1>11, CheckedInStep
<1>12. CASE UNCHANGED vars
  <2>1. UNCHANGED <<wanted, request, conn, buffer, line, inbox, known, subs, checks, clean>>
    BY <1>12 DEF vars, client, server
  <2>2. Used' = Used /\ Kept
    BY <2>1 DEF Used, Kept
  <2> QED BY <1>1, <2>1, <2>2, SettledInStep
<1> QED BY <1>3, <1>4, <1>5, <1>6, <1>7, <1>8, <1>9, <1>10, <1>11, <1>12 DEF Next, Timer

\* When nothing of its connection is on the way, the client is served what it
\* wants, no list holds an event twice, and nothing is kept for connections
\* that are gone: whatever is repeated, delayed, lost or resubscribed, up to
\* one of the mishaps that "clean" names.
THEOREM ServedInSync == Spec => []InSync
<1>1. SyncInv => InSync
  <2> SUFFICES ASSUME SyncInv, clean
               PROVE  /\ AtRest => EventsAt(conn) = {e \in Events : wanted[e] > 0}
                      /\ \A s \in Sockets : \A i, j \in DOMAIN subs[s] :
                           EventOf(subs[s][i]) = EventOf(subs[s][j]) => i = j
                      /\ \A s \in Sockets : line[s] = "closed" => subs[s] = <<>>
    BY DEF InSync
  <2>1. Inv /\ Kinds /\ InStep
    BY DEF SyncInv
  <2>2. ASSUME AtRest
        PROVE  EventsAt(conn) = {e \in Events : wanted[e] > 0}
    <3>1. conn \in Sockets /\ inbox[conn] = <<>> /\ \A c \in checks : c.client # conn
      BY <2>1, <2>2 DEF AtRest, Inv, TypeOK
    <3>2. \A e : ~Ends(request, <<>>, e) /\ ~Clears(request, <<>>, e)
      BY DEF Ends, Clears
    <3>3. \A e \in Events : wanted[e] > 0 <=> e \in EventsAt(conn)
      BY <2>1, <2>2, <3>1, <3>2 DEF InStep, Serves, Has, AtRest
    <3>4. EventsAt(conn) \subseteq Events
      <4>1. \A c \in Items(subs[conn]) : c[1] \in Used /\ request[c[1]].kind = "subscribe"
        BY <2>1, <3>1, CopiesUsed DEF Kinds
      <4>2. \A c \in Items(subs[conn]) : EventOf(c) \in Events
        BY <2>1, <4>1 DEF EventOf, Kinds
      <4> QED BY <4>2 DEF EventsAt
    <3> QED BY <3>3, <3>4
  <2>3. ASSUME NEW s \in Sockets, NEW i \in DOMAIN subs[s], NEW j \in DOMAIN subs[s],
               EventOf(subs[s][i]) = EventOf(subs[s][j])
        PROVE  i = j
    <3>1. subs[s][i] \in Items(subs[s]) /\ subs[s][j] \in Items(subs[s])
      BY DEF Items
    <3>2. subs[s][i] = subs[s][j]
      BY <2>1, <2>3, <3>1 DEF InStep, Single
    <3>3. Inj(subs[s])
      BY <2>1 DEF Inv, Once, Apart
    <3> QED BY <3>2, <3>3 DEF Inj
  <2>4. \A s \in Sockets : line[s] = "closed" => subs[s] = <<>>
    BY <2>1 DEF InStep, Gone
  <2> QED BY <2>2, <2>3, <2>4
<1> QED BY <1>1, SyncInit, SyncNext, PTL DEF Spec

=============================================================================
