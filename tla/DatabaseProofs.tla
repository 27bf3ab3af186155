--------------------------- MODULE DatabaseProofs ---------------------------
(***************************************************************************)
(* What a database tells its subscribers, for any records, properties and  *)
(* subscriptions, and what its remote transactions promise, for any number *)
(* of them.                                                                *)
(***************************************************************************)
EXTENDS Events, TransactionRoute, SequenceTheorems, FiniteSetTheorems, WellFoundedInduction,
        TLAPS

----------------------------------------------------------------------------
(* Paths. *)

\* A prefix agrees with all its keys.
LEMMA PrefixMeaning ==
  ASSUME NEW p \in Seq(Keys), NEW q \in Seq(Keys)
  PROVE  IsPrefix(p, q) <=> /\ Len(p) <= Len(q)
                            /\ \A i \in 1..Len(p) : p[i] = q[i]
<1>1. Len(p) \in Nat /\ Len(q) \in Nat
  OBVIOUS
<1>2. ASSUME Len(p) <= Len(q), \A i \in 1..Len(p) : p[i] = q[i]
      PROVE  SubSeq(p, 1, Len(p)) = SubSeq(q, 1, Len(p))
  BY <1>1, <1>2
<1>3. ASSUME Len(p) <= Len(q), SubSeq(p, 1, Len(p)) = SubSeq(q, 1, Len(p)),
             NEW i \in 1..Len(p)
      PROVE  p[i] = q[i]
  <2>1. SubSeq(p, 1, Len(p))[i] = p[i] /\ SubSeq(q, 1, Len(p))[i] = q[i]
    BY <1>1, <1>3
  <2> QED BY <2>1, <1>3
<1> QED BY <1>2, <1>3 DEF IsPrefix

\* A path and a key below it.
LEMMA ChildMeaning ==
  ASSUME NEW p \in Seq(Keys), NEW k \in Keys
  PROVE  /\ Append(p, k) \in Seq(Keys) /\ Append(p, k) # p
         /\ IsPrefix(p, Append(p, k)) /\ ~IsPrefix(Append(p, k), p)
         /\ Front(Append(p, k)) = p /\ Last(Append(p, k)) = k
<1> DEFINE q == Append(p, k)
<1>1. /\ q \in Seq(Keys) /\ Len(q) = Len(p) + 1 /\ Len(p) \in Nat
      /\ \A i \in 1..Len(p) : q[i] = p[i]
      /\ q[Len(p) + 1] = k
  BY AppendProperties
<1> HIDE DEF q
<1>2. IsPrefix(p, q) /\ ~IsPrefix(q, p)
  BY <1>1, PrefixMeaning
<1>3. Front(q) = p
  <2>1. Front(q) = SubSeq(q, 1, Len(p))
    BY <1>1 DEF Front
  <2> QED BY <1>1, <2>1
<1>4. q # p /\ Last(q) = k
  BY <1>1 DEF Last
<1> QED BY <1>1, <1>2, <1>3, <1>4 DEF q

\* Prefixes of prefixes, and paths that are prefixes of each other.
LEMMA PrefixOrder ==
  ASSUME NEW p \in Seq(Keys), NEW q \in Seq(Keys)
  PROVE  /\ IsPrefix(p, p)
         /\ IsPrefix(p, q) /\ IsPrefix(q, p) => p = q
         /\ \A r \in Seq(Keys) : IsPrefix(p, q) /\ IsPrefix(q, r) => IsPrefix(p, r)
         /\ \A r \in Seq(Keys) : IsPrefix(p, r) /\ IsPrefix(q, r) => OnTrail(p, q)
<1>1. Len(p) \in Nat /\ Len(q) \in Nat
  OBVIOUS
<1>2. IsPrefix(p, p)
  BY <1>1, PrefixMeaning
<1>3. ASSUME IsPrefix(p, q), IsPrefix(q, p)
      PROVE  p = q
  <2>1. Len(p) = Len(q) /\ \A i \in 1..Len(p) : p[i] = q[i]
    BY <1>1, <1>3, PrefixMeaning
  <2> QED BY <2>1
<1>4. ASSUME NEW r \in Seq(Keys), IsPrefix(p, q), IsPrefix(q, r)
      PROVE  IsPrefix(p, r)
  BY <1>1, <1>4, PrefixMeaning
<1>5. ASSUME NEW r \in Seq(Keys), IsPrefix(p, r), IsPrefix(q, r)
      PROVE  OnTrail(p, q)
  <2>1. /\ \A i \in 1..Len(p) : p[i] = r[i]
        /\ \A i \in 1..Len(q) : q[i] = r[i]
    BY <1>5, PrefixMeaning
  <2>2. CASE Len(p) <= Len(q)
    BY <1>1, <2>1, <2>2, PrefixMeaning DEF OnTrail
  <2>3. CASE Len(q) <= Len(p)
    BY <1>1, <2>1, <2>3, PrefixMeaning DEF OnTrail
  <2> QED BY <1>1, <2>2, <2>3
<1> QED BY <1>2, <1>3, <1>4, <1>5

\* A path at or just below a child of another one.
LEMMA PrefixOfChild ==
  ASSUME NEW p \in Seq(Keys), NEW q \in Seq(Keys), NEW k \in Keys,
         IsPrefix(q, Append(p, k))
  PROVE  IsPrefix(q, p) \/ q = Append(p, k)
<1>1. /\ Append(p, k) \in Seq(Keys) /\ Len(Append(p, k)) = Len(p) + 1
      /\ \A i \in 1..Len(p) : Append(p, k)[i] = p[i]
      /\ Len(p) \in Nat /\ Len(q) \in Nat
  OBVIOUS
<1>2. Len(q) <= Len(p) + 1 /\ \A i \in 1..Len(q) : q[i] = Append(p, k)[i]
  BY <1>1, PrefixMeaning
<1>3. CASE Len(q) <= Len(p)
  BY <1>1, <1>2, <1>3, PrefixMeaning
<1>4. CASE Len(q) = Len(p) + 1
  BY <1>1, <1>2, <1>4
<1> QED BY <1>1, <1>2, <1>3, <1>4

\* The keys that lead from a path to one at or below it.
LEMMA TrailMeaning ==
  ASSUME NEW p \in Seq(Keys), NEW q \in Seq(Keys), IsPrefix(p, q)
  PROVE  /\ Trail(p, q) = <<>> <=> p = q
         /\ Len(Trail(p, q)) = 1 => q = Append(p, Head(Trail(p, q)))
         /\ \A k \in Keys : q = Append(p, k) => Trail(p, q) = <<k>>
         /\ p \o Trail(p, q) = q
<1>1. /\ Len(p) \in Nat /\ Len(q) \in Nat /\ Len(p) <= Len(q)
      /\ \A i \in 1..Len(p) : p[i] = q[i]
  BY PrefixMeaning
<1>2. /\ Trail(p, q) \in Seq(Keys)
      /\ Len(Trail(p, q)) = Len(q) - Len(p)
      /\ \A i \in 1..Len(q) - Len(p) : Trail(p, q)[i] = q[Len(p) + i]
  BY <1>1 DEF Trail
<1>3. p \o Trail(p, q) = q
  <2>1. /\ p \o Trail(p, q) \in Seq(Keys)
        /\ Len(p \o Trail(p, q)) = Len(q)
        /\ \A i \in 1..Len(q) :
             (p \o Trail(p, q))[i] = IF i <= Len(p) THEN p[i] ELSE Trail(p, q)[i - Len(p)]
    BY <1>1, <1>2, ConcatProperties
  <2>2. \A i \in 1..Len(q) : (p \o Trail(p, q))[i] = q[i]
    BY <1>1, <1>2, <2>1
  <2> QED BY <2>1, <2>2, SeqEqual
<1>4. Trail(p, q) = <<>> => p = q
  BY <1>3
<1>5. p = q => Trail(p, q) = <<>>
  BY <1>1, <1>2
<1>6. ASSUME Len(Trail(p, q)) = 1
      PROVE  q = Append(p, Head(Trail(p, q)))
  <2> DEFINE t == Trail(p, q)
  <2>1. t \in Seq(Keys) /\ Len(t) = 1 /\ p \o t = q
    BY <1>2, <1>3, <1>6
  <2> HIDE DEF t
  <2>2. PICK k \in Keys : t = <<k>> /\ Head(t) = k
    BY <2>1
  <2>3. q = Append(p, k)
    BY <2>1, <2>2, AppendIsConcat
  <2> QED BY <2>2, <2>3 DEF t
<1>7. ASSUME NEW k \in Keys, q = Append(p, k)
      PROVE  Trail(p, q) = <<k>>
  <2>1. Len(q) = Len(p) + 1 /\ q[Len(p) + 1] = k
    BY <1>7
  <2>2. Len(Trail(p, q)) = 1 /\ Trail(p, q)[1] = k
    BY <1>1, <1>2, <2>1
  <2> QED BY <1>2, <2>2
<1> QED BY <1>3, <1>4, <1>5, <1>6, <1>7

\* No keys lead to a path at or above.
LEMMA NoTrail ==
  ASSUME NEW p \in Seq(Keys), NEW q \in Seq(Keys), IsPrefix(q, p)
  PROVE  Trail(p, q) = <<>> /\ p \o Trail(p, q) = p
<1>1. Len(p) \in Nat /\ Len(q) \in Nat /\ Len(q) < Len(p) + 1
  BY PrefixMeaning
<1>2. Trail(p, q) = <<>>
  BY <1>1, SubSeqEmpty DEF Trail
<1> QED BY <1>2

----------------------------------------------------------------------------
(* Records, their properties, and data. *)

\* A property of a record.
LEMMA LeafMeaning ==
  ASSUME NEW l \in Leaves
  PROVE  /\ l \in Seq(Keys) /\ l \notin Records
         /\ Front(l) \in Records /\ Last(l) \in Properties /\ Last(l) \in Keys
         /\ l = Append(Front(l), Last(l)) /\ IsPrefix(Front(l), l)
         /\ \A p \in Records : ~IsPrefix(l, p) /\ (IsPrefix(p, l) => IsPrefix(p, Front(l)))
         /\ \A q \in Leaves : IsPrefix(l, q) => l = q
<1>1. PICK p \in Records, k \in Properties : l = Append(p, k)
  BY DEF Leaves
<1>2. p \in Seq(Keys) /\ k \in Keys
  BY EventsAssumption
<1>3. /\ l \in Seq(Keys) /\ Front(l) = p /\ Last(l) = k /\ IsPrefix(p, l)
  BY <1>1, <1>2, ChildMeaning
<1>4. \A r \in Records : ~IsPrefix(l, r)
  BY EventsAssumption
<1>5. l \notin Records
  BY <1>3, <1>4, PrefixOrder
<1>6. ASSUME NEW r \in Records, IsPrefix(r, l)
      PROVE  IsPrefix(r, p)
  <2>1. r \in Seq(Keys)
    BY EventsAssumption
  <2> QED BY <1>1, <1>2, <1>5, <1>6, <2>1, PrefixOfChild
<1>7. ASSUME NEW q \in Leaves, IsPrefix(l, q)
      PROVE  l = q
  <2>1. PICK r \in Records, j \in Properties : q = Append(r, j)
    BY DEF Leaves
  <2>2. r \in Seq(Keys) /\ j \in Keys /\ ~IsPrefix(l, r)
    BY <1>4, EventsAssumption
  <2> QED BY <1>3, <1>7, <2>1, <2>2, PrefixOfChild
<1> QED BY <1>1, <1>2, <1>3, <1>4, <1>5, <1>6, <1>7

\* The data of the record at p: the record itself and its properties.
Held(p, q) == q = p \/ (q \in Leaves /\ Front(q) = p)

\* An object is not Null and neither is a property.
LEMMA RowMeaning ==
  ASSUME NEW v \in Rows
  PROVE  /\ Null \notin Contents
         /\ v = Null \/ v \in Contents
         /\ \A k \in Properties :
              v \in Contents => v[k] \in Values \cup {Null} /\ v[k] \notin Contents
BY EventsAssumption DEF Rows, Contents

\* What the values along the trail of a change of the record at p are.
LEMMA DescendMeaning ==
  ASSUME NEW p \in Records, NEW q \in Seq(Keys), IsPrefix(p, q), NEW v \in Rows
  PROVE  /\ q = p => Descend(v, Trail(p, q)) = v
         /\ q \in Leaves /\ Front(q) = p =>
              Descend(v, Trail(p, q)) = IF v = Null THEN Null ELSE v[Last(q)]
         /\ ~Held(p, q) => Descend(v, Trail(p, q)) = Null
<1>1. p \in Seq(Keys)
  BY EventsAssumption
<1>2. /\ Trail(p, q) = <<>> <=> p = q
      /\ Len(Trail(p, q)) = 1 => q = Append(p, Head(Trail(p, q)))
      /\ \A k \in Keys : q = Append(p, k) => Trail(p, q) = <<k>>
  BY <1>1, TrailMeaning
<1>3. CASE q = p
  BY <1>2, <1>3, LeafMeaning DEF Descend, Held
<1>4. ASSUME q \in Leaves, Front(q) = p
      PROVE  Descend(v, Trail(p, q)) = IF v = Null THEN Null ELSE v[Last(q)]
  <2>1. /\ Last(q) \in Properties /\ Last(q) \in Keys /\ q = Append(p, Last(q)) /\ q # p
    BY <1>4, LeafMeaning
  <2>2. Trail(p, q) = <<Last(q)>> /\ Trail(p, q) # <<>>
    BY <1>2, <2>1
  <2>3. Len(Trail(p, q)) = 1 /\ Head(Trail(p, q)) = Last(q)
    BY <2>2
  <2> QED BY <2>1, <2>2, <2>3, RowMeaning DEF Descend
<1>5. ASSUME ~Held(p, q)
      PROVE  Descend(v, Trail(p, q)) = Null
  <2>1. Trail(p, q) # <<>>
    BY <1>2, <1>5 DEF Held
  <2>2. ASSUME Len(Trail(p, q)) = 1, Head(Trail(p, q)) \in Properties
        PROVE  FALSE
    <3>1. q \in Leaves
      BY <1>2, <2>2 DEF Leaves
    <3>2. Front(q) = p
      BY <1>1, <1>2, <2>2, ChildMeaning, EventsAssumption
    <3> QED BY <1>5, <3>1, <3>2 DEF Held
  <2> QED BY <2>1, <2>2 DEF Descend
<1> QED BY <1>3, <1>4, <1>5

\* What is held at q before and after a change of the record at p.
LEMMA DataMeaning ==
  ASSUME NEW rows \in [Records -> Rows], NEW p \in Records, NEW q \in Seq(Keys), NEW v \in Rows
  PROVE  /\ Held(p, q) => /\ IsPrefix(p, q)
                          /\ Data(rows, q) = Descend(rows[p], Trail(p, q))
                          /\ Data([rows EXCEPT ![p] = v], q) = Descend(v, Trail(p, q))
         /\ ~Held(p, q) => Data([rows EXCEPT ![p] = v], q) = Data(rows, q)
<1>1. p \in Seq(Keys) /\ IsPrefix(p, p)
  BY PrefixOrder, EventsAssumption
<1>2. PICK next : next = [rows EXCEPT ![p] = v]
  OBVIOUS
<1>3. rows[p] \in Rows /\ next[p] = v /\ \A r \in Records : r # p => next[r] = rows[r]
  BY <1>2
<1>4. CASE q = p
  BY <1>1, <1>2, <1>3, <1>4, DescendMeaning DEF Data, Held
<1>5. CASE q \in Leaves /\ Front(q) = p
  <2>1. q \notin Records /\ IsPrefix(p, q)
    BY <1>5, LeafMeaning
  <2>2. Data(rows, q) = Leaf(rows, q) /\ Data(next, q) = Leaf(next, q)
    BY <1>5, <2>1 DEF Data
  <2>3. Data(rows, q) = Descend(rows[p], Trail(p, q)) /\ Data(next, q) = Descend(v, Trail(p, q))
    BY <1>3, <1>5, <2>1, <2>2, DescendMeaning DEF Leaf
  <2> QED BY <1>2, <1>5, <2>1, <2>3 DEF Held
<1>6. CASE ~Held(p, q)
  <2>1. CASE q \in Records
    BY <1>2, <1>3, <1>6, <2>1 DEF Data, Held
  <2>2. CASE q \in Leaves
    <3>1. q \notin Records /\ Front(q) \in Records /\ Front(q) # p
      BY <1>6, <2>2, LeafMeaning DEF Held
    <3>2. Data(rows, q) = Leaf(rows, q) /\ Data(next, q) = Leaf(next, q)
      BY <2>2, <3>1 DEF Data
    <3> QED BY <1>2, <1>3, <1>6, <3>1, <3>2 DEF Leaf
  <2>3. CASE q \notin Records /\ q \notin Leaves
    BY <1>2, <1>6, <2>3 DEF Data
  <2> QED BY <2>1, <2>2, <2>3
<1> QED BY <1>4, <1>5, <1>6 DEF Held

----------------------------------------------------------------------------
(* What a change of a record gives rise to. *)

\* A prefix of a record's path is the path of a record.
LEMMA RecordsAbove ==
  ASSUME NEW p \in Records, NEW n \in 0..Len(p)
  PROVE  /\ SubSeq(p, 1, n) \in Records /\ SubSeq(p, 1, n) \in Seq(Keys)
         /\ Len(SubSeq(p, 1, n)) = n /\ IsPrefix(SubSeq(p, 1, n), p)
         /\ \A q \in Seq(Keys) : IsPrefix(q, p) /\ Len(q) = n => q = SubSeq(p, 1, n)
<1>1. p \in Seq(Keys) /\ Len(p) \in Nat /\ n \in Nat /\ n <= Len(p)
  BY EventsAssumption
<1> DEFINE u == SubSeq(p, 1, n)
<1>2. u \in Records
  BY EventsAssumption
<1>3. /\ u \in Seq(Keys) /\ Len(u) = n
      /\ \A i \in 1..n : u[i] = p[i]
  BY <1>1
<1> HIDE DEF u
<1>4. IsPrefix(u, p)
  BY <1>1, <1>3, PrefixMeaning
<1>5. ASSUME NEW q \in Seq(Keys), IsPrefix(q, p), Len(q) = n
      PROVE  q = u
  <2>1. \A i \in 1..n : q[i] = u[i]
    BY <1>1, <1>3, <1>5, PrefixMeaning
  <2> QED BY <1>3, <1>5, <2>1, SeqEqual
<1> QED BY <1>2, <1>3, <1>4, <1>5 DEF u

\* What a subscription needs is the data of the record or of one above it.
LEMMA NeededMeaning ==
  ASSUME TypeOK, NEW s \in Listeners, NEW p \in Records, NEW n \in NeededFrom(s, p)
  PROVE  n \in Records /\ n \in Seq(Keys) /\ IsPrefix(n, p)
<1>1. p \in Seq(Keys) /\ IsPrefix(p, p) /\ Len(p) \in Nat
  BY PrefixOrder, EventsAssumption
<1>2. CASE n = p
  BY <1>1, <1>2
<1>3. CASE n # p
  <2>1. s.path \in Seq(Keys) /\ Len(s.path) \in Nat
    <3>1. s \in Subscriptions \/ \E i \in DOMAIN waiting : s.path = waiting[i].path
      BY DEF Listeners, TypeOK
    <3>2. CASE s \in Subscriptions
      BY <3>2, EventsAssumption
    <3>3. CASE \E i \in DOMAIN waiting : s.path = waiting[i].path
      <4>1. PICK i \in DOMAIN waiting : s.path = waiting[i].path
        BY <3>3
      <4>2. waiting[i] \in LateEvent
        BY DEF TypeOK
      <4>3. waiting[i].path \in Records
        BY <4>2 DEF LateEvent
      <4> QED BY <4>1, <4>3, EventsAssumption
    <3> QED BY <3>1, <3>2, <3>3
  <2>2. IsPrefix(s.path, p)
    BY DEF NeededFrom
  <2>3. \/ n = s.path
        \/ p # s.path /\ n = ChildOnTrail(s.path, p)
    BY <1>3, <2>2 DEF NeededFrom
  <2>4. Len(s.path) <= Len(p)
    BY <1>1, <2>1, <2>2, PrefixMeaning
  <2>5. CASE n = s.path
    <3>1. Len(s.path) \in 0..Len(p)
      BY <1>1, <2>1, <2>4
    <3>2. s.path = SubSeq(p, 1, Len(s.path)) /\ SubSeq(p, 1, Len(s.path)) \in Records
      BY <2>1, <2>2, <3>1, RecordsAbove
    <3> QED BY <2>1, <2>2, <2>5, <3>2
  <2>6. CASE p # s.path /\ n = ChildOnTrail(s.path, p)
    <3>1. Len(s.path) # Len(p)
      <4> SUFFICES ASSUME Len(s.path) = Len(p) PROVE FALSE
        OBVIOUS
      <4>1. s.path = SubSeq(p, 1, Len(p)) /\ p = SubSeq(p, 1, Len(p))
        BY <1>1, <2>1, <2>2, RecordsAbove
      <4> QED BY <2>6, <4>1
    <3>2. Len(s.path) + 1 \in 0..Len(p)
      BY <1>1, <2>1, <2>4, <3>1
    <3> QED BY <2>6, <3>2, RecordsAbove DEF ChildOnTrail
  <2> QED BY <2>3, <2>5, <2>6
<1> QED BY <1>2, <1>3

\* Of some paths one is the shortest.
LEMMA Shortest ==
  ASSUME NEW S \in SUBSET Seq(Keys), S # {}
  PROVE  \E q \in S : \A n \in S : Len(q) <= Len(n)
<1> DEFINE T == {Len(q) : q \in S}
           R == OpToRel(<, Nat)
<1>1. \A n \in T : n \in Nat
  <2> SUFFICES ASSUME NEW q \in S PROVE Len(q) \in Nat
    OBVIOUS
  <2> QED OBVIOUS
<1>2. T \subseteq Nat /\ T # {}
  BY <1>1
<1>3. IsWellFoundedOn(R, Nat)
  BY NatLessThanWellFounded
<1>4. \A m, n \in Nat : m < n => <<m, n>> \in R
  BY DEF OpToRel
<1> HIDE DEF R, T
<1>5. PICK m \in T : \A n \in T : <<n, m>> \notin R
  BY <1>2, <1>3, WFMin
<1>6. \A n \in T : m <= n
  <2> SUFFICES ASSUME NEW n \in T PROVE m <= n
    OBVIOUS
  <2>1. m \in Nat /\ n \in Nat /\ ~(n < m)
    BY <1>2, <1>4, <1>5
  <2> QED BY <2>1
<1> QED BY <1>6 DEF T

\* The values of a change at p may be taken for those at top.
Above(p, top) ==
  /\ top \in Records /\ top \in Seq(Keys) /\ p \in Seq(Keys) /\ IsPrefix(top, p)
  /\ \A s \in Listeners : \A n \in NeededFrom(s, p) : IsPrefix(top, n)

\* They are taken for those at or above the record, at or above all that is
\* needed.
LEMMA TopMeaning ==
  ASSUME TypeOK, NEW p \in Records
  PROVE  Above(p, TopEventPath(p))
<1> DEFINE needed == UNION {NeededFrom(s, p) : s \in Listeners}
           top == TopEventPath(p)
<1>1. p \in Seq(Keys) /\ IsPrefix(p, p) /\ Len(p) \in Nat
  BY PrefixOrder, EventsAssumption
<1>2. \A n \in needed : n \in Records /\ n \in Seq(Keys) /\ IsPrefix(n, p)
  BY NeededMeaning
<1>3. \A s \in Listeners : NeededFrom(s, p) \subseteq needed
  OBVIOUS
<1>4. top = IF needed = {} THEN p
            ELSE CHOOSE q \in needed : \A n \in needed : Len(q) <= Len(n)
  BY DEF TopEventPath
<1> HIDE DEF needed, top
<1>5. CASE needed = {}
  BY <1>1, <1>3, <1>4, <1>5 DEF Above, top
<1>6. CASE needed # {}
  <2>1. needed \in SUBSET Seq(Keys)
    BY <1>2
  <2>2. \E q \in needed : \A n \in needed : Len(q) <= Len(n)
    BY <1>6, <2>1, Shortest
  <2>3. top \in needed /\ \A n \in needed : Len(top) <= Len(n)
    BY <1>4, <1>6, <2>2
  <2>4. ASSUME NEW n \in needed PROVE IsPrefix(top, n)
    <3>1. /\ top \in Seq(Keys) /\ n \in Seq(Keys) /\ IsPrefix(top, p) /\ IsPrefix(n, p)
          /\ Len(top) <= Len(n) /\ Len(top) \in Nat /\ Len(n) \in Nat
      BY <1>2, <2>3
    <3>2. \A i \in 1..Len(top) : top[i] = n[i]
      BY <1>1, <3>1, PrefixMeaning
    <3> QED BY <3>1, <3>2, PrefixMeaning
  <2> QED BY <1>1, <1>2, <1>3, <2>3, <2>4 DEF Above, top
<1> QED BY <1>5, <1>6

\* A subscription hears of data at or below that path.
LEMMA DataBelow ==
  ASSUME TypeOK, NEW s \in subscribed, s.type # "mutated", NEW p \in Records,
         NEW top, Above(p, top), NEW q \in DataPaths(s, p)
  PROVE  q \in Seq(Keys) /\ IsPrefix(top, q) /\ (s.type = "value" => q = s.path)
<1>1. /\ p \in Seq(Keys) /\ s.path \in Seq(Keys) /\ s.type \in Types
      /\ Properties \subseteq Keys /\ s \in Listeners
      /\ top \in Seq(Keys) /\ IsPrefix(top, p)
  BY EventsAssumption DEF TypeOK, Listeners, Above
<1>2. OnTrail(p, s.path)
  BY DEF DataPaths
<1>3. \A n \in NeededFrom(s, p) : IsPrefix(top, n)
  BY <1>1 DEF Above
<1>4. CASE s.type = "value"
  <2>1. q = s.path
    BY <1>2, <1>4 DEF DataPaths
  <2>2. CASE IsPrefix(s.path, p)
    BY <1>1, <1>3, <1>4, <2>1, <2>2 DEF NeededFrom
  <2>3. CASE IsPrefix(p, s.path)
    BY <1>1, <2>1, <2>3, PrefixOrder
  <2> QED BY <1>2, <2>2, <2>3 DEF OnTrail
<1>5. CASE s.type # "value" /\ IsPrefix(p, s.path)
  <2>1. PICK k \in Properties : q = Append(s.path, k)
    BY <1>2, <1>5 DEF DataPaths
  <2>2. q \in Seq(Keys) /\ IsPrefix(s.path, q)
    BY <1>1, <2>1, ChildMeaning
  <2>3. IsPrefix(p, q)
    BY <1>1, <1>5, <2>2, PrefixOrder
  <2> QED BY <1>1, <1>5, <2>2, <2>3, PrefixOrder
<1>6. CASE s.type # "value" /\ ~IsPrefix(p, s.path)
  <2>1. IsPrefix(s.path, p) /\ p # s.path
    BY <1>1, <1>2, <1>6, PrefixOrder DEF OnTrail
  <2>2. q = ChildOnTrail(s.path, p) /\ (s.type = "child_changed" \/ Len(p) = Len(s.path) + 1)
    BY <1>2, <1>6 DEF DataPaths
  <2>3. CASE s.type = "child_changed"
    <3>1. q \in NeededFrom(s, p)
      BY <2>1, <2>2, <2>3 DEF NeededFrom
    <3> QED BY <1>1, <1>3, <1>6, <3>1, NeededMeaning
  <2>4. CASE Len(p) = Len(s.path) + 1
    <3>1. ChildOnTrail(s.path, p) = SubSeq(p, 1, Len(p))
      BY <2>4 DEF ChildOnTrail
    <3>2. SubSeq(p, 1, Len(p)) = p
      BY <1>1, SubSeqFull
    <3> QED BY <1>1, <1>6, <2>2, <3>1, <3>2
  <2> QED BY <2>2, <2>3, <2>4
<1> QED BY <1>4, <1>5, <1>6

\* The events of a change carry the new value of data that changed.
LEMMA TriggeredMeaning ==
  ASSUME TypeOK, NEW p \in Records, NEW top, Above(p, top), NEW old \in Rows, NEW new \in Rows,
         NEW e \in Triggered(p, top, old, new)
  PROVE  /\ e \in Event /\ e.astray = (top # p) /\ e.path \in Seq(Keys) /\ e.sub \in subscribed
         /\ Held(top, e.path) /\ e.new = Descend(new, Trail(top, e.path))
         /\ Delayed(e) => e \in LateEvent /\ e.path = top /\ e.new = new
         /\ e.sub.type = "value" => e.path = e.sub.path
<1>1. top \in Records /\ top \in Seq(Keys)
  BY DEF Above
<1> DEFINE Told(s, q) ==
             [sub |-> s, path |-> q, new |-> Descend(new, Trail(top, q)), astray |-> top # p]
<1>2. PICK s \in subscribed :
        /\ s.type # "mutated"
        /\ \E q \in DataPaths(s, p) :
             /\ Fires(s, Descend(old, Trail(top, q)), Descend(new, Trail(top, q)))
             /\ e = Told(s, q)
  BY DEF Triggered
<1>3. PICK q \in DataPaths(s, p) :
        /\ Fires(s, Descend(old, Trail(top, q)), Descend(new, Trail(top, q)))
        /\ e = Told(s, q)
  BY <1>2
<1>4. q \in Seq(Keys) /\ IsPrefix(top, q) /\ (s.type = "value" => q = s.path)
  BY <1>2, DataBelow
<1>5. Descend(old, Trail(top, q)) # Descend(new, Trail(top, q))
  <2>1. s \in Subscriptions /\ s.type \in Types
    BY EventsAssumption DEF TypeOK
  <2> QED BY <1>2, <1>3, <2>1 DEF Fires, Types
<1>6. Held(top, q)
  BY <1>1, <1>4, <1>5, DescendMeaning
<1>7. Descend(new, Trail(top, q)) \in Rows \cup Values
      /\ (Descend(new, Trail(top, q)) \in Contents => q = top /\ Descend(new, Trail(top, q)) = new)
  <2>1. CASE q = top
    BY <1>1, <1>4, <2>1, DescendMeaning
  <2>2. CASE q \in Leaves /\ Front(q) = top
    <3>1. Descend(new, Trail(top, q)) = IF new = Null THEN Null ELSE new[Last(q)]
      BY <1>1, <1>4, <2>2, DescendMeaning
    <3>2. Last(q) \in Properties
      BY <2>2, LeafMeaning
    <3> QED BY <3>1, <3>2, RowMeaning DEF Rows
  <2> QED BY <1>6, <2>1, <2>2 DEF Held
<1>8. q \in Paths /\ s \in Subscriptions
  BY <1>1, <1>6 DEF Held, Paths, TypeOK
<1>9. (top # p) \in BOOLEAN
  OBVIOUS
<1>10. /\ e.sub = s /\ e.path = q /\ e.new = Descend(new, Trail(top, q)) /\ e.astray = (top # p)
       /\ e = [sub |-> e.sub, path |-> e.path, new |-> e.new, astray |-> e.astray]
  BY <1>3
<1>11. e \in Event
  BY <1>7, <1>8, <1>9, <1>10 DEF Event
<1>12. e.new \in Contents => e \in LateEvent
  BY <1>1, <1>7, <1>8, <1>9, <1>10 DEF LateEvent
<1> QED BY <1>4, <1>6, <1>7, <1>8, <1>10, <1>11, <1>12 DEF Delayed

\* A subscriber to "value" is told when its data changes, unless the change
\* is taken from elsewhere.
LEMMA ValueTriggers ==
  ASSUME TypeOK, NEW p \in Records, Above(p, p), NEW old \in Rows, NEW new \in Rows,
         NEW s \in Viewers, s \in subscribed, Held(p, s.path),
         Descend(old, Trail(p, s.path)) # Descend(new, Trail(p, s.path))
  PROVE  \E e \in Triggered(p, p, old, new) : e.sub = s
<1>2. s \in Subscriptions /\ s.type = "value" /\ s.path \in Seq(Keys)
  BY EventsAssumption DEF Viewers
<1>3. IsPrefix(p, s.path)
  BY <1>2, PrefixOrder, LeafMeaning, EventsAssumption DEF Held
<1>4. s.path \in DataPaths(s, p)
  BY <1>2, <1>3 DEF DataPaths, OnTrail
<1>5. Fires(s, Descend(old, Trail(p, s.path)), Descend(new, Trail(p, s.path)))
  BY <1>2 DEF Fires
<1> DEFINE Told(t, q) ==
             [sub |-> t, path |-> q, new |-> Descend(new, Trail(p, q)), astray |-> p # p]
           fired(t) == {d \in DataPaths(t, p) :
                          Fires(t, Descend(old, Trail(p, d)), Descend(new, Trail(p, d)))}
           plain == {t \in subscribed : t.type # "mutated"}
<1>6. Triggered(p, p, old, new) = UNION {{Told(t, q) : q \in fired(t)} : t \in plain}
  BY DEF Triggered
<1>7. s \in plain /\ s.path \in fired(s)
  BY <1>2, <1>4, <1>5
<1>8. Told(s, s.path).sub = s
  OBVIOUS
<1> HIDE DEF Told, fired, plain
<1>9. Told(s, s.path) \in Triggered(p, p, old, new)
  BY <1>6, <1>7
<1> QED BY <1>8, <1>9

----------------------------------------------------------------------------
(* Mutations. *)

\* Who listens at q, and what is heard there of a change.
Heard(q) == [path |-> q, type |-> "mutated"] \in Listeners

\* At or above the path a change is taken from its own mutations are heard;
\* below it one of the property, if it changed.
LEMMA MutationsMeaning ==
  ASSUME NEW p \in Records, NEW top, Above(p, top), NEW old \in Rows, NEW new \in Rows,
         NEW q \in Seq(Keys)
  PROVE  /\ ~Heard(q) \/ ~OnTrail(p, q) => Mutations(q, p, top, old, new) = {}
         /\ Heard(q) /\ OnTrail(p, q) => IsPrefix(q, top) \/ (IsPrefix(top, q) /\ q # top)
         /\ Heard(q) /\ OnTrail(p, q) /\ IsPrefix(q, top) =>
              Mutations(q, p, top, old, new) = Batch(top, old, new)
         /\ Heard(q) /\ OnTrail(p, q) /\ IsPrefix(top, q) /\ q # top =>
              Mutations(q, p, top, old, new) =
                IF Descend(old, Trail(top, q)) = Descend(new, Trail(top, q)) THEN {}
                ELSE {[path |-> q, new |-> Descend(new, Trail(top, q))]}
<1>1. top \in Records /\ top \in Seq(Keys) /\ p \in Seq(Keys) /\ IsPrefix(top, p)
  BY DEF Above
<1> DEFINE t == Trail(top, q)
<1>2. Mutations(q, p, top, old, new) =
        IF OnTrail(p, q) /\ Heard(q) THEN Batch(top \o t, Descend(old, t), Descend(new, t)) ELSE {}
  BY DEF Mutations, Heard
<1>3. ASSUME Heard(q), OnTrail(p, q), IsPrefix(q, top)
      PROVE  Mutations(q, p, top, old, new) = Batch(top, old, new)
  <2>1. t = <<>> /\ top \o t = top
    BY <1>1, <1>3, NoTrail
  <2>2. Descend(old, t) = old /\ Descend(new, t) = new
    BY <2>1 DEF Descend
  <2> HIDE DEF t
  <2> QED BY <1>2, <1>3, <2>1, <2>2
<1>4. ASSUME Heard(q), OnTrail(p, q), IsPrefix(top, q), q # top
      PROVE  Mutations(q, p, top, old, new) =
               IF Descend(old, t) = Descend(new, t) THEN {} ELSE {[path |-> q, new |-> Descend(new, t)]}
  <2>1. top \o t = q
    BY <1>1, <1>4, TrailMeaning
  <2>2. Descend(old, t) \notin Contents
    <3>1. CASE Held(top, q)
      BY <1>1, <1>4, <3>1, DescendMeaning, LeafMeaning, RowMeaning DEF Held
    <3>2. CASE ~Held(top, q)
      BY <1>1, <1>4, <3>2, DescendMeaning, RowMeaning
    <3> QED BY <3>1, <3>2
  <2> HIDE DEF t
  <2> QED BY <1>2, <1>4, <2>1, <2>2 DEF Batch
<1>5. ASSUME OnTrail(p, q)
      PROVE  IsPrefix(q, top) \/ (IsPrefix(top, q) /\ q # top)
  <2>1. IsPrefix(q, q)
    BY PrefixOrder
  <2>2. CASE IsPrefix(p, q)
    BY <1>1, <2>1, <2>2, PrefixOrder
  <2>3. CASE IsPrefix(q, p)
    BY <1>1, <2>1, <2>3, PrefixOrder DEF OnTrail
  <2> QED BY <1>5, <2>2, <2>3 DEF OnTrail
<1> QED BY <1>2, <1>3, <1>4, <1>5

\* The mutations of a record that stays are those of its properties; one
\* that comes or goes is a mutation of its own.
LEMMA BatchMeaning ==
  ASSUME NEW p \in Records, NEW old \in Rows, NEW new \in Rows, old # new
  PROVE  /\ old # Null /\ new # Null =>
              \A m : m \in Batch(p, old, new) <=>
                \E k \in Properties :
                  old[k] # new[k] /\ m = [path |-> Append(p, k), new |-> new[k]]
         /\ old = Null \/ new = Null => Batch(p, old, new) = {[path |-> p, new |-> new]}
<1>1. CASE old # Null /\ new # Null
  <2>1. old \in Contents /\ new \in Contents
    BY <1>1, RowMeaning
  <2> QED BY <1>1, <2>1 DEF Batch
<1>2. CASE old = Null \/ new = Null
  BY <1>2, RowMeaning DEF Batch
<1> QED BY <1>1, <1>2

\* What an event that waits takes in of a change taken from p: nothing when
\* it is about another record, and the new values when it is about that one.
LEMMA MergedMeaning ==
  ASSUME NEW r \in Records, NEW p, Above(r, p), NEW old \in Rows, NEW new \in Rows, old # new,
         NEW w \in LateEvent, Mutations(w.path, r, p, old, new) # {}
  PROVE  LET u == Merged(w, Mutations(w.path, r, p, old, new))
         IN /\ u \in LateEvent /\ u.sub = w.sub /\ u.path = w.path /\ u.astray = w.astray
            /\ w.path # p => u.new = w.new
            /\ w.path = p /\ w.new \in {old, new} /\ new # Null => u.new = new
<1> DEFINE batch == Mutations(w.path, r, p, old, new)
           u == Merged(w, batch)
<1>1. /\ w.path \in Records /\ w.path \in Seq(Keys) /\ p \in Seq(Keys) /\ Properties \subseteq Keys
      /\ w.new \in Contents /\ p \in Records
  BY EventsAssumption DEF LateEvent, Above
<1>2. Heard(w.path) /\ OnTrail(r, w.path)
  BY <1>1, MutationsMeaning
<1>3. batch = Batch(p, old, new)
  <2>1. CASE IsPrefix(w.path, p)
    BY <1>1, <1>2, <2>1, MutationsMeaning
  <2>2. CASE IsPrefix(p, w.path) /\ w.path # p
    <3>1. ~Held(p, w.path)
      BY <1>1, <2>2, LeafMeaning DEF Held
    <3>2. Descend(old, Trail(p, w.path)) = Null /\ Descend(new, Trail(p, w.path)) = Null
      BY <1>1, <2>2, <3>1, DescendMeaning
    <3> QED BY <1>1, <1>2, <2>2, <3>2, MutationsMeaning
  <2> QED BY <1>1, <1>2, <2>1, <2>2, MutationsMeaning
<1>4. ASSUME NEW m \in batch, NEW k \in Properties, m.path = Append(w.path, k)
      PROVE  /\ old # Null /\ new # Null /\ w.path = p
             /\ m.new = new[k] /\ m.new \in Values \cup {Null} /\ old[k] # new[k]
  <2>1. p # Append(w.path, k)
    BY <1>1, LeafMeaning DEF Leaves
  <2>2. old # Null /\ new # Null
    BY <1>1, <1>3, <1>4, <2>1, BatchMeaning
  <2>3. PICK j \in Properties : old[j] # new[j] /\ m = [path |-> Append(p, j), new |-> new[j]]
    BY <1>1, <1>3, <1>4, <2>2, BatchMeaning
  <2>4. Append(p, j) = Append(w.path, k) /\ j \in Keys /\ k \in Keys
    BY <1>1, <1>4, <2>3
  <2>5. p = w.path /\ j = k
    BY <1>1, <2>4, ChildMeaning
  <2> QED BY <2>2, <2>3, <2>5, RowMeaning
<1>5. u = [w EXCEPT !.new = [k \in Properties |->
             IF \E m \in batch : m.path = Append(w.path, k)
               THEN (CHOOSE m \in batch : m.path = Append(w.path, k)).new ELSE w.new[k]]]
  BY DEF Merged
<1> HIDE DEF batch, u
<1>6. ASSUME NEW k \in Properties
      PROVE  /\ u.new[k] \in Values \cup {Null}
             /\ w.path # p \/ old = Null \/ new = Null => u.new[k] = w.new[k]
             /\ w.path = p /\ old # Null /\ new # Null /\ w.new \in {old, new} => u.new[k] = new[k]
  <2>1. u.new[k] = IF \E m \in batch : m.path = Append(w.path, k)
                     THEN (CHOOSE m \in batch : m.path = Append(w.path, k)).new ELSE w.new[k]
    BY <1>5 DEF LateEvent
  <2>2. CASE \E m \in batch : m.path = Append(w.path, k)
    <3>1. PICK m \in batch : m.path = Append(w.path, k) /\ u.new[k] = m.new
      BY <2>1, <2>2
    <3> QED BY <1>4, <3>1
  <2>3. CASE ~ \E m \in batch : m.path = Append(w.path, k)
    <3>1. u.new[k] = w.new[k] /\ w.new[k] \in Values \cup {Null}
      BY <1>1, <2>1, <2>3, RowMeaning DEF Contents
    <3>2. ASSUME old # Null, new # Null, w.path = p
          PROVE  old[k] = new[k]
      <4>1. [path |-> Append(p, k), new |-> new[k]] \notin batch
        BY <2>3, <3>2
      <4> QED BY <1>1, <1>3, <3>2, <4>1, BatchMeaning
    <3> QED BY <3>1, <3>2
  <2> QED BY <2>2, <2>3
<1>7. u.sub = w.sub /\ u.path = w.path /\ u.astray = w.astray
      /\ u.new = [k \in Properties |-> u.new[k]] /\ u = [w EXCEPT !.new = u.new]
  BY <1>5 DEF LateEvent
<1>8. u.new \in Contents /\ u \in LateEvent
  BY <1>6, <1>7 DEF Contents, LateEvent
<1>9. ASSUME w.path # p
      PROVE  u.new = w.new
  BY <1>1, <1>6, <1>7, <1>9 DEF Contents
<1>10. ASSUME w.path = p, w.new \in {old, new}, new # Null
       PROVE  u.new = new
  <2>1. new \in Contents
    BY <1>10, RowMeaning
  <2>2. CASE old = Null
    BY <1>1, <1>6, <1>7, <1>10, <2>1, <2>2, RowMeaning DEF Contents
  <2>3. CASE old # Null
    BY <1>6, <1>7, <1>10, <2>1, <2>3 DEF Contents
  <2> QED BY <2>2, <2>3
<1> QED BY <1>7, <1>8, <1>9, <1>10 DEF u, batch

\* What a change makes of an event that waits.
LEMMA UpdatedMeaning ==
  ASSUME NEW p \in Records, NEW top, Above(p, top), NEW old \in Rows, NEW new \in Rows, old # new,
         NEW w \in LateEvent
  PROVE  LET u == Updated(w, p, top, old, new)
         IN /\ u \in LateEvent /\ u.sub = w.sub /\ u.path = w.path
            /\ u.astray <=> \/ w.astray
                            \/ new = Null /\ w.path = p
                            \/ top # p /\ OnTrail(p, w.path)
            /\ w.path # p /\ ~u.astray => u.new = w.new
            /\ top = p /\ w.path = p /\ new # Null /\ (w.new = new \/ (w.new = old /\ Heard(p))) =>
                 u.new = new
<1> DEFINE batch == Mutations(w.path, p, top, old, new)
           merged == IF batch = {} THEN w ELSE Merged(w, batch)
           strays == (new = Null /\ w.path = p) \/ (top # p /\ OnTrail(p, w.path))
           u == Updated(w, p, top, old, new)
<1>1. /\ merged \in LateEvent /\ merged.sub = w.sub /\ merged.path = w.path
      /\ merged.astray = w.astray
      /\ w.path # top => merged.new = w.new
      /\ w.path = top /\ w.new \in {old, new} /\ new # Null /\ batch # {} => merged.new = new
  BY MergedMeaning
<1>2. ASSUME top = p, w.path = p, new # Null, w.new = old, Heard(p)
      PROVE  batch # {}
  <2>1. p \in Seq(Keys) /\ IsPrefix(p, p)
    BY PrefixOrder, EventsAssumption
  <2>2. batch = Batch(p, old, new)
    BY <1>2, <2>1, MutationsMeaning DEF OnTrail
  <2>3. old \in Contents /\ new \in Contents /\ old # Null
    BY <1>2, RowMeaning DEF LateEvent
  <2>4. PICK k \in Properties : old[k] # new[k]
    BY <2>3 DEF Contents
  <2>5. [path |-> Append(p, k), new |-> new[k]] \in Batch(p, old, new)
    BY <1>2, <2>3, <2>4, BatchMeaning
  <2> QED BY <2>2, <2>5
<1>3. top # p /\ ~OnTrail(p, w.path) => batch = {}
  BY EventsAssumption, MutationsMeaning DEF LateEvent
<1>4. u = [merged EXCEPT !.astray = merged.astray \/ strays]
  BY DEF Updated
<1>5. batch = {} => merged = w
  OBVIOUS
<1> HIDE DEF merged, u, batch, strays
<1>6. (merged.astray \/ strays) \in BOOLEAN
  OBVIOUS
<1>7. /\ u \in LateEvent /\ u.sub = w.sub /\ u.path = w.path /\ u.new = merged.new
      /\ u.astray = (merged.astray \/ strays)
  BY <1>1, <1>4, <1>6 DEF LateEvent
<1>8. w.astray \in BOOLEAN
  BY DEF LateEvent
<1>9. u.astray <=> w.astray \/ strays
  BY <1>1, <1>7, <1>8
<1>10. ASSUME w.path # p, ~u.astray
       PROVE  u.new = w.new
  <2>1. top = p \/ ~OnTrail(p, w.path)
    BY <1>9, <1>10 DEF strays
  <2> QED BY <1>1, <1>3, <1>5, <1>7, <1>10, <2>1
<1>11. ASSUME top = p, w.path = p, new # Null, w.new = new \/ (w.new = old /\ Heard(p))
       PROVE  u.new = new
  BY <1>1, <1>2, <1>5, <1>7, <1>11
<1> QED BY <1>7, <1>9, <1>10, <1>11 DEF u, strays

\* The timers that are started again change the order of the queue, and the
\* change what waits in it.
LEMMA RestartedMeaning ==
  ASSUME TypeOK, NEW p \in Records, NEW top, Above(p, top), NEW old \in Rows, NEW new \in Rows,
         old # new, NEW queue \in Seq(LateEvent), NEW next \in Restarted(queue, p, top, old, new)
  PROVE  /\ next \in Seq(LateEvent)
         /\ \A i \in DOMAIN next : \E j \in DOMAIN queue : next[i] = Updated(queue[j], p, top, old, new)
         /\ \A j \in DOMAIN queue : \E i \in DOMAIN next : next[i] = Updated(queue[j], p, top, old, new)
<1> DEFINE D == DOMAIN queue
<1>1. PICK turn \in Bijection(D, D) :
        next = [i \in D |-> Updated(queue[turn[i]], p, top, old, new)]
  BY DEF Restarted
<1>2. /\ turn \in [D -> D] /\ \A j \in D : \E i \in D : turn[i] = j
  BY DEF Bijection, Surjection, Injection
<1>3. D = 1..Len(queue) /\ Len(queue) \in Nat /\ \A j \in D : queue[j] \in LateEvent
  OBVIOUS
<1> HIDE DEF D
<1>4. \A i \in D : next[i] = Updated(queue[turn[i]], p, top, old, new) /\ next[i] \in LateEvent
  BY <1>1, <1>2, <1>3, UpdatedMeaning
<1>5. next \in [D -> LateEvent] /\ DOMAIN next = D
  BY <1>1, <1>4
<1>6. next \in Seq(LateEvent)
  BY <1>3, <1>5, SeqDef
<1> QED BY <1>2, <1>4, <1>5, <1>6 DEF D

\* The delayed events of a change, in some order: those that are due and no
\* others.
LEMMA InOrderMeaning ==
  ASSUME TypeOK, NEW p \in Records, NEW top, Above(p, top), NEW old \in Rows, NEW new \in Rows,
         NEW late \in InOrder({e \in Triggered(p, top, old, new) : Delayed(e)})
  PROVE  /\ late \in Seq(LateEvent)
         /\ \A i \in DOMAIN late : late[i].path = top /\ late[i].new = new /\ late[i].astray = (top # p)
                                    /\ (late[i].sub.type = "value" => late[i].path = late[i].sub.path)
         /\ \A e \in Triggered(p, top, old, new) : Delayed(e) => \E i \in DOMAIN late : late[i] = e
<1> DEFINE events == {e \in Triggered(p, top, old, new) : Delayed(e)}
           all == [s \in Subscriptions |-> [sub |-> s, path |-> top, new |-> new, astray |-> top # p]]
<1>1. \A e \in events : /\ e \in LateEvent /\ e.path = top /\ e.new = new /\ e.astray = (top # p)
                        /\ e.sub.type = "value" => e.path = e.sub.path
  BY TriggeredMeaning
<1>2. IsFiniteSet(events)
  <2>1. \A e \in events : e.sub \in Subscriptions /\ e = all[e.sub]
    BY <1>1 DEF LateEvent
  <2> DEFINE image == {all[s] : s \in Subscriptions}
  <2>2. all \in Surjection(Subscriptions, image)
    BY DEF Surjection
  <2>3. IsFiniteSet(image)
    BY <2>2, FS_Surjection, EventsAssumption
  <2>4. events \subseteq image
    BY <2>1
  <2> QED BY <2>3, <2>4, FS_Subset
<1> HIDE DEF events
<1>3. Cardinality(events) \in Nat
  BY <1>2, FS_CardinalityType
<1>4. /\ late \in [1..Cardinality(events) -> events]
      /\ \A i, j \in 1..Cardinality(events) : i # j => late[i] # late[j]
  BY DEF InOrder, SetToSeqs, events
<1>5. late \in Seq(events) /\ DOMAIN late = 1..Cardinality(events)
  BY <1>3, <1>4, SeqDef
<1>6. late \in Seq(LateEvent)
  BY <1>1, <1>5
<1>7. \A e \in events : \E i \in DOMAIN late : late[i] = e
  <2> DEFINE n == Cardinality(events)
  <2>1. IsFiniteSet(1..n) /\ Cardinality(1..n) = n
    BY <1>3, FS_Interval
  <2>2. late \in Injection(1..n, events)
    BY <1>4 DEF Injection, IsInjective
  <2>3. late \in Surjection(1..n, events)
    BY <1>2, <2>1, <2>2, FS_Injection
  <2> QED BY <1>5, <2>3 DEF Surjection
<1> QED BY <1>1, <1>4, <1>5, <1>6, <1>7 DEF events

----------------------------------------------------------------------------
(* Copies. *)

\* A mutation is one of the node whose mutations are heard, of a record that
\* comes or goes, or of a property of one that stays.
LEMMA MutationShape ==
  ASSUME NEW p \in Records, NEW top, Above(p, top), NEW old \in Rows, NEW new \in Rows, old # new,
         NEW q \in Seq(Keys), NEW m \in Mutations(q, p, top, old, new), m.path # q
  PROVE  /\ Heard(q) /\ IsPrefix(q, top)
         /\ Mutations(q, p, top, old, new) = Batch(top, old, new)
         /\ old = Null \/ new = Null => m = [path |-> top, new |-> new]
         /\ old # Null /\ new # Null =>
              \E k \in Properties :
                old[k] # new[k] /\ m = [path |-> Append(top, k), new |-> new[k]]
<1>1. top \in Records
  BY DEF Above
<1>2. Heard(q) /\ OnTrail(p, q)
  BY MutationsMeaning
<1>3. ~(IsPrefix(top, q) /\ q # top)
  <2> SUFFICES ASSUME IsPrefix(top, q), q # top PROVE FALSE
    OBVIOUS
  <2>1. Mutations(q, p, top, old, new) =
          IF Descend(old, Trail(top, q)) = Descend(new, Trail(top, q)) THEN {}
          ELSE {[path |-> q, new |-> Descend(new, Trail(top, q))]}
    BY <1>2, MutationsMeaning
  <2> QED BY <2>1
<1>4. IsPrefix(q, top) /\ Mutations(q, p, top, old, new) = Batch(top, old, new)
  BY <1>2, <1>3, MutationsMeaning
<1> QED BY <1>1, <1>2, <1>4, BatchMeaning

\* Objects lead to a property when they lead to its record and it is there.
LEMMA FollowedLeaf ==
  ASSUME NEW p \in Records, NEW k \in Properties, NEW q \in Seq(Keys), IsPrefix(q, p),
         NEW copy \in [Records -> Rows]
  PROVE  Followed(q, copy, Append(p, k)) <=> Followed(q, copy, p) /\ copy[p] # Null
<1> DEFINE l == Append(p, k)
<1>1. p \in Seq(Keys) /\ k \in Keys /\ l \in Leaves /\ l \notin Records
  <2>1. l \in Leaves
    BY DEF Leaves
  <2> HIDE DEF l
  <2> QED BY <2>1, LeafMeaning, EventsAssumption
<1>2. IsPrefix(p, l) /\ p # l
  BY <1>1, ChildMeaning
<1>3. ASSUME NEW r \in Records
      PROVE  IsStrictPrefix(r, l) <=> r = p \/ IsStrictPrefix(r, p)
  <2>1. r \in Seq(Keys) /\ l \in Seq(Keys) /\ r # l
    BY <1>1, LeafMeaning, EventsAssumption
  <2>2. IsPrefix(r, l) => IsPrefix(r, p)
    BY <1>1, <2>1, PrefixOfChild
  <2>3. IsPrefix(r, p) => IsPrefix(r, l)
    BY <1>1, <1>2, <2>1, PrefixOrder
  <2>4. r = p => IsPrefix(r, p)
    BY <1>1, PrefixOrder
  <2> HIDE DEF l
  <2> QED BY <2>1, <2>2, <2>3, <2>4 DEF IsStrictPrefix
<1> HIDE DEF l
<1> QED BY <1>3 DEF Followed, l

\* What a copy holds after the mutations of a record that comes or goes.
LEMMA AppliedWhole ==
  ASSUME NEW p \in Records, NEW top, Above(p, top), NEW old \in Rows, NEW new \in Rows, old # new,
         old = Null \/ new = Null,
         NEW q \in Seq(Keys), NEW copy \in [Records -> Rows], NEW r \in Records
  PROVE  LET next == Applied(q, copy, Mutations(q, p, top, old, new))
         IN \/ /\ next[r] = copy[r]
               /\ IsPrefix(top, r) => \/ ~Heard(q) \/ ~IsPrefix(q, top)
                                      \/ top = q \/ ~Followed(q, copy, top)
            \/ /\ IsPrefix(top, r) /\ Heard(q) /\ IsPrefix(q, top) /\ top # q
               /\ Followed(q, copy, top)
               /\ next[r] = IF r = top THEN new ELSE Null
<1> DEFINE batch == Mutations(q, p, top, old, new)
           reached == {m \in batch : m.path # q /\ Followed(q, copy, m.path)}
           changed == {k \in Properties : \E m \in reached : m.path = Append(r, k)}
           next == Applied(q, copy, batch)
           whole == [path |-> top, new |-> new]
<1>1. top \in Records /\ top \in Seq(Keys) /\ r \in Seq(Keys)
  BY EventsAssumption DEF Above
<1>2. \A m \in reached : m = whole /\ Heard(q) /\ IsPrefix(q, top) /\ batch = Batch(top, old, new)
  BY MutationShape
<1>3. /\ ~(\E m \in reached : IsPrefix(m.path, r)) /\ changed = {} => next[r] = copy[r]
      /\ (\E m \in reached : IsPrefix(m.path, r)) =>
           \E m \in reached : IsPrefix(m.path, r) /\ next[r] = Descend(m.new, Trail(m.path, r))
  BY DEF Applied
<1>4. Heard(q) /\ IsPrefix(q, top) /\ top # q /\ Followed(q, copy, top) => whole \in reached
  <2> SUFFICES ASSUME Heard(q), IsPrefix(q, top), top # q, Followed(q, copy, top)
               PROVE  whole \in reached
    OBVIOUS
  <2>1. OnTrail(p, q)
    BY <1>1, PrefixOrder DEF OnTrail, Above
  <2>2. batch = Batch(top, old, new)
    BY <2>1, MutationsMeaning
  <2>3. whole \in batch
    BY <1>1, <2>2, BatchMeaning
  <2> QED BY <2>3
<1>5. changed = {}
  <2>1. \A k \in Properties : Append(r, k) # top
    BY <1>1, LeafMeaning DEF Leaves
  <2> QED BY <1>2, <2>1
<1>6. IsPrefix(top, r) => Descend(new, Trail(top, r)) = IF r = top THEN new ELSE Null
  <2>1. Held(top, r) <=> r = top
    BY LeafMeaning DEF Held
  <2> QED BY <1>1, <2>1, DescendMeaning
<1>7. whole.path = top /\ whole.new = new
  OBVIOUS
<1>8. \A m \in reached : m.path # q /\ Followed(q, copy, m.path)
  OBVIOUS
<1> HIDE DEF batch, reached, changed, next, whole
<1>9. CASE \E m \in reached : IsPrefix(m.path, r)
  BY <1>2, <1>3, <1>6, <1>7, <1>8, <1>9 DEF next, batch
<1>10. CASE ~ \E m \in reached : IsPrefix(m.path, r)
  <2>1. next[r] = copy[r]
    BY <1>3, <1>5, <1>10
  <2>2. IsPrefix(top, r) => whole \notin reached
    BY <1>7, <1>10
  <2> QED BY <1>4, <2>1, <2>2 DEF next, batch
<1> QED BY <1>9, <1>10

\* What it holds after those of a record that stays.
LEMMA AppliedParts ==
  ASSUME NEW p \in Records, NEW top, Above(p, top), NEW old \in Rows, NEW new \in Rows, old # new,
         old # Null, new # Null,
         NEW q \in Seq(Keys), NEW copy \in [Records -> Rows], NEW r \in Records
  PROVE  LET next == Applied(q, copy, Mutations(q, p, top, old, new))
         IN /\ next[r] \in Rows
            /\ r # top \/ ~Heard(q) \/ ~IsPrefix(q, top) => next[r] = copy[r]
            /\ Heard(q) /\ IsPrefix(q, top) /\ Followed(q, copy, top) /\ copy[top] = old =>
                 next[top] = new
<1> DEFINE batch == Mutations(q, p, top, old, new)
           reached == {m \in batch : m.path # q /\ Followed(q, copy, m.path)}
           changed(d) == {k \in Properties : \E m \in reached : m.path = Append(d, k)}
           next == Applied(q, copy, batch)
           part(k) == [path |-> Append(top, k), new |-> new[k]]
<1>1. /\ top \in Records /\ top \in Seq(Keys) /\ r \in Seq(Keys) /\ Properties \subseteq Keys
      /\ old \in Contents /\ new \in Contents
  BY EventsAssumption, RowMeaning DEF Above
<1>2. ASSUME NEW m \in reached
      PROVE  /\ Heard(q) /\ IsPrefix(q, top)
             /\ \E k \in Properties : old[k] # new[k] /\ m = part(k)
  BY <1>2, MutationShape
<1>3. ASSUME NEW m \in reached, NEW d \in Records
      PROVE  ~IsPrefix(m.path, d)
  <2>1. PICK k \in Properties : m = part(k)
    BY <1>2
  <2>2. m.path = Append(top, k) /\ Append(top, k) \in Leaves
    <3>1. m.path = Append(top, k)
      BY <2>1
    <3>2. Append(top, k) \in Leaves
      BY <1>1 DEF Leaves
    <3> QED BY <3>1, <3>2
  <2> HIDE DEF reached
  <2> QED BY <2>2, LeafMeaning
<1>4. ASSUME NEW m \in reached, NEW d \in Records, NEW k \in Properties, m.path = Append(d, k)
      PROVE  d = top /\ m.new = new[k] /\ old[k] # new[k] /\ copy[top] \in Contents
  <2>1. PICK j \in Properties : old[j] # new[j] /\ m = part(j)
    BY <1>2
  <2>2. Append(top, j) = Append(d, k) /\ d \in Seq(Keys)
    BY <1>4, <2>1, EventsAssumption
  <2>3. d = top /\ j = k
    <3>1. /\ Front(Append(top, j)) = top /\ Last(Append(top, j)) = j
          /\ Front(Append(d, k)) = d /\ Last(Append(d, k)) = k
      BY <1>1, <2>2, ChildMeaning
    <3> QED BY <2>2, <3>1
  <2>4. copy[top] # Null
    <3>1. Followed(q, copy, Append(top, j)) /\ IsPrefix(q, top)
      BY <1>2, <2>1
    <3> QED BY <1>1, <3>1, FollowedLeaf
  <2> QED BY <1>1, <2>1, <2>3, <2>4, RowMeaning
<1>5. ASSUME NEW d \in Records
      PROVE  /\ changed(d) = {} => next[d] = copy[d]
             /\ changed(d) # {} =>
                  next[d] = [k \in Properties |-> IF k \in changed(d) THEN new[k] ELSE copy[d][k]]
  <2>1. ~ \E m \in reached : IsPrefix(m.path, d)
    BY <1>3
  <2>2. next[d] = IF changed(d) = {} THEN copy[d]
                  ELSE [k \in Properties |->
                          IF k \in changed(d)
                            THEN (CHOOSE m \in reached : m.path = Append(d, k)).new
                            ELSE copy[d][k]]
    BY <2>1 DEF Applied
  <2>3. \A k \in changed(d) : (CHOOSE m \in reached : m.path = Append(d, k)).new = new[k]
    <3> SUFFICES ASSUME NEW k \in changed(d)
                 PROVE  (CHOOSE m \in reached : m.path = Append(d, k)).new = new[k]
      OBVIOUS
    <3>1. k \in Properties /\ \E m \in reached : m.path = Append(d, k)
      OBVIOUS
    <3> HIDE DEF reached, changed
    <3>2. PICK m : m = CHOOSE n \in reached : n.path = Append(d, k)
      OBVIOUS
    <3>3. m \in reached /\ m.path = Append(d, k)
      BY <3>1, <3>2
    <3>4. m.new = new[k]
      BY <1>4, <3>1, <3>3
    <3> QED BY <3>2, <3>4
  <2> HIDE DEF reached, changed, next
  <2> QED BY <2>2, <2>3
<1>6. /\ \A d \in Records : changed(d) # {} => d = top /\ copy[top] \in Contents
      /\ changed(top) # {} => Heard(q) /\ IsPrefix(q, top)
      /\ \A k \in changed(top) : k \in Properties
  BY <1>2, <1>4
<1>7. next[r] \in Rows
  <2>1. CASE changed(r) = {}
    BY <1>5, <2>1
  <2>2. CASE changed(r) # {}
    <3>1. r = top /\ copy[r] \in Contents
      BY <1>6, <2>2
    <3>2. \A k \in Properties : new[k] \in Values \cup {Null} /\ copy[r][k] \in Values \cup {Null}
      BY <1>1, <3>1 DEF Contents
    <3>3. next[r] = [k \in Properties |-> IF k \in changed(r) THEN new[k] ELSE copy[r][k]]
      BY <1>5, <2>2
    <3> HIDE DEF changed, next
    <3>4. next[r] \in Contents
      BY <3>2, <3>3 DEF Contents
    <3> QED BY <3>4 DEF Rows
  <2> QED BY <2>1, <2>2
<1>8. r # top \/ ~Heard(q) \/ ~IsPrefix(q, top) => next[r] = copy[r]
  BY <1>5, <1>6
<1>9. ASSUME Heard(q), IsPrefix(q, top), Followed(q, copy, top), copy[top] = old
      PROVE  next[top] = new
  <2>1. OnTrail(p, q)
    BY <1>1, <1>9, PrefixOrder DEF OnTrail, Above
  <2>2. batch = Batch(top, old, new)
    BY <1>9, <2>1, MutationsMeaning
  <2>3. ASSUME NEW k \in Properties, old[k] # new[k]
        PROVE  k \in changed(top)
    <3>1. part(k) \in batch
      BY <1>1, <2>2, <2>3, BatchMeaning
    <3>2. Append(top, k) # q
      <4>1. k \in Keys /\ ~IsPrefix(Append(top, k), top)
        BY <1>1, ChildMeaning
      <4> QED BY <1>9, <4>1
    <3>3. Followed(q, copy, Append(top, k))
      BY <1>1, <1>9, FollowedLeaf
    <3>4. part(k).path = Append(top, k)
      OBVIOUS
    <3>5. part(k) \in reached
      BY <3>1, <3>2, <3>3, <3>4
    <3> QED BY <3>4, <3>5
  <2>4. \E k \in Properties : old[k] # new[k]
    BY <1>1 DEF Contents
  <2>5. next[top] = [k \in Properties |-> IF k \in changed(top) THEN new[k] ELSE copy[top][k]]
    BY <1>1, <1>5, <2>3, <2>4
  <2>6. \A k \in Properties : k \notin changed(top) => old[k] = new[k]
    BY <2>3
  <2> HIDE DEF changed, next
  <2>7. next[top] = [k \in Properties |-> new[k]]
    BY <1>9, <2>5, <2>6
  <2> QED BY <1>1, <2>7 DEF Contents
<1> QED BY <1>7, <1>8, <1>9

\* A copy remains one of records.
LEMMA AppliedType ==
  ASSUME NEW p \in Records, NEW top, Above(p, top), NEW old \in Rows, NEW new \in Rows, old # new,
         NEW q \in Seq(Keys), NEW copy \in [Records -> Rows]
  PROVE  Applied(q, copy, Mutations(q, p, top, old, new)) \in [Records -> Rows]
<1> DEFINE next == Applied(q, copy, Mutations(q, p, top, old, new))
<1>1. \A r \in Records : next[r] \in Rows
  <2> SUFFICES ASSUME NEW r \in Records PROVE next[r] \in Rows
    OBVIOUS
  <2>1. CASE old = Null \/ new = Null
    <3>1. next[r] \in {copy[r], new, Null}
      BY <2>1, AppliedWhole
    <3> QED BY <3>1 DEF Rows
  <2>2. CASE old # Null /\ new # Null
    BY <2>2, AppliedParts
  <2> QED BY <2>1, <2>2
<1>2. DOMAIN next = Records /\ next = [r \in Records |-> next[r]]
  BY DEF Applied
<1> HIDE DEF next
<1>3. next \in [Records -> Rows]
  BY <1>1, <1>2
<1> QED BY <1>3 DEF next

----------------------------------------------------------------------------
(***************************************************************************)
(* The inductive invariant.  A copy holds the records it has not lost.  An *)
(* event to "value" is about the path of its subscription.  What a         *)
(* subscriber to "value" was shown is the data, or went astray, or         *)
(* something for him waits; and who is not subscribed is shown nothing.    *)
(***************************************************************************)
Named(w) == w.sub.type = "value" => w.path = w.sub.path

Announced ==
  \A s \in Viewers :
    /\ s \notin subscribed => shown[s] = {}
    /\ \A e \in shown[s] :
         e.astray \/ e.new = Data(record, s.path) \/ \E i \in DOMAIN waiting : waiting[i].sub = s

Inv ==
  /\ TypeOK
  /\ MirrorFollows
  /\ WaitingIsFresh
  /\ \A i \in DOMAIN waiting : Named(waiting[i])
  /\ Announced

\* Nobody has subscribed, and nothing is stored.
LEMMA InvInit == Init => Inv
<1> SUFFICES ASSUME Init PROVE Inv
  OBVIOUS
<1>1. /\ record = [p \in Records |-> Null] /\ waiting = <<>> /\ subscribed = {}
      /\ shown = [s \in Viewers |-> {}]
      /\ mirror = [s \in Mirrors |-> [p \in Records |-> Null]]
      /\ lost = [s \in Mirrors |-> {}]
  BY DEF Init
<1>2. TypeOK
  BY <1>1 DEF TypeOK, Rows
<1>3. MirrorFollows /\ WaitingIsFresh /\ Announced /\ \A i \in DOMAIN waiting : Named(waiting[i])
  BY <1>1 DEF MirrorFollows, WaitingIsFresh, Announced
<1> QED BY <1>2, <1>3 DEF Inv

\* What waits after a change is what the change makes of what waited before
\* and of its own delayed events.
LEMMA ChangeQueue ==
  ASSUME Inv, NEW p \in Records, NEW new \in Rows, Change(p, new)
  PROVE  LET top == TopEventPath(p)
         IN /\ waiting' \in Seq(LateEvent)
            /\ \A i \in DOMAIN waiting' : \E w \in LateEvent :
                 /\ waiting'[i] = Updated(w, p, top, record[p], new)
                 /\ Named(w)
                 /\ \/ \E j \in DOMAIN waiting : w = waiting[j]
                    \/ w.path = top /\ w.new = new /\ w.astray = (top # p)
            /\ \A w \in LateEvent :
                 \/ \E j \in DOMAIN waiting : w = waiting[j]
                 \/ w \in Triggered(p, top, record[p], new) /\ Delayed(w)
                 => \E i \in DOMAIN waiting' : waiting'[i] = Updated(w, p, top, record[p], new)
<1> DEFINE old == record[p]
           top == TopEventPath(p)
<1>1. /\ TypeOK /\ old \in Rows /\ old # new /\ waiting \in Seq(LateEvent)
      /\ \A i \in DOMAIN waiting : Named(waiting[i])
  BY DEF Inv, TypeOK, Change
<1>2. PICK late \in InOrder({e \in Triggered(p, top, old, new) : Delayed(e)}) :
        waiting' \in Restarted(waiting \o late, p, top, old, new)
  BY DEF Change
<1>3. Above(p, top)
  BY <1>1, TopMeaning
<1> HIDE DEF old, top
<1>4. /\ late \in Seq(LateEvent)
      /\ \A i \in DOMAIN late : late[i].path = top /\ late[i].new = new /\ late[i].astray = (top # p)
                                 /\ (late[i].sub.type = "value" => late[i].path = late[i].sub.path)
      /\ \A e \in Triggered(p, top, old, new) : Delayed(e) => \E i \in DOMAIN late : late[i] = e
  BY <1>1, <1>3, InOrderMeaning
<1>5. PICK queue : queue = waiting \o late
  OBVIOUS
<1>6. /\ queue \in Seq(LateEvent)
      /\ DOMAIN queue = 1..Len(waiting) + Len(late)
      /\ DOMAIN waiting = 1..Len(waiting) /\ DOMAIN late = 1..Len(late)
      /\ Len(waiting) \in Nat /\ Len(late) \in Nat
      /\ \A i \in DOMAIN queue :
           queue[i] = IF i <= Len(waiting) THEN waiting[i] ELSE late[i - Len(waiting)]
  <2>1. Len(queue) = Len(waiting) + Len(late)
    BY <1>1, <1>4, <1>5
  <2> QED BY <1>1, <1>4, <1>5, <2>1, ConcatProperties
<1>7. /\ waiting' \in Seq(LateEvent)
      /\ \A i \in DOMAIN waiting' : \E j \in DOMAIN queue :
           waiting'[i] = Updated(queue[j], p, top, old, new)
      /\ \A j \in DOMAIN queue : \E i \in DOMAIN waiting' :
           waiting'[i] = Updated(queue[j], p, top, old, new)
  <2>1. waiting' \in Restarted(queue, p, top, old, new) /\ queue \in Seq(LateEvent)
    BY <1>2, <1>5, <1>6
  <2>2. TypeOK /\ old \in Rows /\ old # new
    BY <1>1
  <2> QED BY <1>3, <2>1, <2>2, RestartedMeaning
<1>8. ASSUME NEW j \in DOMAIN queue
      PROVE  /\ queue[j] \in LateEvent /\ Named(queue[j])
             /\ \/ \E i \in DOMAIN waiting : queue[j] = waiting[i]
                \/ queue[j].path = top /\ queue[j].new = new /\ queue[j].astray = (top # p)
  <2>1. CASE j <= Len(waiting)
    BY <1>1, <1>6, <2>1
  <2>2. CASE j > Len(waiting)
    <3>1. j - Len(waiting) \in DOMAIN late /\ queue[j] = late[j - Len(waiting)]
      BY <1>6, <2>2
    <3> QED BY <1>4, <3>1 DEF Named
  <2> QED BY <1>6, <2>1, <2>2
<1>9. ASSUME NEW i \in DOMAIN waiting
      PROVE  \E j \in DOMAIN queue : queue[j] = waiting[i]
  BY <1>6
<1>10. ASSUME NEW i \in DOMAIN late
       PROVE  \E j \in DOMAIN queue : queue[j] = late[i]
  <2>1. i + Len(waiting) \in DOMAIN queue /\ queue[i + Len(waiting)] = late[i]
    BY <1>6
  <2> QED BY <2>1
<1>11. ASSUME NEW w \in LateEvent,
              \/ \E j \in DOMAIN waiting : w = waiting[j]
              \/ w \in Triggered(p, top, old, new) /\ Delayed(w)
       PROVE  \E j \in DOMAIN queue : queue[j] = w
  BY <1>4, <1>9, <1>10, <1>11
<1> QED BY <1>7, <1>8, <1>11 DEF old, top

\* A change and the types.
LEMMA ChangeType ==
  ASSUME Inv, NEW p \in Records, NEW new \in Rows, Change(p, new)
  PROVE  TypeOK'
<1> DEFINE top == TopEventPath(p)
           events == Triggered(p, top, record[p], new)
<1>1. TypeOK /\ record[p] \in Rows /\ record[p] # new
  BY DEF Inv, TypeOK, Change
<1>2. Above(p, top)
  BY <1>1, TopMeaning
<1>3. record' \in [Records -> Rows] /\ subscribed' \subseteq Subscriptions
  BY <1>1 DEF Change, TypeOK
<1>4. waiting' \in Seq(LateEvent)
  BY ChangeQueue
<1>5. DOMAIN shown' = Viewers
  BY DEF Change
<1>6. ASSUME NEW s \in Viewers, NEW e \in shown'[s]
      PROVE  e \in Event
  <2> DEFINE strays == top # p /\ OnTrail(p, s.path)
  <2>1. \/ e \in events
        \/ \E d \in shown[s] : e = [d EXCEPT !.astray = d.astray \/ strays]
    BY DEF Change
  <2>2. CASE e \in events
    BY <1>1, <1>2, <2>2, TriggeredMeaning
  <2>3. CASE \E d \in shown[s] : e = [d EXCEPT !.astray = d.astray \/ strays]
    <3>1. PICK d \in shown[s] : e = [d EXCEPT !.astray = d.astray \/ strays]
      BY <2>3
    <3>2. d \in Event
      BY <1>1 DEF TypeOK
    <3>3. (d.astray \/ strays) \in BOOLEAN
      OBVIOUS
    <3> HIDE DEF strays
    <3> QED BY <3>1, <3>2, <3>3 DEF Event
  <2> QED BY <2>1, <2>2, <2>3
<1>7. mirror' \in [Mirrors -> [Records -> Rows]]
  <2>1. ASSUME NEW s \in Mirrors
        PROVE  /\ mirror[s] \in [Records -> Rows]
               /\ Applied(s.path, mirror[s], Mutations(s.path, p, top, record[p], new))
                    \in [Records -> Rows]
    <3>1. s.path \in Seq(Keys) /\ mirror[s] \in [Records -> Rows]
      BY <1>1, EventsAssumption DEF TypeOK, Mirrors
    <3> QED BY <1>1, <1>2, <3>1, AppliedType
  <2> QED BY <2>1 DEF Change
<1>8. lost' \in [Mirrors -> SUBSET Records]
  <2>1. ASSUME NEW s \in Mirrors
        PROVE  lost[s] \subseteq Records /\ Forsaken(s, p, top, record[p], new) \subseteq Records
    <3>1. lost[s] \subseteq Records
      BY <1>1 DEF TypeOK
    <3> QED BY <3>1 DEF Forsaken
  <2> QED BY <2>1 DEF Change
<1> QED BY <1>3, <1>4, <1>5, <1>6, <1>7, <1>8 DEF TypeOK

\* A change and the copies.
LEMMA ChangeCopies ==
  ASSUME Inv, NEW p \in Records, NEW new \in Rows, Change(p, new)
  PROVE  MirrorFollows'
<1> SUFFICES ASSUME NEW s \in Mirrors, s \in subscribed', NEW r \in Records, IsPrefix(s.path, r),
                    r \notin lost'[s]
             PROVE  mirror'[s][r] = record'[r]
  BY DEF MirrorFollows
<1> DEFINE old == record[p]
           top == TopEventPath(p)
           q == s.path
           copy == mirror[s]
           next == Applied(q, copy, Mutations(q, p, top, old, new))
           whole == old = Null \/ new = Null
           found == Followed(q, copy, p)
<1>1. /\ TypeOK /\ old \in Rows /\ old # new /\ record \in [Records -> Rows]
      /\ copy \in [Records -> Rows] /\ s \in subscribed
      /\ record' = [record EXCEPT ![p] = new]
      /\ mirror'[s] = next
      /\ lost'[s] = IF IsPrefix(q, p) THEN Forsaken(s, p, top, old, new) ELSE lost[s]
  BY DEF Inv, TypeOK, Change
<1>2. Above(p, top)
  BY <1>1, TopMeaning
<1>3. /\ q \in Seq(Keys) /\ p \in Seq(Keys) /\ r \in Seq(Keys) /\ Heard(q)
      /\ top \in Seq(Keys) /\ IsPrefix(top, p)
  <2>1. s \in Subscriptions /\ s.type = "mutated" /\ s.path \in Seq(Keys)
        /\ s = [path |-> s.path, type |-> "mutated"]
    BY EventsAssumption DEF Mirrors
  <2> QED BY <1>1, <1>2, <2>1, EventsAssumption DEF Heard, Listeners, Above
<1>4. /\ r = p => record'[r] = new
      /\ r # p => record'[r] = record[r]
      /\ r \notin lost[s] => copy[r] = record[r]
  BY <1>1 DEF Inv, MirrorFollows
<1> HIDE DEF old, top, q, copy
<1>5. \/ next[r] = copy[r]
      \/ IsPrefix(top, r) /\ IsPrefix(q, top)
  <2>1. IsPrefix(top, top)
    BY <1>3, PrefixOrder
  <2>2. CASE whole
    <3>1. \/ Applied(q, copy, Mutations(q, p, top, old, new))[r] = copy[r]
          \/ IsPrefix(top, r) /\ IsPrefix(q, top)
      <4>1. copy \in [Records -> Rows] /\ q \in Seq(Keys) /\ old \in Rows /\ old # new
        BY <1>1, <1>3
      <4> QED BY <1>2, <2>2, <4>1, AppliedWhole
    <3> QED BY <3>1
  <2>3. CASE ~whole
    <3>1. r # top \/ ~IsPrefix(q, top) => next[r] = copy[r]
      BY <1>1, <1>2, <1>3, <2>3, AppliedParts
    <3> QED BY <2>1, <3>1
  <2> QED BY <2>2, <2>3
<1>6. CASE ~IsPrefix(q, p)
  <2>1. ~IsPrefix(q, top) /\ r # p
    BY <1>3, <1>6, PrefixOrder DEF q
  <2> QED BY <1>1, <1>4, <1>5, <1>6, <2>1
<1>7. CASE IsPrefix(q, p) /\ top # p
  <2>1. r \notin lost[s] /\ ~IsPrefix(top, r)
    BY <1>1, <1>7 DEF Forsaken, old, q, copy
  <2>2. r # p
    BY <1>3, <2>1
  <2> QED BY <1>1, <1>4, <1>5, <2>1, <2>2
<1>8. CASE IsPrefix(q, p) /\ top = p /\ (~found \/ (whole /\ p = q))
  <2>1. r \notin lost[s] /\ r # p
    BY <1>1, <1>8 DEF Forsaken, old, q, copy
  <2>2. next[r] = copy[r]
    <3>1. CASE whole
      BY <1>1, <1>2, <1>3, <1>8, <3>1, AppliedWhole
    <3>2. CASE ~whole
      BY <1>1, <1>2, <1>3, <1>8, <2>1, <3>2, AppliedParts
    <3> QED BY <3>1, <3>2
  <2> QED BY <1>1, <1>4, <2>1, <2>2
<1>9. CASE IsPrefix(q, p) /\ top = p /\ found /\ whole /\ p # q
  <2>1. IF IsPrefix(p, r) THEN r = p \/ record[r] = Null ELSE r \notin lost[s]
    BY <1>1, <1>9 DEF Forsaken, old, q, copy
  <2>2. CASE IsPrefix(p, r)
    <3>1. next[r] = IF r = p THEN new ELSE Null
      BY <1>1, <1>2, <1>3, <1>9, <2>2, AppliedWhole
    <3> QED BY <1>1, <1>4, <2>1, <2>2, <3>1
  <2>3. CASE ~IsPrefix(p, r)
    <3>1. r # p
      BY <1>3, <2>3, PrefixOrder
    <3> QED BY <1>1, <1>4, <1>5, <1>9, <2>1, <2>3, <3>1
  <2> QED BY <2>2, <2>3
<1>10. CASE IsPrefix(q, p) /\ top = p /\ found /\ ~whole
  <2>1. r \notin lost[s]
    BY <1>1, <1>10 DEF Forsaken, old, q, copy
  <2>2. r # p => next[r] = copy[r]
    BY <1>1, <1>2, <1>3, <1>10, AppliedParts
  <2>3. copy[p] = old => next[p] = new
    BY <1>1, <1>2, <1>3, <1>10, AppliedParts
  <2> QED BY <1>1, <1>4, <2>1, <2>2, <2>3 DEF old
<1> QED BY <1>6, <1>7, <1>8, <1>9, <1>10

\* A change and what waits.
LEMMA ChangeFresh ==
  ASSUME Inv, NEW p \in Records, NEW new \in Rows, Change(p, new)
  PROVE  WaitingIsFresh' /\ \A i \in DOMAIN waiting' : Named(waiting'[i])
<1> DEFINE old == record[p]
           top == TopEventPath(p)
<1>1. /\ TypeOK /\ old \in Rows /\ old # new /\ record \in [Records -> Rows]
      /\ record' = [record EXCEPT ![p] = new]
  BY DEF Inv, TypeOK, Change
<1>2. Above(p, top) /\ p \in Seq(Keys) /\ IsPrefix(p, p)
  BY <1>1, TopMeaning, PrefixOrder DEF Above
<1> HIDE DEF old, top
<1> SUFFICES ASSUME NEW i \in DOMAIN waiting'
             PROVE  /\ Named(waiting'[i])
                    /\ ~waiting'[i].astray => waiting'[i].new = record'[waiting'[i].path]
  BY DEF WaitingIsFresh
<1>3. PICK w \in LateEvent :
        /\ waiting'[i] = Updated(w, p, top, old, new)
        /\ Named(w)
        /\ \/ \E j \in DOMAIN waiting : w = waiting[j]
           \/ w.path = top /\ w.new = new /\ w.astray = (top # p)
  BY ChangeQueue DEF old, top
<1>4. PICK u : u = Updated(w, p, top, old, new)
  OBVIOUS
<1>5. /\ u \in LateEvent /\ u.sub = w.sub /\ u.path = w.path
      /\ u.astray <=> \/ w.astray
                      \/ new = Null /\ w.path = p
                      \/ top # p /\ OnTrail(p, w.path)
      /\ w.path # p /\ ~u.astray => u.new = w.new
      /\ top = p /\ w.path = p /\ new # Null /\ (w.new = new \/ (w.new = old /\ Heard(p))) =>
           u.new = new
  BY <1>1, <1>2, <1>4, UpdatedMeaning
<1>6. Named(u)
  BY <1>3, <1>5 DEF Named
<1>7. ASSUME ~u.astray
      PROVE  u.new = record'[u.path]
  <2>1. ~w.astray /\ ~(new = Null /\ w.path = p) /\ ~(top # p /\ OnTrail(p, w.path))
    BY <1>5, <1>7
  <2>2. w.path \in Records
    BY DEF LateEvent
  <2>3. CASE w.path = top /\ w.new = new /\ w.astray = (top # p)
    <3>1. top = p /\ w.path = p /\ new # Null
      BY <2>1, <2>3
    <3> QED BY <1>1, <1>5, <2>3, <3>1
  <2>4. CASE \E j \in DOMAIN waiting : w = waiting[j]
    <3>1. PICK j \in DOMAIN waiting : w = waiting[j]
      BY <2>4
    <3>2. w.new = record[w.path]
      BY <2>1, <3>1 DEF Inv, WaitingIsFresh
    <3>3. Heard(w.path)
      BY <3>1 DEF Heard, Listeners
    <3>4. CASE w.path = p
      <4>1. OnTrail(p, w.path)
        BY <1>2, <3>4 DEF OnTrail
      <4>2. w.new = old
        BY <3>2, <3>4 DEF old
      <4> QED BY <1>1, <1>5, <2>1, <3>3, <3>4, <4>1, <4>2
    <3>5. CASE w.path # p
      BY <1>1, <1>5, <1>7, <2>2, <3>2, <3>5
    <3> QED BY <3>4, <3>5
  <2> QED BY <1>3, <2>3, <2>4
<1> QED BY <1>3, <1>4, <1>6, <1>7

\* A change and what was shown.
LEMMA ChangeShown ==
  ASSUME Inv, NEW p \in Records, NEW new \in Rows, Change(p, new)
  PROVE  Announced'
<1> DEFINE old == record[p]
           top == TopEventPath(p)
           events == Triggered(p, top, old, new)
<1>1. /\ TypeOK /\ old \in Rows /\ old # new /\ record \in [Records -> Rows]
      /\ record' = [record EXCEPT ![p] = new] /\ subscribed' = subscribed
  BY DEF Inv, TypeOK, Change
<1>2. Above(p, top) /\ p \in Seq(Keys)
  BY <1>1, TopMeaning DEF Above
<1> SUFFICES ASSUME NEW s \in Viewers
             PROVE  /\ s \notin subscribed => shown'[s] = {}
                    /\ \A e \in shown'[s] :
                         \/ e.astray
                         \/ e.new = Data(record', s.path)
                         \/ \E i \in DOMAIN waiting' : waiting'[i].sub = s
  BY <1>1 DEF Announced
<1> DEFINE now == {d \in events : d.sub = s /\ ~Delayed(d)}
           strays == top # p /\ OnTrail(p, s.path)
<1>3. shown'[s] = IF now # {} THEN now
                  ELSE {[d EXCEPT !.astray = d.astray \/ strays] : d \in shown[s]}
  BY DEF Change
<1> HIDE DEF old, top, events, now
<1>4. s \in Subscriptions /\ s.type = "value" /\ s.path \in Seq(Keys)
  BY EventsAssumption DEF Viewers
<1>5. ASSUME NEW w \in LateEvent, w.sub = s,
             \/ \E j \in DOMAIN waiting : w = waiting[j]
             \/ w \in events /\ Delayed(w)
      PROVE  \E i \in DOMAIN waiting' : waiting'[i].sub = s
  <2>1. PICK i \in DOMAIN waiting' : waiting'[i] = Updated(w, p, top, old, new)
    BY <1>5, ChangeQueue DEF old, top, events
  <2>2. Updated(w, p, top, old, new).sub = s
    BY <1>1, <1>2, <1>5, UpdatedMeaning
  <2> QED BY <2>1, <2>2
<1>6. /\ Held(p, s.path) => /\ Data(record, s.path) = Descend(old, Trail(p, s.path))
                            /\ Data(record', s.path) = Descend(new, Trail(p, s.path))
                            /\ IsPrefix(p, s.path)
      /\ ~Held(p, s.path) => Data(record', s.path) = Data(record, s.path)
  <2>1. PICK rows \in [Records -> Rows] : rows = record
    BY <1>1
  <2>2. PICK later : later = [rows EXCEPT ![p] = new]
    OBVIOUS
  <2>3. /\ Held(p, s.path) => /\ IsPrefix(p, s.path)
                              /\ Data(rows, s.path) = Descend(rows[p], Trail(p, s.path))
                              /\ Data(later, s.path) = Descend(new, Trail(p, s.path))
        /\ ~Held(p, s.path) => Data(later, s.path) = Data(rows, s.path)
    BY <1>4, <2>2, DataMeaning
  <2>4. rows = record /\ later = record'
    BY <1>1, <2>1, <2>2
  <2> QED BY <2>3, <2>4 DEF old
<1>7. ASSUME NEW e \in events
      PROVE  /\ e.astray = (top # p) /\ e.sub \in subscribed
             /\ Held(top, e.path) /\ e.new = Descend(new, Trail(top, e.path))
             /\ Delayed(e) => e \in LateEvent
             /\ e.sub = s => e.path = s.path
  BY <1>1, <1>2, <1>4, TriggeredMeaning DEF events
<1>8. CASE now # {}
  <2>1. s \in subscribed
    BY <1>7, <1>8 DEF now
  <2> SUFFICES ASSUME NEW e \in shown'[s], ~e.astray
               PROVE  e.new = Data(record', s.path)
    BY <2>1
  <2>2. e \in events /\ e.sub = s
    BY <1>3, <1>8 DEF now
  <2>3. top = p /\ Held(p, s.path) /\ e.new = Descend(new, Trail(p, s.path))
    BY <1>7, <2>2
  <2> QED BY <1>6, <2>3
<1>9. CASE now = {}
  <2>1. s \notin subscribed => shown'[s] = {}
    BY <1>3, <1>9 DEF Inv, Announced
  <2>2. ASSUME NEW e \in shown'[s], ~e.astray
        PROVE  \/ e.new = Data(record', s.path)
               \/ \E i \in DOMAIN waiting' : waiting'[i].sub = s
    <3>1. PICK d \in shown[s] : e = [d EXCEPT !.astray = d.astray \/ strays]
      BY <1>3, <1>9
    <3>2. d \in Event /\ s \in subscribed
      BY <1>1 DEF TypeOK, Inv, Announced
    <3>3. e.new = d.new /\ (e.astray <=> d.astray \/ strays)
      BY <3>1, <3>2 DEF Event
    <3>4. ~d.astray /\ ~strays
      BY <2>2, <3>3
    <3>5. \/ d.new = Data(record, s.path)
          \/ \E j \in DOMAIN waiting : waiting[j].sub = s
      BY <3>4 DEF Inv, Announced
    <3>6. ASSUME NEW j \in DOMAIN waiting, waiting[j].sub = s
          PROVE  \E i \in DOMAIN waiting' : waiting'[i].sub = s
      <4>1. waiting[j] \in LateEvent
        BY <1>1 DEF TypeOK
      <4> QED BY <1>5, <3>6, <4>1
    <3>7. ASSUME Data(record', s.path) # Data(record, s.path)
          PROVE  \E i \in DOMAIN waiting' : waiting'[i].sub = s
      <4>1. /\ Held(p, s.path) /\ IsPrefix(p, s.path)
            /\ Descend(old, Trail(p, s.path)) # Descend(new, Trail(p, s.path))
        BY <1>6, <3>7
      <4>2. top = p
        BY <3>4, <4>1 DEF OnTrail
      <4>3. PICK c \in events : c.sub = s
        BY <1>1, <1>2, <3>2, <4>1, <4>2, ValueTriggers DEF events
      <4>4. Delayed(c)
        BY <1>9, <4>3 DEF now
      <4> QED BY <1>5, <1>7, <4>3, <4>4
    <3> QED BY <3>3, <3>5, <3>6, <3>7
  <2> QED BY <2>1, <2>2
<1> QED BY <1>8, <1>9

\* A delivery shows what waited longest.
LEMMA DeliverStep ==
  ASSUME Inv, Deliver
  PROVE  Inv'
<1>1. /\ TypeOK /\ waiting # <<>> /\ waiting \in Seq(LateEvent)
      /\ waiting' = Tail(waiting) /\ record' = record /\ mirror' = mirror /\ lost' = lost
      /\ subscribed' = subscribed
      /\ shown' = [s \in Viewers |-> IF s = Head(waiting).sub /\ s \in subscribed
                                       THEN {Head(waiting)} ELSE shown[s]]
  BY DEF Inv, TypeOK, Deliver
<1> DEFINE h == Head(waiting)
<1>2. /\ h = waiting[1] /\ 1 \in DOMAIN waiting /\ h \in LateEvent
      /\ DOMAIN waiting = 1..Len(waiting) /\ Len(waiting) \in Nat
      /\ Tail(waiting) \in Seq(LateEvent) /\ DOMAIN Tail(waiting) = 1..Len(waiting) - 1
      /\ \A i \in 1..Len(waiting) - 1 : Tail(waiting)[i] = waiting[i + 1]
  BY <1>1
<1> HIDE DEF h
<1>3. \A i \in DOMAIN waiting' : \E j \in DOMAIN waiting : waiting'[i] = waiting[j]
  <2>1. ASSUME NEW i \in DOMAIN waiting'
        PROVE  i + 1 \in DOMAIN waiting /\ waiting'[i] = waiting[i + 1]
    BY <1>1, <1>2
  <2> QED BY <2>1
<1>4. ASSUME NEW j \in DOMAIN waiting, j # 1
      PROVE  \E i \in DOMAIN waiting' : waiting'[i] = waiting[j]
  <2>1. j - 1 \in DOMAIN waiting' /\ waiting'[j - 1] = waiting[j]
    BY <1>1, <1>2, <1>4
  <2> QED BY <2>1
<1>5. TypeOK'
  <2>1. h \in Event
    BY <1>2 DEF LateEvent, Event, Paths, Rows
  <2>2. \A s \in Viewers : \A e \in shown'[s] : e \in Event
    BY <1>1, <2>1 DEF TypeOK, h
  <2> QED BY <1>1, <1>2, <2>2 DEF TypeOK
<1>6. WaitingIsFresh' /\ \A i \in DOMAIN waiting' : Named(waiting'[i])
  BY <1>1, <1>3 DEF Inv, WaitingIsFresh
<1>7. MirrorFollows'
  BY <1>1 DEF Inv, MirrorFollows
<1>8. Announced'
  <2>1. ASSUME NEW s \in Viewers, s \notin subscribed
        PROVE  shown'[s] = {}
    BY <1>1, <2>1 DEF Inv, Announced
  <2> SUFFICES ASSUME NEW s \in Viewers, NEW e \in shown'[s]
               PROVE  \/ e.astray
                      \/ e.new = Data(record, s.path)
                      \/ \E i \in DOMAIN waiting' : waiting'[i].sub = s
    BY <1>1, <2>1 DEF Announced
  <2>2. CASE s = h.sub
    <3>1. e = h
      BY <1>1, <2>1, <2>2 DEF h
    <3>2. h.path \in Records /\ h.path = s.path
      BY <1>2, <2>2 DEF Inv, Named, Viewers, LateEvent
    <3>3. ~h.astray => h.new = record[h.path]
      BY <1>2 DEF Inv, WaitingIsFresh
    <3> QED BY <3>1, <3>2, <3>3 DEF Data
  <2>3. CASE s # h.sub
    <3>1. e \in shown[s]
      BY <1>1, <2>3 DEF h
    <3>2. ASSUME NEW j \in DOMAIN waiting, waiting[j].sub = s
          PROVE  \E i \in DOMAIN waiting' : waiting'[i].sub = s
      <4>1. j # 1
        BY <1>2, <2>3, <3>2
      <4> QED BY <1>4, <3>2, <4>1
    <3> QED BY <3>1, <3>2 DEF Inv, Announced
  <2> QED BY <2>2, <2>3
<1> QED BY <1>5, <1>6, <1>7, <1>8 DEF Inv

\* Who subscribes to mutations gets the node.
LEMMA SubscribeStep ==
  ASSUME Inv, NEW s \in Subscriptions, Subscribe(s)
  PROVE  Inv'
<1> DEFINE copy == Copied(s.path, record)
           differ == {q \in Records : copy[q] # record[q]}
<1>1. /\ TypeOK /\ record' = record /\ waiting' = waiting /\ shown' = shown
      /\ subscribed' = subscribed \cup {s}
      /\ IF s \in Mirrors THEN mirror' = [mirror EXCEPT ![s] = copy] /\ lost' = [lost EXCEPT ![s] = differ]
         ELSE mirror' = mirror /\ lost' = lost
  BY DEF Inv, Subscribe
<1>2. copy \in [Records -> Rows] /\ differ \subseteq Records
  BY <1>1 DEF Copied, TypeOK, Rows
<1>3. \A q \in Records : q \notin differ => copy[q] = record[q]
  OBVIOUS
<1> HIDE DEF copy, differ
<1>4. TypeOK'
  BY <1>1, <1>2 DEF TypeOK
<1>5. MirrorFollows'
  <2> SUFFICES ASSUME NEW m \in Mirrors, m \in subscribed', NEW q \in Records,
                      IsPrefix(m.path, q), q \notin lost'[m]
               PROVE  mirror'[m][q] = record'[q]
    BY DEF MirrorFollows
  <2>1. CASE m = s
    BY <1>1, <1>3, <2>1 DEF TypeOK
  <2>2. CASE m # s
    <3>1. m \in subscribed /\ mirror'[m] = mirror[m] /\ lost'[m] = lost[m]
      BY <1>1, <2>2 DEF TypeOK
    <3> QED BY <1>1, <3>1 DEF Inv, MirrorFollows
  <2> QED BY <2>1, <2>2
<1>6. WaitingIsFresh' /\ Announced' /\ \A i \in DOMAIN waiting' : Named(waiting'[i])
  BY <1>1 DEF Inv, WaitingIsFresh, Announced
<1> QED BY <1>4, <1>5, <1>6 DEF Inv

\* Who stops is shown nothing and keeps no copy.
LEMMA UnsubscribeStep ==
  ASSUME Inv, NEW s \in Subscriptions, Unsubscribe(s)
  PROVE  Inv'
<1>1. /\ TypeOK /\ record' = record /\ waiting' = waiting /\ subscribed' = subscribed \ {s}
      /\ shown' = [v \in Viewers |-> IF v = s THEN {} ELSE shown[v]]
      /\ mirror' = [m \in Mirrors |-> IF m = s THEN [q \in Records |-> Null] ELSE mirror[m]]
      /\ lost' = [m \in Mirrors |-> IF m = s THEN {} ELSE lost[m]]
  BY DEF Inv, Unsubscribe
<1>2. TypeOK'
  BY <1>1 DEF TypeOK, Rows
<1>3. MirrorFollows'
  BY <1>1 DEF Inv, MirrorFollows
<1>4. WaitingIsFresh' /\ \A i \in DOMAIN waiting' : Named(waiting'[i])
  BY <1>1 DEF Inv, WaitingIsFresh
<1>5. Announced'
  BY <1>1 DEF Inv, Announced
<1> QED BY <1>2, <1>3, <1>4, <1>5 DEF Inv

\* Every step keeps the invariant.
LEMMA InvNext ==
  ASSUME Inv, [Next]_vars
  PROVE  Inv'
<1>1. ASSUME NEW p \in Records, NEW new \in Rows, Change(p, new)
      PROVE  Inv'
  BY <1>1, ChangeType, ChangeCopies, ChangeFresh, ChangeShown DEF Inv
<1>2. CASE Deliver
  BY <1>2, DeliverStep
<1>3. CASE UNCHANGED vars
  <2>1. /\ record' = record /\ waiting' = waiting /\ shown' = shown /\ mirror' = mirror
        /\ lost' = lost /\ subscribed' = subscribed
    BY <1>3 DEF vars
  <2>2. TypeOK' /\ WaitingIsFresh' /\ \A i \in DOMAIN waiting' : Named(waiting'[i])
    BY <2>1 DEF Inv, TypeOK, WaitingIsFresh
  <2>3. MirrorFollows' /\ Announced'
    BY <2>1 DEF Inv, MirrorFollows, Announced
  <2> QED BY <2>2, <2>3 DEF Inv
<1>4. ASSUME NEW s \in Subscriptions, Subscribe(s) \/ Unsubscribe(s)
      PROVE  Inv'
  BY <1>4, SubscribeStep, UnsubscribeStep
<1> QED BY <1>1, <1>2, <1>3, <1>4 DEF Next

\* The invariant holds in every reachable state.
LEMMA Invariant == Spec => []Inv
<1>1. Inv /\ [Next]_vars => Inv'
  BY InvNext
<1> QED BY <1>1, InvInit, PTL DEF Spec

(***************************************************************************)
(* Data, copies, delayed events and what was shown are well typed: above   *)
(* all, an event that waits is about a record and carries an object.       *)
(***************************************************************************)
THEOREM TypeCorrect == Spec => []TypeOK
<1>1. Inv => TypeOK
  BY DEF Inv
<1> QED BY <1>1, Invariant, PTL

(***************************************************************************)
(* A copy kept as the documentation of "mutated" does it holds the data of *)
(* every record it has not lost, whoever subscribes where and whatever     *)
(* waits.                                                                  *)
(***************************************************************************)
THEOREM MirrorFollowsHolds == Spec => []MirrorFollows
<1>1. Inv => MirrorFollows
  BY DEF Inv
<1> QED BY <1>1, Invariant, PTL

(***************************************************************************)
(* A delayed event that did not go astray carries the data as it is.       *)
(***************************************************************************)
THEOREM WaitingStaysFresh == Spec => []WaitingIsFresh
<1>1. Inv => WaitingIsFresh
  BY DEF Inv
<1> QED BY <1>1, Invariant, PTL

(***************************************************************************)
(* When nothing waits, the last value shown is the data, at, above or      *)
(* below the record that changed, unless its event went astray.            *)
(***************************************************************************)
THEOREM ShownStaysCurrent == Spec => []ShownIsCurrent
<1>1. Inv => ShownIsCurrent
  BY DEF Inv, Announced, ShownIsCurrent
<1> QED BY <1>1, Invariant, PTL

----------------------------------------------------------------------------
(***************************************************************************)
(* Remote transactions, whose state is apart from that of the events.      *)
(***************************************************************************)
Written(t) == stage[t] \in {"updating", "written", "refused", "failed"}

(***************************************************************************)
(* The inductive invariant.  The map, the timer and the finish request     *)
(* exclude each other: whoever takes the transaction off the map decides   *)
(* it, and finds the promise of transact still open.                       *)
(***************************************************************************)
OneDecides(t) ==
  /\ listed[t] => timer[t] = "armed" /\ finish[t] = "none" /\ stage[t] # "none"
  /\ finish[t] # "none" => timer[t] = "cleared"
  /\ listed[t] /\ Known(t) => stage[t] = "waiting"
  /\ finish[t] = "checking" => stage[t] = "waiting"
  /\ finish[t] = "finishing" => IF sent[t] = "nothing" THEN stage[t] = "cancelled" ELSE Written(t)
  /\ Written(t) => finish[t] # "none"
  /\ stage[t] = "none" => timer[t] = "off" /\ finish[t] = "none"

RouteInv ==
  /\ RouteTypeOK
  /\ \A t \in Transactions :
       /\ OneDecides(t)
       /\ replies[t] \cap {"done", "denied", "error"} # {} => finish[t] = "over"
       /\ "done" \in replies[t] /\ sent[t] # "nothing" => stage[t] \in {"written", "refused"}
       /\ replies[t] \cap {"denied", "error"} # {} => stage[t] \in {"cancelled", "failed"}

\* No transaction has started.
LEMMA RouteInvInit == RouteInit => RouteInv
BY DEF RouteInit, RouteInv, RouteTypeOK, Stages, Payloads, OneDecides, Written, Returned, Known

\* The start request lists the transaction and arms its timer.
LEMMA StartStep == ASSUME RouteInv, NEW t \in Transactions, Start(t) PROVE RouteInv'
BY DEF Start, RouteInv, RouteTypeOK, Stages, Payloads, OneDecides, Written, Returned, Known

\* transact gets the value and calls back.
LEMMA ReadStep == ASSUME RouteInv, NEW t \in Transactions, Read(t) PROVE RouteInv'
BY DEF Read, RouteInv, RouteTypeOK, Stages, Payloads, OneDecides, Written, Returned, Known

\* The callback leaves tx.finish behind and answers.
LEMMA OfferStep == ASSUME RouteInv, NEW t \in Transactions, Offer(t) PROVE RouteInv'
BY DEF Offer, RouteInv, RouteTypeOK, Stages, Payloads, OneDecides, Written, Returned, Known

\* The callback may not show the value.
LEMMA WithholdStep ==
  ASSUME RouteInv, NEW t \in Transactions, Withhold(t)
  PROVE  RouteInv'
BY DEF Withhold, RouteInv, RouteTypeOK, Stages, Payloads, OneDecides, Written, Returned, Known

\* The timer takes the transaction off the map and cancels it.
LEMMA TimeoutStep == ASSUME RouteInv, NEW t \in Transactions, Timeout(t) PROVE RouteInv'
<1>1. stage' \in [Transactions -> Stages]
  BY DEF Timeout, Resolved, RouteInv, RouteTypeOK, Stages
<1> QED BY <1>1 DEF Timeout, Resolved, RouteInv, RouteTypeOK, Stages, Payloads, OneDecides,
                    Written, Returned, Known

\* A finish request finds nothing on the map.
LEMMA FinishGoneStep ==
  ASSUME RouteInv, NEW t \in Transactions, FinishGone(t)
  PROVE  RouteInv'
BY DEF FinishGone, RouteInv, RouteTypeOK, Stages, Payloads, OneDecides, Written, Returned, Known

\* A finish request takes the transaction off the map and clears its timer.
LEMMA FinishStep ==
  ASSUME RouteInv, NEW t \in Transactions, NEW content \in Payloads,
         Finish(t, content)
  PROVE  RouteInv'
BY DEF Finish, RouteInv, RouteTypeOK, Stages, Payloads, OneDecides, Written, Returned, Known

\* A check of the finish request fails.
LEMMA DenyStep == ASSUME RouteInv, NEW t \in Transactions, Deny(t) PROVE RouteInv'
BY DEF Deny, Resolved, RouteInv, RouteTypeOK, Stages, Payloads, OneDecides, Written, Returned, Known

\* The finish request resolves the promise transact waits for.
LEMMA CommitStep == ASSUME RouteInv, NEW t \in Transactions, Commit(t) PROVE RouteInv'
BY DEF Commit, Resolved, RouteInv, RouteTypeOK, Stages, Payloads, OneDecides, Written, Returned, Known

\* transact writes.
LEMMA WriteStep == ASSUME RouteInv, NEW t \in Transactions, Write(t) PROVE RouteInv'
BY DEF Write, RouteInv, RouteTypeOK, Stages, Payloads, OneDecides, Written, Returned, Known

\* The backend refuses the write.
LEMMA WriteRefusedStep ==
  ASSUME RouteInv, NEW t \in Transactions, WriteRefused(t)
  PROVE  RouteInv'
BY DEF WriteRefused, RouteInv, RouteTypeOK, Stages, Payloads, OneDecides, Written, Returned, Known

\* The value is of a type no record holds.
LEMMA WriteThrowsStep ==
  ASSUME RouteInv, NEW t \in Transactions, WriteThrows(t)
  PROVE  RouteInv'
BY DEF WriteThrows, RouteInv, RouteTypeOK, Stages, Payloads, OneDecides, Written, Returned, Known

\* The finish request is answered.
LEMMA ReplyStep == ASSUME RouteInv, NEW t \in Transactions, Reply(t) PROVE RouteInv'
BY DEF Reply, RouteInv, RouteTypeOK, Stages, Payloads, OneDecides, Written, Returned, Known

\* Every step keeps the invariant.
LEMMA RouteInvNext == RouteInv /\ [RouteNext]_routeVars => RouteInv'
<1> SUFFICES ASSUME RouteInv, [RouteNext]_routeVars PROVE RouteInv'
  OBVIOUS
<1>1. CASE UNCHANGED routeVars
  BY <1>1 DEF routeVars, RouteInv, RouteTypeOK, Stages, Payloads, OneDecides, Written, Returned, Known
<1>2. ASSUME NEW t \in Transactions, Server(t) PROVE RouteInv'
  BY <1>2, ReadStep, OfferStep, WithholdStep, DenyStep, CommitStep, WriteStep,
     WriteRefusedStep, WriteThrowsStep, ReplyStep DEF Server
<1>3. ASSUME NEW t \in Transactions, Client(t) PROVE RouteInv'
  BY <1>3, StartStep, FinishGoneStep, FinishStep DEF Client
<1>4. CASE RouteNext
  BY <1>2, <1>3, <1>4, TimeoutStep DEF RouteNext
<1> QED BY <1>1, <1>4

\* The inductive invariant holds in every reachable state.
LEMMA RouteInvariant == RouteSpec => []RouteInv
BY RouteInvInit, RouteInvNext, PTL DEF RouteSpec

(***************************************************************************)
(* The state of the route is well typed, for any number of transactions.   *)
(***************************************************************************)
THEOREM RouteTypeCorrect == RouteSpec => []RouteTypeOK
<1>1. RouteInv => RouteTypeOK
  BY DEF RouteInv
<1> QED BY <1>1, RouteInvariant, PTL

(***************************************************************************)
(* A finish request is answered what became of it: told "done", a value    *)
(* was handed to the storage and is written unless the backend refused it; *)
(* told of an error, nothing of it was written.                            *)
(***************************************************************************)
THEOREM AnswersStayTrue == RouteSpec => []AnswersAreTrue
<1>1. RouteInv => AnswersAreTrue
  BY DEF RouteInv, AnswersAreTrue
<1> QED BY <1>1, RouteInvariant, PTL

(***************************************************************************)
(* A transaction that timed out never writes.                              *)
(***************************************************************************)
THEOREM TimedOutNeverWrites == RouteSpec => []LateNeverWrites
<1>1. RouteInv => LateNeverWrites
  BY DEF RouteInv, RouteTypeOK, OneDecides, Written, LateNeverWrites
<1> QED BY <1>1, RouteInvariant, PTL
=============================================================================
