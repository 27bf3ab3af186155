----------------------------- MODULE MDEProofs -----------------------------
(***************************************************************************)
(* Type correctness of the storage engine and the footprint of its writes, *)
(* for every set of keys, paths, requests and calls in flight; and, for a  *)
(* caller that waits, that the records implement the document.             *)
(***************************************************************************)
EXTENDS MDEImplements, FiniteSetTheorems, WellFoundedInduction, TLAPS

----------------------------------------------------------------------------
(* Paths and requests. *)

\* A path is at or under another one when it agrees with all its keys: the
\* test PathInfo.isAncestorOf makes.
LEMMA UnderMeaning ==
  ASSUME NEW p \in Paths, NEW q \in Paths
  PROVE  Under(p, q) <=> /\ Len(p) <= Len(q)
                         /\ \A i \in 1..Len(p) : p[i] = q[i]
<1>1. /\ p \in Seq(Keys) /\ q \in Seq(Keys)
      /\ Len(p) \in Nat /\ Len(q) \in Nat
  BY PathsAssumption
<1>2. ASSUME Len(p) <= Len(q), \A i \in 1..Len(p) : p[i] = q[i]
      PROVE  SubSeq(p, 1, Len(p)) = SubSeq(q, 1, Len(p))
  BY <1>1, <1>2
<1>3. ASSUME Len(p) <= Len(q), SubSeq(p, 1, Len(p)) = SubSeq(q, 1, Len(p)),
             NEW i \in 1..Len(p)
      PROVE  p[i] = q[i]
  <2>1. SubSeq(p, 1, Len(p))[i] = p[i] /\ SubSeq(q, 1, Len(p))[i] = q[i]
    BY <1>1, <1>3
  <2> QED BY <2>1, <1>3
<1> QED BY <1>2, <1>3 DEF Under, IsPrefix

\* What lies under a path that lies under a third one lies under the third.
LEMMA UnderTransitive ==
  ASSUME NEW p \in Paths, NEW q \in Paths, NEW r \in Paths,
         Under(p, q), Under(q, r)
  PROVE  Under(p, r)
<1>1. Len(p) \in Nat /\ Len(q) \in Nat /\ Len(r) \in Nat
  BY PathsAssumption
<1>2. /\ Len(p) <= Len(q) /\ \A i \in 1..Len(p) : p[i] = q[i]
      /\ Len(q) <= Len(r) /\ \A i \in 1..Len(q) : q[i] = r[i]
  BY UnderMeaning
<1> QED BY <1>1, <1>2, UnderMeaning

\* Every path is under itself and under the root.
LEMMA UnderRoot ==
  ASSUME NEW p \in Paths
  PROVE  <<>> \in Paths /\ Under(p, p) /\ Under(<<>>, p)
<1>1. <<>> \in Paths /\ Len(p) \in Nat /\ Len(<<>>) = 0
  BY PathsAssumption
<1> QED BY <1>1, UnderMeaning

\* A path other than the root lies under its parent.
LEMMA ParentAbove ==
  ASSUME NEW p \in Paths, p # <<>>
  PROVE  /\ Parent(p) \in Paths
         /\ Under(Parent(p), p)
         /\ Last(p) \in Keys
<1>1. p \in Seq(Keys) /\ Len(p) \in Nat /\ Len(p) > 0
  BY PathsAssumption
<1>2. Parent(p) \in Paths
  BY PathsAssumption DEF Parent
<1>3. /\ Len(Parent(p)) = Len(p) - 1
      /\ \A i \in 1..(Len(p) - 1) : Parent(p)[i] = p[i]
  <2>1. Parent(p) = SubSeq(p, 1, Len(p) - 1)
    BY DEF Parent, Front
  <2>2. Len(SubSeq(p, 1, Len(p) - 1)) = Len(p) - 1
    BY <1>1
  <2>3. ASSUME NEW i \in 1..(Len(p) - 1)
        PROVE  SubSeq(p, 1, Len(p) - 1)[i] = p[i]
    BY <1>1
  <2> QED BY <2>1, <2>2, <2>3
<1>4. Last(p) \in Keys
  BY <1>1 DEF Last
<1> QED BY <1>1, <1>2, <1>3, <1>4, UnderMeaning

\* A request writes at its path or, for an atom, one level above it.
LEMMA TargetAbove ==
  ASSUME NEW r \in Requests
  PROVE  /\ r.path \in Paths
         /\ Target(r) \in Paths
         /\ Under(Target(r), r.path)
         /\ Mode(r) \in {"SET", "UPDATE"}
         /\ r.path = <<>> => Target(r) = r.path
<1>1. r.path \in Paths /\ r.mode \in {"SET", "UPDATE"}
  BY DEF Requests
<1>2. r.path = <<>> => Target(r) = r.path
  BY DEF Requests, Target
<1>3. Target(r) \in Paths /\ Under(Target(r), r.path)
  BY <1>1, <1>2, UnderRoot, ParentAbove DEF Target
<1> QED BY <1>1, <1>2, <1>3 DEF Mode

\* The data of a request names nothing off the trail of its path.
LEMMA ContentOnTrail ==
  ASSUME NEW r \in Requests, NEW q \in Paths, Content(r)[q] \notin {None, Null}
  PROVE  OnTrail(q, r.path)
<1>1. /\ r.path \in Paths
      /\ r.value \in [Paths -> JsonValues]
      /\ r.value[q] # None => Under(r.path, q)
  BY DEF Requests, IsDataAt
<1>2. CASE r.value[r.path] \in Containers
  BY <1>1, <1>2 DEF Content, OnTrail
<1>3. CASE r.value[r.path] \notin Containers
  <2>1. r.path # <<>>
    BY <1>3 DEF Requests
  <2>2. CASE q = Parent(r.path)
    BY <1>1, <2>1, <2>2, ParentAbove DEF OnTrail
  <2>3. CASE q # Parent(r.path)
    BY <1>1, <1>3, <2>3 DEF Content, Asked, OnTrail
  <2> QED BY <2>2, <2>3
<1> QED BY <1>2, <1>3

\* The data of a request keeps the type of a value at every path.
LEMMA ContentType ==
  ASSUME NEW r \in Requests
  PROVE  Content(r) \in [Paths -> JsonValues]
<1>1. r.value \in [Paths -> JsonValues]
  BY DEF Requests
<1>2. KindAbove(r.path) \in JsonValues
  BY DEF KindAbove, KindOfKey, JsonValues, Containers
<1>3. Asked(r) \in [Paths -> JsonValues]
  BY <1>1, <1>2 DEF Asked
<1> QED BY <1>1, <1>3 DEF Content, JsonValues

----------------------------------------------------------------------------
(***************************************************************************)
(* The inductive invariant: a call in flight holds records, jobs,          *)
(* ancestors to visit and writes on the trail of its path only.            *)
(***************************************************************************)
OnCourse(c) ==
  /\ c.request \in Writes
  /\ \A q \in Paths : Has(c.tree, q) => OnTrail(q, c.request.path)
  /\ \A job \in c.todo : OnTrail(job.path, c.request.path)
  /\ \A a \in c.verify : Under(a, c.request.path)
  /\ \A i \in 1..Len(c.out) : OnTrail(c.out[i].path, c.request.path)

\* A slot without a call has nothing left to write.
Sound(c) == IF c.pc = "idle" THEN c.out = <<>> ELSE OnCourse(c)

Inv == TypeOK /\ \A o \in Ops : Sound(op[o])

----------------------------------------------------------------------------
(* Records and trees. *)

LEMMA NoneIsNoKind == None \notin Containers /\ None # Str /\ Str \notin Containers
BY DEF None, Containers, Obj, Arr, Str

LEMMA NoTreeType == NoTree \in Tree /\ NoRecord \in Record /\ \A q \in Paths : ~Has(NoTree, q)
BY DEF NoTree, NoRecord, Tree, Record, EmptyInline, InlineValues, Has

LEMMA ContainerType ==
  ASSUME NEW kind \in Containers, NEW inline \in [Keys -> InlineValues]
  PROVE  Container(kind, inline) \in Record /\ Container(kind, inline).kind = kind
BY DEF Container, Record

LEMMA TextType ==
  ASSUME NEW t \in Long
  PROVE  Text(t) \in Record /\ Text(t).kind = Str
BY DEF Text, Record, EmptyInline, InlineValues

LEMMA LoadedType ==
  ASSUME NEW s \in Tree, NEW p \in Paths
  PROVE  /\ Loaded(s, p) \in Tree
         /\ \A q \in Paths : Has(Loaded(s, p), q) => OnTrail(q, p)
<1>1. Loaded(s, p) \in Tree
  BY NoTreeType DEF Loaded, Tree
<1>2. ASSUME NEW q \in Paths, Has(Loaded(s, p), q)
      PROVE  OnTrail(q, p)
  BY <1>2, NoTreeType DEF Loaded, Has, NoRecord
<1> QED BY <1>1, <1>2

LEMMA VerifiedType ==
  ASSUME NEW t \in Tree, NEW a \in Paths
  PROVE  /\ Verified(t, a) \in Tree
         /\ \A q \in Paths : Has(Verified(t, a), q) => Has(t, q) \/ q = a
         /\ VerifyPuts(t, a) \in Seq(Put)
         /\ \A i \in 1..Len(VerifyPuts(t, a)) : VerifyPuts(t, a)[i].path = a
<1> DEFINE new == Container(CreatedKind(a), EmptyInline)
<1>1. CreatedKind(a) \in Containers
  BY DEF CreatedKind, KindOfKey, Containers
<1>2. EmptyInline \in [Keys -> InlineValues]
  BY DEF EmptyInline, InlineValues
<1>3. new \in Record
  BY <1>1, <1>2, ContainerType
<1>4. /\ Verified(t, a) \in Tree
      /\ \A q \in Paths : Has(Verified(t, a), q) => Has(t, q) \/ q = a
      /\ Verified(t, a)[a] \in Record
  <2> HIDE DEF new
  <2>1. Verified(t, a) = IF Has(t, a) THEN t ELSE [t EXCEPT ![a] = new]
    BY DEF Verified, new
  <2> QED BY <1>3, <2>1 DEF Tree, Has
<1>5. CASE Has(t, a)
  BY <1>5, <1>4 DEF VerifyPuts
<1>6. CASE ~Has(t, a)
  <2> DEFINE put == [path |-> a, record |-> Verified(t, a)[a]]
  <2>1. put \in Put /\ put.path = a
    BY <1>4 DEF Put
  <2>2. VerifyPuts(t, a) = <<put>>
    BY <1>6 DEF VerifyPuts
  <2> HIDE DEF put
  <2> QED BY <1>4, <2>1, <2>2
<1> QED BY <1>5, <1>6

LEMMA ParentFixedType ==
  ASSUME NEW t \in Tree, NEW q \in Paths
  PROVE  /\ ParentFixed(t, q) \in Tree
         /\ \A p \in Paths : Has(ParentFixed(t, q), p) <=> Has(t, p)
         /\ ParentPuts(t, q) \in Seq(Put)
         /\ \A i \in 1..Len(ParentPuts(t, q)) :
              /\ ParentPuts(t, q)[i].path = Parent(q)
              /\ Has(t, Parent(q))
              /\ Parent(q) \in Paths
<1>1. CASE InlineAt(t, q) = None
  BY <1>1 DEF ParentFixed, ParentPuts
<1>2. CASE InlineAt(t, q) # None
  <2>1. q # <<>> /\ IsContainer(t, Parent(q))
    BY <1>2 DEF InlineAt
  <2>2. Parent(q) \in Paths /\ Last(q) \in Keys
    BY <2>1, ParentAbove
  <2>3. Has(t, Parent(q))
    BY <2>1, NoneIsNoKind DEF Has, IsContainer
  <2> DEFINE old == t[Parent(q)]
             new == [old EXCEPT !.inline = [old.inline EXCEPT ![Last(q)] = None]]
  <2>4. old \in Record
    BY <2>2 DEF Tree
  <2>5. new \in Record /\ new.kind = old.kind
    BY <2>2, <2>4 DEF Record, InlineValues
  <2>6. ParentFixed(t, q) = [t EXCEPT ![Parent(q)] = new]
    BY <1>2 DEF ParentFixed
  <2>7. /\ ParentFixed(t, q) \in Tree
        /\ \A p \in Paths : Has(ParentFixed(t, q), p) <=> Has(t, p)
        /\ ParentFixed(t, q)[Parent(q)] \in Record
    <3> HIDE DEF new
    <3> QED BY <2>2, <2>5, <2>6 DEF Tree, Has, old
  <2> DEFINE put == [path |-> Parent(q), record |-> ParentFixed(t, q)[Parent(q)]]
  <2>8. put \in Put /\ put.path = Parent(q)
    BY <2>2, <2>7 DEF Put
  <2>9. ParentPuts(t, q) = <<put>>
    BY <1>2 DEF ParentPuts
  <2> HIDE DEF put
  <2> QED BY <2>2, <2>3, <2>7, <2>8, <2>9
<1> QED BY <1>1, <1>2

LEMMA NewInlineType ==
  ASSUME NEW t \in Tree, NEW mode, NEW q \in Paths, NEW w \in [Paths -> JsonValues]
  PROVE  NewInline(t, mode, q, w) \in [Keys -> InlineValues]
<1> DEFINE base == IF Has(t, q) /\ ModeAt(t, mode, q, w) = "UPDATE"
                     THEN t[q].inline ELSE EmptyInline
<1>1. base \in [Keys -> InlineValues]
  BY DEF Tree, Record, EmptyInline, InlineValues
<1>2. ASSUME NEW k \in Keys, Append(q, k) \in Paths, FitsInline(w, Append(q, k)),
             w[Append(q, k)] # Null
      PROVE  w[Append(q, k)] \in InlineValues
  BY <1>2 DEF FitsInline, InlineValues
<1>3. None \in InlineValues
  BY DEF InlineValues
<1> HIDE DEF base
<1>4. NewInline(t, mode, q, w) =
        [k \in Keys |->
           IF Append(q, k) \notin Paths \/ w[Append(q, k)] = None THEN base[k]
           ELSE IF ~FitsInline(w, Append(q, k)) \/ w[Append(q, k)] = Null THEN None
           ELSE w[Append(q, k)]]
  BY DEF NewInline, base
<1> QED BY <1>1, <1>2, <1>3, <1>4

LEMMA RemovedWithHeld ==
  ASSUME NEW t, NEW c \in Paths, NEW q \in RemovedWith(t, c)
  PROVE  q \in Paths /\ Has(t, q)
<1>1. q \in Paths /\ Under(c, q)
  BY DEF RemovedWith
<1>2. q \in Between(c, q)
  BY <1>1, UnderRoot DEF Between
<1> QED BY <1>1, <1>2 DEF RemovedWith

LEMMA DroppedHeld ==
  ASSUME NEW t, NEW mode, NEW q \in Paths, NEW w
  PROVE  /\ \A p \in Dropped(t, mode, q, w) : p \in Paths /\ Has(t, p)
         /\ \A p \in DroppedByText(t, q) : p \in Paths /\ Has(t, p)
<1>1. \A c \in Children(q) : c \in Paths
  BY DEF Children
<1>2. \A p \in Dropped(t, mode, q, w) : \E c \in Paths : p \in RemovedWith(t, c)
  BY <1>1 DEF Dropped
<1>3. \A p \in DroppedByText(t, q) : \E c \in Paths : p \in RemovedWith(t, c)
  BY <1>1 DEF DroppedByText
<1> QED BY <1>2, <1>3, RemovedWithHeld

LEMMA RemovePutsType ==
  ASSUME NEW S, S \subseteq Paths, NEW f \in Descents(S)
  PROVE  /\ RemovePuts(f) \in Seq(Put)
         /\ \A i \in 1..Len(RemovePuts(f)) : RemovePuts(f)[i].path \in S
<1>1. Cardinality(S) \in Nat
  BY PathsAssumption, FS_Subset, FS_CardinalityType
<1>2. f \in [1..Cardinality(S) -> S]
  BY DEF Descents
<1>3. \A i \in 1..Cardinality(S) : [path |-> f[i], record |-> NoRecord] \in Put
  BY <1>2, NoTreeType DEF Put
<1>4. RemovePuts(f) = [i \in 1..Cardinality(S) |-> [path |-> f[i], record |-> NoRecord]]
  BY <1>2 DEF RemovePuts
<1>5. RemovePuts(f) \in [1..Cardinality(S) -> Put]
  BY <1>3, <1>4
<1>6. RemovePuts(f) \in Seq(Put) /\ Len(RemovePuts(f)) = Cardinality(S)
  BY <1>1, <1>5
<1>7. ASSUME NEW i \in 1..Cardinality(S)
      PROVE  RemovePuts(f)[i].path \in S
  <2>1. RemovePuts(f)[i] = [path |-> f[i], record |-> NoRecord]
    BY <1>4
  <2>2. f[i] \in S
    BY <1>2
  <2> QED BY <2>1, <2>2
<1> QED BY <1>6, <1>7

LEMMA EmittedType ==
  ASSUME NEW t, NEW q \in Paths, NEW r \in Record
  PROVE  /\ Emitted(t, q, r) \in Seq(Put)
         /\ \A i \in 1..Len(Emitted(t, q, r)) : Emitted(t, q, r)[i].path = q
<1> DEFINE put == [path |-> q, record |-> r]
<1>1. put \in Put /\ put.path = q
  BY DEF Put
<1>2. Emitted(t, q, r) = <<>> \/ Emitted(t, q, r) = <<put>>
  BY DEF Emitted
<1> HIDE DEF put
<1>3. CASE Emitted(t, q, r) = <<>>
  BY <1>3
<1>4. CASE Emitted(t, q, r) = <<put>>
  BY <1>1, <1>4
<1> QED BY <1>2, <1>3, <1>4

LEMMA ClearedType ==
  ASSUME NEW t \in Tree, NEW S, NEW q \in Paths, NEW r \in Record
  PROVE  LET new == [Cleared(t, S) EXCEPT ![q] = r]
         IN new \in Tree /\ \A p \in Paths : Has(new, p) => Has(t, p) \/ p = q
<1>1. Cleared(t, S) \in Tree
  BY NoTreeType DEF Cleared, Tree
<1>2. \A p \in Paths : Has(Cleared(t, S), p) => Has(t, p)
  BY NoTreeType DEF Cleared, Has, NoRecord
<1> QED BY <1>1, <1>2 DEF Tree, Has

\* A concatenation keeps what all its parts have in common.
LEMMA ConcatOnTrail ==
  ASSUME NEW p, NEW s1 \in Seq(Put), NEW s2 \in Seq(Put),
         \A i \in 1..Len(s1) : OnTrail(s1[i].path, p),
         \A i \in 1..Len(s2) : OnTrail(s2[i].path, p)
  PROVE  /\ s1 \o s2 \in Seq(Put)
         /\ \A i \in 1..Len(s1 \o s2) : OnTrail((s1 \o s2)[i].path, p)
<1>1. /\ s1 \o s2 \in Seq(Put)
      /\ Len(s1) \in Nat /\ Len(s2) \in Nat
      /\ Len(s1 \o s2) = Len(s1) + Len(s2)
  OBVIOUS
<1>2. ASSUME NEW i \in 1..Len(s1 \o s2)
      PROVE  OnTrail((s1 \o s2)[i].path, p)
  <2>1. CASE i <= Len(s1)
    <3>1. (s1 \o s2)[i] = s1[i] /\ i \in 1..Len(s1)
      BY <1>1, <2>1
    <3> QED BY <3>1
  <2>2. CASE i > Len(s1)
    <3>1. (s1 \o s2)[i] = s2[i - Len(s1)] /\ i - Len(s1) \in 1..Len(s2)
      BY <1>1, <2>2
    <3> QED BY <3>1
  <2> QED BY <1>1, <2>1, <2>2
<1> QED BY <1>1, <1>2

----------------------------------------------------------------------------
(* The invariant. *)

LEMMA IdleType == Idle \in Call
BY NoTreeType DEF Idle, Call

LEMMA InvInit == Init => Inv
BY NoTreeType, IdleType DEF Init, Inv, TypeOK, Sound, Idle

\* What a step of one call has to show.
LEMMA OneCall ==
  ASSUME Inv, NEW o \in Ops, NEW c \in Call, Sound(c),
         store' \in Tree, op' = [op EXCEPT ![o] = c]
  PROVE  Inv'
<1>1. op \in [Ops -> Call]
  BY DEF Inv, TypeOK
<1>2. TypeOK'
  BY <1>1 DEF TypeOK
<1>3. ASSUME NEW d \in Ops
      PROVE  Sound(op[d])'
  <2>1. CASE d = o
    <3>1. op'[d] = c
      BY <1>1, <2>1
    <3> QED BY <3>1 DEF Sound, OnCourse
  <2>2. CASE d # o
    <3>1. op'[d] = op[d]
      BY <1>1, <2>2
    <3> QED BY <3>1 DEF Inv, Sound, OnCourse
  <2> QED BY <2>1, <2>2
<1> QED BY <1>2, <1>3 DEF Inv

\* What is known of a call in flight.
LEMMA InFlight ==
  ASSUME Inv, NEW o \in Ops, Busy(o)
  PROVE  /\ op[o] \in Call
         /\ op[o].tree \in Tree /\ op[o].out \in Seq(Put)
         /\ op[o].todo \subseteq Job /\ op[o].verify \subseteq Paths
         /\ op[o].request \in Requests
         /\ OnCourse(op[o])
<1>1. op[o] \in Call /\ OnCourse(op[o])
  BY DEF Inv, TypeOK, Sound, Busy
<1> QED BY <1>1, MDEAssumption DEF Call, OnCourse

LEMMA VerifyStep ==
  ASSUME Inv, NEW o \in Ops, VerifyParent(o)
  PROVE  Inv'
<1>1. Busy(o)
  BY DEF VerifyParent, Busy
<1>2. PICK a \in op[o].verify :
        op' = [op EXCEPT ![o].verify = @ \ {a},
                         ![o].tree = Verified(@, a),
                         ![o].out = @ \o VerifyPuts(op[o].tree, a)]
  BY DEF VerifyParent
<1> DEFINE t == op[o].tree
           p == op[o].request.path
           more == VerifyPuts(t, a)
           c == [op[o] EXCEPT !.verify = @ \ {a}, !.tree = Verified(t, a), !.out = @ \o more]
<1>3. /\ t \in Tree /\ a \in Paths /\ p \in Paths /\ op[o].out \in Seq(Put)
      /\ OnTrail(a, p)
  BY <1>1, <1>2, InFlight, TargetAbove DEF OnCourse, OnTrail
<1>4. /\ more \in Seq(Put)
      /\ \A i \in 1..Len(more) : OnTrail(more[i].path, p)
  BY <1>3, VerifiedType
<1>5. /\ op[o].out \o more \in Seq(Put)
      /\ \A i \in 1..Len(op[o].out \o more) : OnTrail((op[o].out \o more)[i].path, p)
  <2>1. \A i \in 1..Len(op[o].out) : OnTrail(op[o].out[i].path, p)
    BY <1>1, InFlight DEF OnCourse
  <2> HIDE DEF more, p
  <2> QED BY <1>3, <1>4, <2>1, ConcatOnTrail
<1>6. /\ Verified(t, a) \in Tree
      /\ \A q \in Paths : Has(Verified(t, a), q) => OnTrail(q, p)
  BY <1>1, <1>3, VerifiedType, InFlight DEF OnCourse
<1>7. c \in Call
  BY <1>1, <1>5, <1>6, InFlight DEF Call
<1>8. Sound(c)
  <2>1. /\ c.pc = op[o].pc /\ c.request = op[o].request /\ c.tree = Verified(t, a)
        /\ c.todo = op[o].todo /\ c.verify = op[o].verify \ {a}
        /\ c.out = op[o].out \o more
    BY <1>1, InFlight DEF Call
  <2> QED BY <1>1, <1>5, <1>6, <2>1, InFlight DEF Sound, OnCourse, Busy
<1>9. op' = [op EXCEPT ![o] = c]
  BY <1>2 DEF Inv, TypeOK
<1>10. store' \in Tree
  BY DEF VerifyParent, Inv, TypeOK
<1> HIDE DEF c
<1> QED BY <1>7, <1>8, <1>9, <1>10, OneCall

\* A call that restructured its tree: what the two kinds of destructure
\* have to show.
LEMMA Restructured ==
  ASSUME Inv, NEW o \in Ops, Busy(o), UNCHANGED store,
         NEW tree \in Tree, NEW more \in Seq(Put), NEW todo \in SUBSET Job,
         \A q \in Paths : Has(tree, q) => OnTrail(q, op[o].request.path),
         \A i \in 1..Len(more) : OnTrail(more[i].path, op[o].request.path),
         \A job \in todo : OnTrail(job.path, op[o].request.path),
         op' = [op EXCEPT ![o].tree = tree, ![o].out = @ \o more, ![o].todo = todo]
  PROVE  Inv'
<1> DEFINE p == op[o].request.path
           c == [op[o] EXCEPT !.tree = tree, !.out = @ \o more, !.todo = todo]
<1>1. /\ op[o].out \o more \in Seq(Put)
      /\ \A i \in 1..Len(op[o].out \o more) : OnTrail((op[o].out \o more)[i].path, p)
  <2>1. /\ op[o].out \in Seq(Put)
        /\ \A i \in 1..Len(op[o].out) : OnTrail(op[o].out[i].path, p)
    BY InFlight DEF OnCourse
  <2> QED BY <2>1, ConcatOnTrail
<1>2. c \in Call
  BY <1>1, InFlight DEF Call
<1>3. Sound(c)
  <2>1. /\ c.pc = op[o].pc /\ c.request = op[o].request /\ c.tree = tree /\ c.todo = todo
        /\ c.verify = op[o].verify /\ c.out = op[o].out \o more
    BY InFlight DEF Call
  <2> QED BY <1>1, <2>1, InFlight DEF Sound, OnCourse, Busy
<1>4. op' = [op EXCEPT ![o] = c]
  BY DEF Inv, TypeOK
<1>5. store' \in Tree
  BY DEF Inv, TypeOK
<1> HIDE DEF c
<1> QED BY <1>2, <1>3, <1>4, <1>5, OneCall

LEMMA DestructureNodeStep ==
  ASSUME Inv, NEW o \in Ops, op[o].pc = "run", NEW job \in op[o].todo,
         DestructureNode(o, job), UNCHANGED store
  PROVE  Inv'
<1> DEFINE r == op[o].request
           w == Content(r)
           q == job.path
           t == op[o].tree
           fixed == IF Wrapped(r, q) THEN t ELSE ParentFixed(t, q)
           above == IF Wrapped(r, q) THEN <<>> ELSE ParentPuts(t, q)
           dropped == Dropped(fixed, job.mode, q, w)
           record == Container(w[q], NewInline(fixed, job.mode, q, w))
           nested == [path : Dedicated(w, q), mode : {ModeAt(t, job.mode, q, w)}]
           tree == [Cleared(fixed, dropped) EXCEPT ![q] = record]
           todo == (op[o].todo \ {job}) \cup nested
<1>1. Busy(o)
  BY DEF Busy
<1>2. /\ t \in Tree /\ r \in Requests /\ w \in [Paths -> JsonValues]
      /\ q \in Paths /\ job.mode \in {"SET", "UPDATE"}
      /\ OnTrail(q, r.path) /\ r.path \in Paths
      /\ \A p \in Paths : Has(t, p) => OnTrail(p, r.path)
  BY <1>1, InFlight, ContentType, TargetAbove DEF OnCourse, Job
<1>3. w[q] \in Containers
  BY DEF DestructureNode
<1>4. PICK f \in Descents(dropped) :
        op' = [op EXCEPT ![o].tree = tree,
                         ![o].out = @ \o above \o RemovePuts(f) \o Emitted(fixed, q, record),
                         ![o].todo = (@ \ {job}) \cup nested]
  BY DEF DestructureNode
<1>5. /\ fixed \in Tree
      /\ \A p \in Paths : Has(fixed, p) => OnTrail(p, r.path)
  BY <1>2, ParentFixedType
<1>6. /\ above \in Seq(Put)
      /\ \A i \in 1..Len(above) : OnTrail(above[i].path, r.path)
  <2>1. CASE Wrapped(r, q)
    BY <2>1
  <2>2. CASE ~Wrapped(r, q)
    BY <1>2, <2>2, ParentFixedType
  <2> QED BY <2>1, <2>2
<1>7. record \in Record
  BY <1>2, <1>3, <1>5, NewInlineType, ContainerType
<1>8. dropped \subseteq Paths /\ \A p \in dropped : OnTrail(p, r.path)
  <2> HIDE DEF fixed, w, q, r
  <2> QED BY <1>2, <1>5, DroppedHeld
<1>9. /\ RemovePuts(f) \in Seq(Put)
      /\ \A i \in 1..Len(RemovePuts(f)) : OnTrail(RemovePuts(f)[i].path, r.path)
  <2> HIDE DEF dropped, r
  <2> QED BY <1>4, <1>8, RemovePutsType
<1>10. /\ Emitted(fixed, q, record) \in Seq(Put)
       /\ \A i \in 1..Len(Emitted(fixed, q, record)) :
            OnTrail(Emitted(fixed, q, record)[i].path, r.path)
  <2> HIDE DEF fixed, q, record, r
  <2> QED BY <1>2, <1>7, EmittedType
<1> DEFINE puts == (above \o RemovePuts(f)) \o Emitted(fixed, q, record)
<1>11. /\ puts \in Seq(Put)
       /\ \A i \in 1..Len(puts) : OnTrail(puts[i].path, r.path)
  <2> DEFINE removes == RemovePuts(f)
             emitted == Emitted(fixed, q, record)
             p == r.path
  <2>1. /\ removes \in Seq(Put) /\ \A i \in 1..Len(removes) : OnTrail(removes[i].path, p)
        /\ emitted \in Seq(Put) /\ \A i \in 1..Len(emitted) : OnTrail(emitted[i].path, p)
        /\ above \in Seq(Put) /\ \A i \in 1..Len(above) : OnTrail(above[i].path, p)
    BY <1>6, <1>9, <1>10
  <2>2. puts = (above \o removes) \o emitted
    OBVIOUS
  <2> HIDE DEF above, removes, emitted, p, puts
  <2>3. /\ above \o removes \in Seq(Put)
        /\ \A i \in 1..Len(above \o removes) : OnTrail((above \o removes)[i].path, p)
    BY <2>1, ConcatOnTrail
  <2>4. /\ puts \in Seq(Put) /\ \A i \in 1..Len(puts) : OnTrail(puts[i].path, p)
    BY <2>1, <2>2, <2>3, ConcatOnTrail
  <2> QED BY <2>4 DEF p
<1>12. /\ tree \in Tree
       /\ \A p \in Paths : Has(tree, p) => OnTrail(p, r.path)
  <2> HIDE DEF fixed, q, record, r, dropped
  <2> QED BY <1>2, <1>5, <1>7, ClearedType
<1>13. /\ todo \in SUBSET Job
       /\ \A j \in todo : OnTrail(j.path, r.path)
  <2>1. \A c \in Dedicated(w, q) : c \in Paths /\ w[c] \notin {None, Null}
    BY DEF Dedicated, Children, FitsInline
  <2>2. ModeAt(t, job.mode, q, w) \in {"SET", "UPDATE"}
    BY <1>2 DEF ModeAt
  <2>3. nested \in SUBSET Job
    BY <2>1, <2>2 DEF Job
  <2>4. \A j \in nested : OnTrail(j.path, r.path)
    BY <1>2, <2>1, ContentOnTrail
  <2>5. /\ op[o].todo \in SUBSET Job
        /\ \A j \in op[o].todo : OnTrail(j.path, r.path)
    BY <1>1, InFlight DEF OnCourse
  <2> HIDE DEF nested, r
  <2> QED BY <2>3, <2>4, <2>5
<1>14. op' = [op EXCEPT ![o].tree = tree, ![o].out = @ \o puts, ![o].todo = todo]
  <2> DEFINE removes == RemovePuts(f)
             emitted == Emitted(fixed, q, record)
             out == op[o].out
  <2>1. /\ out \in Seq(Put) /\ above \in Seq(Put)
        /\ removes \in Seq(Put) /\ emitted \in Seq(Put)
    BY <1>1, <1>6, <1>9, <1>10, InFlight
  <2>2. ((out \o above) \o removes) \o emitted = out \o ((above \o removes) \o emitted)
    <3> HIDE DEF out, above, removes, emitted
    <3> QED BY <2>1
  <2>3. op' = [op EXCEPT ![o].tree = tree,
                         ![o].out = ((out \o above) \o removes) \o emitted,
                         ![o].todo = todo]
    <3> HIDE DEF tree, above, removes, emitted, nested
    <3> QED BY <1>4 DEF Inv, TypeOK, removes, emitted
  <2>4. op' = [op EXCEPT ![o].tree = tree,
                         ![o].out = out \o ((above \o removes) \o emitted),
                         ![o].todo = todo]
    <3> HIDE DEF out, above, removes, emitted, tree, todo
    <3> QED BY <2>2, <2>3
  <2> HIDE DEF tree, above, todo, removes, emitted
  <2> QED BY <2>4 DEF Inv, TypeOK, removes, emitted
<1> HIDE DEF tree, puts, todo
<1> QED BY <1>1, <1>11, <1>12, <1>13, <1>14, Restructured

LEMMA DestructureTextStep ==
  ASSUME Inv, NEW o \in Ops, op[o].pc = "run", NEW job \in op[o].todo,
         DestructureText(o, job), UNCHANGED store
  PROVE  Inv'
<1> DEFINE r == op[o].request
           q == job.path
           t == op[o].tree
           record == Text(Content(r)[q])
           dropped == DroppedByText(t, q)
           tree == [Cleared(t, dropped) EXCEPT ![q] = record]
           emitted == Emitted(t, q, record)
           todo == op[o].todo \ {job}
<1>1. Busy(o)
  BY DEF Busy
<1>2. /\ t \in Tree /\ q \in Paths /\ OnTrail(q, r.path)
      /\ \A p \in Paths : Has(t, p) => OnTrail(p, r.path)
  BY <1>1, InFlight DEF OnCourse, Job
<1>3. record \in Record
  <2>1. Content(r)[q] \in Long
    BY DEF DestructureText, Text
  <2> QED BY <2>1, TextType
<1>4. PICK f \in Descents(dropped) :
        op' = [op EXCEPT ![o].tree = tree,
                         ![o].out = @ \o RemovePuts(f) \o emitted,
                         ![o].todo = @ \ {job}]
  BY DEF DestructureText
<1> DEFINE removes == RemovePuts(f)
<1>5. dropped \subseteq Paths /\ \A p \in dropped : OnTrail(p, r.path)
  <2> HIDE DEF t, q, r
  <2> QED BY <1>2, DroppedHeld
<1>6. /\ removes \in Seq(Put)
      /\ \A i \in 1..Len(removes) : OnTrail(removes[i].path, r.path)
  <2> HIDE DEF dropped, r
  <2> QED BY <1>4, <1>5, RemovePutsType
<1>7. /\ emitted \in Seq(Put)
      /\ \A i \in 1..Len(emitted) : OnTrail(emitted[i].path, r.path)
  <2> HIDE DEF t, q, record, r
  <2> QED BY <1>2, <1>3, EmittedType
<1>8. /\ removes \o emitted \in Seq(Put)
      /\ \A i \in 1..Len(removes \o emitted) : OnTrail((removes \o emitted)[i].path, r.path)
  <2> HIDE DEF removes, emitted, r
  <2> QED BY <1>6, <1>7, ConcatOnTrail
<1>9. /\ tree \in Tree
      /\ \A p \in Paths : Has(tree, p) => OnTrail(p, r.path)
  <2> HIDE DEF t, q, record, r, dropped
  <2> QED BY <1>2, <1>3, ClearedType
<1>10. todo \in SUBSET Job /\ \A j \in todo : OnTrail(j.path, r.path)
  BY <1>1, InFlight DEF OnCourse
<1>11. op' = [op EXCEPT ![o].tree = tree, ![o].out = @ \o (removes \o emitted), ![o].todo = todo]
  <2> DEFINE out == op[o].out
  <2>1. out \in Seq(Put)
    BY <1>1, InFlight
  <2>2. (out \o removes) \o emitted = out \o (removes \o emitted)
    <3> HIDE DEF out, removes, emitted
    <3> QED BY <1>6, <1>7, <2>1
  <2>3. op' = [op EXCEPT ![o].tree = tree, ![o].out = (out \o removes) \o emitted, ![o].todo = todo]
    <3> HIDE DEF tree, emitted, removes
    <3> QED BY <1>4 DEF Inv, TypeOK, removes
  <2>4. op' = [op EXCEPT ![o].tree = tree, ![o].out = out \o (removes \o emitted), ![o].todo = todo]
    <3> HIDE DEF out, removes, emitted, tree, todo
    <3> QED BY <2>2, <2>3
  <2> HIDE DEF tree, removes, emitted, todo
  <2> QED BY <2>4 DEF Inv, TypeOK
<1> HIDE DEF tree, removes, emitted, todo
<1> QED BY <1>1, <1>8, <1>9, <1>10, <1>11, Restructured

\* A call without the oldest write of its queue.
LEMMA DequeuedCall ==
  ASSUME Inv, NEW o \in Ops, op[o].out # <<>>
  PROVE  [op[o] EXCEPT !.out = Tail(@)] \in Call /\ Sound([op[o] EXCEPT !.out = Tail(@)])
<1> DEFINE c == [op[o] EXCEPT !.out = Tail(@)]
<1>1. op[o] \in Call /\ op[o].out \in Seq(Put)
  BY DEF Inv, TypeOK, Call
<1>2. /\ Tail(op[o].out) \in Seq(Put)
      /\ \A i \in 1..Len(Tail(op[o].out)) :
           i + 1 \in 1..Len(op[o].out) /\ Tail(op[o].out)[i] = op[o].out[i + 1]
  BY <1>1
<1>3. c \in Call
  BY <1>1, <1>2 DEF Call
<1>4. Sound(c)
  <2>1. /\ c.pc = op[o].pc /\ c.request = op[o].request /\ c.tree = op[o].tree
        /\ c.todo = op[o].todo /\ c.verify = op[o].verify /\ c.out = Tail(op[o].out)
    BY <1>1 DEF Call
  <2> QED BY <1>2, <2>1 DEF Inv, Sound, OnCourse
<1> QED BY <1>3, <1>4

\* A call whose oldest write is taken from the queue.
LEMMA Dequeued ==
  ASSUME Inv, NEW o \in Ops, op[o].out # <<>>, store' \in Tree,
         op' = [op EXCEPT ![o].out = Tail(@)]
  PROVE  Inv'
<1> DEFINE c == [op[o] EXCEPT !.out = Tail(@)]
<1>1. c \in Call /\ Sound(c)
  BY DequeuedCall
<1>2. op' = [op EXCEPT ![o] = c]
  BY DEF Inv, TypeOK
<1> HIDE DEF c
<1> QED BY <1>1, <1>2, OneCall

LEMMA ApplyStep ==
  ASSUME Inv, NEW o \in Ops, Apply(o)
  PROVE  Inv'
<1>1. op[o].out \in Seq(Put) /\ op[o].out # <<>>
  BY DEF Inv, TypeOK, Call, Apply
<1>2. Head(op[o].out) \in Put
  BY <1>1
<1>3. store' \in Tree
  BY <1>2 DEF Apply, Inv, TypeOK, Tree, Put
<1> QED BY <1>3, Dequeued DEF Apply

LEMMA RejectStep ==
  ASSUME Inv, NEW o \in Ops, Reject(o)
  PROVE  Inv'
<1> DEFINE c == [op[o] EXCEPT !.out = Tail(@), !.refused = TRUE]
           d == [op[o] EXCEPT !.out = Tail(@)]
<1>1. store' \in Tree /\ op[o].out # <<>>
  BY DEF Reject, Inv, TypeOK
<1>2. op[o] \in Call
  BY DEF Inv, TypeOK
<1>3. d \in Call /\ Sound(d)
  BY <1>1, DequeuedCall
<1>4. c = [d EXCEPT !.refused = TRUE]
  BY <1>2 DEF Call
<1>5. c \in Call
  <2> HIDE DEF c, d
  <2> QED BY <1>3, <1>4 DEF Call
<1>6. /\ c.pc = d.pc /\ c.request = d.request /\ c.tree = d.tree
      /\ c.todo = d.todo /\ c.verify = d.verify /\ c.out = d.out
  <2> HIDE DEF c, d
  <2> QED BY <1>3, <1>4 DEF Call
<1>7. Sound(c)
  <2> HIDE DEF c, d
  <2> QED BY <1>3, <1>6 DEF Sound, OnCourse
<1>8. op' = [op EXCEPT ![o] = c]
  BY DEF Reject, Inv, TypeOK
<1> HIDE DEF c
<1> QED BY <1>1, <1>5, <1>7, <1>8, OneCall

LEMMA AckStep ==
  ASSUME Inv, NEW o \in Ops, Ack(o)
  PROVE  Inv'
<1> DEFINE c == [op[o] EXCEPT !.pc = "acked"]
<1>1. op[o] \in Call /\ OnCourse(op[o])
  BY DEF Inv, TypeOK, Ack, Sound
<1>2. c \in Call
  BY <1>1 DEF Call
<1>3. Sound(c)
  <2>1. /\ c.pc = "acked" /\ c.request = op[o].request /\ c.tree = op[o].tree
        /\ c.todo = op[o].todo /\ c.verify = op[o].verify /\ c.out = op[o].out
    BY <1>1 DEF Call
  <2> QED BY <1>1, <2>1 DEF Sound, OnCourse
<1>4. op' = [op EXCEPT ![o] = c] /\ store' \in Tree
  BY DEF Ack, Inv, TypeOK
<1> HIDE DEF c
<1> QED BY <1>2, <1>3, <1>4, OneCall

LEMMA EndStep ==
  ASSUME Inv, NEW o \in Ops, End(o)
  PROVE  Inv'
<1>1. op' = [op EXCEPT ![o] = Idle] /\ store' \in Tree /\ Sound(Idle)
  BY DEF End, Inv, TypeOK, Idle, Sound
<1> QED BY <1>1, IdleType, OneCall

LEMMA StartStep ==
  ASSUME Inv, NEW o \in Ops, NEW r \in Writes, NEW seen \in Seen(r), Start(o, r, seen)
  PROVE  Inv'
<1> DEFINE loaded == Loaded(seen, r.path)
           above == {a \in Paths : Below(a, Target(r))}
           first == IF above = {} THEN loaded ELSE Verified(loaded, <<>>)
           out == IF above = {} THEN <<>> ELSE VerifyPuts(loaded, <<>>)
           call == [pc |-> "run", request |-> r, tree |-> first,
                    todo |-> {[path |-> Target(r), mode |-> Mode(r)]},
                    verify |-> above \ {<<>>},
                    out |-> out,
                    read |-> store,
                    overlap |-> {At(c) : c \in {d \in Ops : Busy(d)}},
                    refused |-> seen # store]
<1>1. r \in Requests /\ r.path \in Paths /\ Target(r) \in Paths /\ Under(Target(r), r.path)
  BY MDEAssumption, TargetAbove
<1>2. OnTrail(<<>>, r.path) /\ <<>> \in Paths
  BY <1>1, UnderRoot DEF OnTrail
<1>3. seen \in Tree
  BY NoTreeType DEF Seen, Inv, TypeOK
<1>4. loaded \in Tree /\ \A q \in Paths : Has(loaded, q) => OnTrail(q, r.path)
  BY <1>1, <1>3, LoadedType
<1>5. /\ first \in Tree /\ \A q \in Paths : Has(first, q) => OnTrail(q, r.path)
      /\ out \in Seq(Put) /\ \A i \in 1..Len(out) : OnTrail(out[i].path, r.path)
  <2>1. CASE above = {}
    BY <1>4, <2>1
  <2>2. CASE above # {}
    <3> HIDE DEF loaded, above
    <3> QED BY <1>2, <1>4, <2>2, VerifiedType
  <2> QED BY <2>1, <2>2
<1>6. \A a \in above \ {<<>>} : a \in Paths /\ Under(a, r.path)
  BY <1>1, UnderTransitive DEF Below
<1>7. \A d \in Ops : op[d] \in Call
  BY DEF Inv, TypeOK
<1>8. \A d \in Ops : Busy(d) => At(d) \in Paths
  BY InFlight, TargetAbove DEF At
<1>9. call \in Call
  <2>1. [path |-> Target(r), mode |-> Mode(r)] \in Job
    BY <1>1, TargetAbove DEF Job
  <2>2. store \in Tree
    BY DEF Inv, TypeOK
  <2>3. {At(c) : c \in {d \in Ops : Busy(d)}} \in SUBSET Paths
    BY <1>8
  <2>4. above \ {<<>>} \in SUBSET Paths
    OBVIOUS
  <2> HIDE DEF first, out, above
  <2> QED BY <1>5, <2>1, <2>2, <2>3, <2>4 DEF Call
<1>10. OnCourse(call)
  <2>1. OnTrail(Target(r), r.path)
    BY <1>1 DEF OnTrail
  <2> HIDE DEF first, out, above
  <2> QED BY <1>5, <1>6, <2>1 DEF OnCourse
<1>11. op' = [c \in Ops |->
                IF c = o THEN call
                ELSE IF Busy(c) THEN [op[c] EXCEPT !.overlap = @ \cup {Target(r)}]
                ELSE op[c]]
  BY DEF Start
<1>12. call.pc = "run"
  OBVIOUS
<1> HIDE DEF call
<1>13. ASSUME NEW c \in Ops
       PROVE  op'[c] \in Call /\ Sound(op'[c])
  <2>1. CASE c = o
    BY <1>9, <1>10, <1>11, <1>12, <2>1 DEF Sound
  <2>2. CASE c # o /\ Busy(c)
    <3> DEFINE new == [op[c] EXCEPT !.overlap = @ \cup {Target(r)}]
    <3>1. op'[c] = new
      BY <1>11, <2>2
    <3>2. new \in Call
      BY <1>1, <1>7 DEF Call
    <3>3. /\ new.pc = op[c].pc /\ new.request = op[c].request /\ new.tree = op[c].tree /\ new.todo = op[c].todo
          /\ new.verify = op[c].verify /\ new.out = op[c].out
      BY <1>7 DEF Call
    <3>4. OnCourse(op[c])
      BY <2>2, InFlight
    <3>5. OnCourse(new)
      BY <3>3, <3>4 DEF OnCourse
    <3> HIDE DEF new
    <3> QED BY <2>2, <3>1, <3>2, <3>3, <3>5 DEF Sound, Busy
  <2>3. CASE c # o /\ ~Busy(c)
    BY <1>7, <1>11, <2>3 DEF Inv
  <2> QED BY <2>1, <2>2, <2>3
<1>14. TypeOK'
  <2>1. op' \in [Ops -> Call]
    <3>1. op' = [c \in Ops |-> op'[c]]
      BY <1>11
    <3> QED BY <1>13, <3>1
  <2> QED BY <2>1 DEF TypeOK, Start, Inv
<1> QED BY <1>13, <1>14 DEF Inv, Sound, OnCourse

LEMMA InvNext == Inv /\ [Next]_vars => Inv'
<1> SUFFICES ASSUME Inv, [Next]_vars PROVE Inv'
  OBVIOUS
<1>1. CASE UNCHANGED vars
  BY <1>1 DEF vars, Inv, TypeOK, Sound, OnCourse
<1>2. ASSUME NEW o \in Ops, Destructure(o) PROVE Inv'
  BY <1>2, DestructureNodeStep, DestructureTextStep DEF Destructure
<1>3. CASE Next
  BY <1>2, <1>3, StartStep, VerifyStep, ApplyStep, RejectStep, AckStep, EndStep DEF Next
<1> QED BY <1>1, <1>3

----------------------------------------------------------------------------
(***************************************************************************)
(* Every record, private tree, job and pending write of the engine is what *)
(* it should be, in every reachable state of every instance.               *)
(***************************************************************************)
THEOREM TypeCorrect == Spec => []TypeOK
<1>1. Inv => TypeOK
  BY DEF Inv
<1> QED BY <1>1, InvInit, InvNext, PTL DEF Spec

(***************************************************************************)
(* No call changes a record off the trail of its path, whatever runs with  *)
(* it and whatever the backend refuses.                                    *)
(***************************************************************************)
THEOREM FootprintHolds == Spec => Footprint
<1> DEFINE Leak == \A p \in Paths : store'[p] # store[p] =>
                      \E o \in Ops : Busy(o) /\ OnTrail(p, op[o].request.path)
<1>1. Inv /\ [Next]_vars => [Leak]_vars
  <2> SUFFICES ASSUME Inv, Next, NEW p \in Paths, store'[p] # store[p]
               PROVE  \E o \in Ops : Busy(o) /\ OnTrail(p, op[o].request.path)
    OBVIOUS
  <2>1. PICK o \in Ops : Apply(o)
    BY DEF Next, Start, VerifyParent, Destructure, Reject, Ack, End
  <2>2. op[o] \in Call /\ op[o].out \in Seq(Put) /\ op[o].out # <<>>
    BY <2>1 DEF Inv, TypeOK, Call, Apply
  <2>3. Head(op[o].out) = op[o].out[1] /\ 1 \in 1..Len(op[o].out)
    BY <2>2
  <2>4. p = op[o].out[1].path
    BY <2>1, <2>3 DEF Apply, Inv, TypeOK, Tree
  <2>5. Busy(o) /\ OnCourse(op[o])
    BY <2>2 DEF Inv, Sound, Busy
  <2> QED BY <2>3, <2>4, <2>5 DEF OnCourse
<1> QED BY <1>1, InvInit, InvNext, PTL DEF Spec, Footprint

----------------------------------------------------------------------------
(***************************************************************************)
(* The inductive invariant of one call at a time: how far a call is from   *)
(* the document it promises, and how far the backend is from the call.     *)
(***************************************************************************)
\* The private tree of a call and, off its trail, what it found there.
Whole(c) == [p \in Paths |-> IF OnTrail(p, c.request.path) THEN c.tree[p] ELSE c.read[p]]

Aim(c) == Target(c.request)
Data(c) == Content(c.request)

Values(t) == [q \in Paths |-> ValueAt(t, q)]

\* Every record hangs from a container, those of "open" still to come.
Tidy(t, open) ==
  \A p \in Paths \ {<<>>} : Has(t, p) => IsContainer(t, Parent(p)) \/ Parent(p) \in open

\* Every record is one that some write leaves at its path.
Fit(p, rec) ==
  /\ rec.kind = None => rec = NoRecord
  /\ rec.kind \in Containers => rec.text = None /\ rec.kind \in KindsAt(p)
  /\ rec.kind = Str => rec.text \in Long /\ TextAt(p)
  /\ \A k \in Keys : Append(p, k) \in Paths /\ rec.inline[k] \in Containers
                       => rec.inline[k] \in KindsAt(Append(p, k))

Proper(t) == \A p \in Paths : Fit(p, t[p])

Sane(t) == Tidy(t, {}) /\ Proper(t)

\* What is left to destructure lies below the target, named by the data,
\* each job on a branch of its own.
JobFits(c, j) ==
  /\ Under(Aim(c), j.path)
  /\ Data(c)[j.path] # None
  /\ j.path # Aim(c) => /\ ~FitsInline(Data(c), j.path)
                        /\ IsContainer(Whole(c), Parent(j.path))
  /\ \/ j.mode = Mode(c.request)
     \/ /\ j.path # Aim(c)
        /\ \A x \in Paths : Under(j.path, x) => ValueAt(c.read, x) = None

JobsFit(c) ==
  /\ \A j \in c.todo : JobFits(c, j)
  /\ \A j, k \in c.todo : j # k => ~OnTrail(j.path, k.path)

\* Above the target only missing ancestors appear, and the inline value of
\* the target goes.
AboveAim(c) ==
  \A a \in Paths : Below(a, Aim(c)) =>
    IF Has(c.read, a)
      THEN /\ Whole(c)[a].kind = c.read[a].kind
           /\ \A k \in Keys : Append(a, k) # Aim(c) => Whole(c)[a].inline[k] = c.read[a].inline[k]
      ELSE IF a \in c.verify THEN ~Has(Whole(c), a)
           ELSE Whole(c)[a] = Container(CreatedKind(a), EmptyInline)

\* The document after a request with the data the code makes of it, and
\* whether its container at c keeps what the data does not name.
Effect(d, r) == After(d, r, Content(r))
Keeps(d, r, c) == Merges(d, r, Content(r), c)

\* From the target down, what no job is left for is as the write promises.
Pending(c, x) == \E j \in c.todo : Under(j.path, x)

Done(c) ==
  \A x \in Paths : Under(Aim(c), x) =>
    IF Pending(c, x) THEN Whole(c)[x] = c.read[x]
    ELSE ValueAt(Whole(c), x) = Effect(Values(c.read), c.request)[x]

\* The last of the writes that concerns a path.
Ends(puts, p, rec) ==
  \E i \in 1..Len(puts) :
    /\ puts[i].path = p /\ puts[i].record = rec
    /\ \A j \in 1..Len(puts) : j > i => puts[j].path # p
Spares(puts, p) == \A i \in 1..Len(puts) : puts[i].path # p

\* The writes turn the records s into the records t.
Carries(puts, s, t) ==
  \A p \in Paths : Ends(puts, p, t[p]) \/ (Spares(puts, p) /\ s[p] = t[p])

Midway(c, s) ==
  /\ Sane(c.read)
  /\ Tidy(Whole(c), c.verify)
  /\ Proper(Whole(c))
  /\ \A a \in c.verify : Below(a, Aim(c))
  /\ JobsFit(c)
  /\ AboveAim(c)
  /\ Done(c)
  /\ Carries(c.out, s, Whole(c))

Course == /\ Quiet => Sane(store)
          /\ \A o \in Ops : Busy(o) => Midway(op[o], store)
          /\ \A o \in Ops : op[o].pc = "acked" => op[o].todo = {}

----------------------------------------------------------------------------
(* Walking up and down a path. *)

\* A set of numbers that is not empty has a least one.
LEMMA Least ==
  ASSUME NEW S \in SUBSET Nat, S # {}
  PROVE  \E n \in S : \A m \in S : n <= m
<1> DEFINE R == OpToRel(<, Nat)
<1>1. IsWellFoundedOn(R, Nat)
  BY NatLessThanWellFounded
<1>2. \A m, k \in Nat : <<m, k>> \in R <=> m < k
  BY DEF OpToRel
<1> HIDE DEF R
<1>3. PICK k \in S : \A m \in S : ~ (<<m, k>> \in R)
  BY <1>1, WFMin
<1>4. k \in Nat /\ \A m \in S : m \in Nat
  OBVIOUS
<1>5. \A m \in S : ~ (m < k)
  BY <1>2, <1>3, <1>4
<1>6. \A m \in S : k <= m
  BY <1>4, <1>5
<1> QED BY <1>6

\* Two paths at or under each other are one path.
LEMMA UnderBoth ==
  ASSUME NEW p \in Paths, NEW q \in Paths, Under(p, q), Under(q, p)
  PROVE  p = q
<1>1. /\ p \in Seq(Keys) /\ q \in Seq(Keys) /\ Len(p) = Len(q)
      /\ \A i \in 1..Len(p) : p[i] = q[i]
  BY PathsAssumption, UnderMeaning
<1> QED BY <1>1

\* Two paths above a third one are on one trail.
LEMMA UnderLinear ==
  ASSUME NEW p \in Paths, NEW q \in Paths, NEW x \in Paths, Under(p, x), Under(q, x)
  PROVE  OnTrail(p, q) /\ (Len(p) <= Len(q) => Under(p, q))
<1>1. /\ Len(p) \in Nat /\ Len(q) \in Nat
      /\ Len(p) <= Len(x) /\ \A i \in 1..Len(p) : p[i] = x[i]
      /\ Len(q) <= Len(x) /\ \A i \in 1..Len(q) : q[i] = x[i]
  BY PathsAssumption, UnderMeaning
<1>2. Len(p) <= Len(q) => Under(p, q)
  BY <1>1, UnderMeaning
<1>3. Len(q) <= Len(p) => Under(q, p)
  BY <1>1, UnderMeaning
<1> QED BY <1>1, <1>2, <1>3 DEF OnTrail

\* The parent is one key shorter, and with the last key it is the path.
LEMMA ParentMeaning ==
  ASSUME NEW p \in Paths, p # <<>>
  PROVE  /\ Parent(p) \in Paths /\ Last(p) \in Keys
         /\ Len(p) \in Nat /\ Len(Parent(p)) = Len(p) - 1
         /\ Append(Parent(p), Last(p)) = p
         /\ Below(Parent(p), p)
         /\ p \in Children(Parent(p))
<1>1. p \in Seq(Keys) /\ Len(p) \in Nat /\ Len(p) > 0
  BY PathsAssumption
<1>2. Parent(p) \in Paths /\ Under(Parent(p), p) /\ Last(p) \in Keys
  BY ParentAbove
<1>3. Parent(p) = SubSeq(p, 1, Len(p) - 1) /\ Last(p) = p[Len(p)]
  BY DEF Parent, Front, Last
<1>4. Len(Parent(p)) = Len(p) - 1
  <2>1. Len(SubSeq(p, 1, Len(p) - 1)) = Len(p) - 1
    BY <1>1
  <2> QED BY <1>3, <2>1
<1>5. Append(Parent(p), Last(p)) = p
  <2> DEFINE n == Len(p)
             f == SubSeq(p, 1, n - 1)
  <2>1. f \in Seq(Keys) /\ Len(f) = n - 1 /\ \A i \in 1..(n - 1) : f[i] = p[i]
    BY <1>1
  <2>2. /\ Append(f, p[n]) \in Seq(Keys) /\ Len(Append(f, p[n])) = n
        /\ \A i \in 1..n : Append(f, p[n])[i] = p[i]
    <3> HIDE DEF f
    <3> QED BY <1>1, <2>1
  <2>3. Append(f, p[n]) = p
    <3> HIDE DEF f
    <3> QED BY <1>1, <2>2
  <2> QED BY <1>3, <2>3
<1>6. Parent(p) # p
  BY <1>1, <1>4
<1> QED BY <1>1, <1>2, <1>4, <1>5, <1>6 DEF Below, Children

\* What Append makes of a path is one of its children.
LEMMA ChildMeaning ==
  ASSUME NEW q \in Paths, NEW k \in Keys, Append(q, k) \in Paths
  PROVE  /\ Append(q, k) \in Children(q)
         /\ Append(q, k) # <<>>
         /\ Parent(Append(q, k)) = q
         /\ Last(Append(q, k)) = k
<1> DEFINE d == Append(q, k)
           n == Len(q)
<1>1. q \in Seq(Keys) /\ n \in Nat
  BY PathsAssumption
<1>2. d \in Seq(Keys) /\ Len(d) = n + 1 /\ d[n + 1] = k /\ \A i \in 1..n : d[i] = q[i]
  BY <1>1
<1>3. d # <<>>
  BY <1>1, <1>2
<1>4. Parent(d) = SubSeq(d, 1, Len(d) - 1) /\ Last(d) = d[Len(d)]
  BY DEF Parent, Front, Last
<1> HIDE DEF d
<1>5. Last(d) = k
  BY <1>1, <1>2, <1>4
<1>6. SubSeq(d, 1, n) \in Seq(Keys) /\ Len(SubSeq(d, 1, n)) = n
      /\ \A i \in 1..n : SubSeq(d, 1, n)[i] = d[i]
  BY <1>1, <1>2
<1>7. SubSeq(d, 1, n) = q
  BY <1>1, <1>2, <1>6
<1>8. Len(d) - 1 = n
  BY <1>1, <1>2
<1>9. Parent(d) = q
  BY <1>4, <1>7, <1>8
<1> QED BY <1>3, <1>5, <1>9 DEF Children, d

\* What lies above a path lies above its parent or is the path.
LEMMA AboveParent ==
  ASSUME NEW p \in Paths, NEW x \in Paths, Below(p, x)
  PROVE  x # <<>> /\ Under(p, Parent(x)) /\ Parent(x) \in Paths
<1>1. Len(p) \in Nat /\ Len(x) \in Nat /\ p \in Seq(Keys) /\ x \in Seq(Keys)
  BY PathsAssumption
<1>2. Len(p) <= Len(x) /\ \A i \in 1..Len(p) : p[i] = x[i]
  BY UnderMeaning DEF Below
<1>3. Len(p) # Len(x)
  <2> SUFFICES ASSUME Len(p) = Len(x) PROVE FALSE
    OBVIOUS
  <2>1. p = x
    BY <1>1, <1>2
  <2> QED BY <2>1 DEF Below
<1>4. x # <<>>
  BY <1>1, <1>2, <1>3
<1>5. Parent(x) \in Paths /\ Under(Parent(x), x) /\ Len(Parent(x)) = Len(x) - 1
  BY <1>4, ParentMeaning DEF Below
<1>6. Under(p, Parent(x))
  BY <1>1, <1>2, <1>3, <1>5, UnderLinear DEF Below
<1> QED BY <1>4, <1>5, <1>6

\* Children of one path are equal or on branches of their own.
LEMMA ChildrenApart ==
  ASSUME NEW q \in Paths, NEW c \in Children(q), NEW d \in Children(q), OnTrail(c, d)
  PROVE  c = d
<1>1. c \in Paths /\ d \in Paths /\ c # <<>> /\ d # <<>> /\ Parent(c) = q /\ Parent(d) = q
  BY DEF Children
<1>2. Len(c) = Len(d) /\ Len(c) \in Nat
  BY <1>1, ParentMeaning
<1>3. Under(c, d) /\ Under(d, c)
  BY <1>1, <1>2, UnderMeaning DEF OnTrail
<1> QED BY <1>1, <1>3, UnderBoth

\* Climbing: what is closed under parents down to p holds from p to x.
LEMMA Climb ==
  ASSUME NEW S, NEW p \in Paths, NEW x \in Paths, x \in S,
         \A y \in Paths : y \in S /\ Below(p, y) /\ Under(y, x) => Parent(y) \in S,
         NEW z \in Between(p, x)
  PROVE  z \in S
<1> DEFINE L == {Len(y) : y \in {u \in Paths : u \in S /\ Under(z, u) /\ Under(u, x)}}
<1>1. z \in Paths /\ Under(p, z) /\ Under(z, x)
  BY DEF Between
<1>2. L \in SUBSET Nat /\ Len(x) \in L
  BY <1>1, UnderRoot, PathsAssumption
<1>3. PICK n \in L : \A m \in L : n <= m
  <2> HIDE DEF L
  <2> QED BY <1>2, Least
<1>4. PICK y \in Paths : y \in S /\ Under(z, y) /\ Under(y, x) /\ n = Len(y)
  BY <1>3
<1>5. CASE y = z
  BY <1>4, <1>5
<1>6. CASE y # z
  <2>1. y # <<>> /\ Under(z, Parent(y)) /\ Parent(y) \in Paths
    BY <1>1, <1>4, <1>6, AboveParent DEF Below
  <2>2. Under(p, y)
    BY <1>1, <1>4, UnderTransitive
  <2>3. p # y
    BY <1>1, <1>4, <1>6, UnderBoth
  <2>4. Parent(y) \in S
    BY <1>4, <2>2, <2>3 DEF Below
  <2>5. Under(Parent(y), y) /\ Len(Parent(y)) = Len(y) - 1 /\ Len(y) \in Nat
    BY <2>1, ParentMeaning DEF Below
  <2>6. Under(Parent(y), x)
    BY <1>4, <2>1, <2>5, UnderTransitive
  <2>7. Len(Parent(y)) \in L
    BY <2>1, <2>4, <2>6
  <2> HIDE DEF L
  <2>8. Len(y) <= Len(y) - 1
    BY <1>3, <1>4, <2>5, <2>7
  <2> QED BY <2>5, <2>8
<1> QED BY <1>5, <1>6

\* Below a path there is exactly one child of it on the way to x.
LEMMA TowardMeaning ==
  ASSUME NEW q \in Paths, NEW x \in Paths, Below(q, x)
  PROVE  /\ Toward(q, x) \in Children(q)
         /\ Under(Toward(q, x), x)
         /\ \A d \in Children(q) : Under(d, x) => d = Toward(q, x)
<1> DEFINE L == {Len(y) : y \in {u \in Paths : Below(q, u) /\ Under(u, x)}}
<1>1. L \in SUBSET Nat /\ Len(x) \in L
  BY UnderRoot, PathsAssumption
<1>2. PICK n \in L : \A m \in L : n <= m
  <2> HIDE DEF L
  <2> QED BY <1>1, Least
<1>3. PICK y \in Paths : Below(q, y) /\ Under(y, x) /\ n = Len(y)
  BY <1>2
<1>4. y # <<>> /\ Under(q, Parent(y)) /\ Parent(y) \in Paths
  BY <1>3, AboveParent
<1>5. Under(Parent(y), y) /\ Len(Parent(y)) = Len(y) - 1 /\ Len(y) \in Nat /\ y \in Children(Parent(y))
  BY <1>4, ParentMeaning DEF Below
<1>6. Parent(y) = q
  <2> SUFFICES ASSUME Parent(y) # q PROVE FALSE
    OBVIOUS
  <2>1. Under(Parent(y), x)
    BY <1>3, <1>4, <1>5, UnderTransitive
  <2>2. Len(Parent(y)) \in L
    BY <1>4, <2>1 DEF Below
  <2> HIDE DEF L
  <2>3. Len(y) <= Len(y) - 1
    BY <1>2, <1>3, <1>5, <2>2
  <2> QED BY <1>5, <2>3
<1>7. y = Toward(q, x)
  <2> DEFINE m == Len(q) + 1
             z == SubSeq(x, 1, m)
  <2>1. /\ q \in Seq(Keys) /\ x \in Seq(Keys) /\ y \in Seq(Keys)
        /\ Len(q) \in Nat /\ Len(x) \in Nat /\ Len(y) = m
    BY <1>5, <1>6, PathsAssumption
  <2>2. m <= Len(x) /\ \A i \in 1..m : y[i] = x[i]
    BY <1>3, <2>1, UnderMeaning
  <2>3. z \in Seq(Keys) /\ Len(z) = m /\ \A i \in 1..m : z[i] = x[i]
    BY <2>1, <2>2
  <2>4. y = z
    <3> HIDE DEF z, m
    <3> QED BY <2>1, <2>2, <2>3
  <2> QED BY <2>4 DEF Toward
<1>8. ASSUME NEW d \in Children(q), Under(d, x)
      PROVE  d = y
  <2>1. d \in Paths
    BY DEF Children
  <2>2. OnTrail(d, y)
    BY <1>3, <1>8, <2>1, UnderLinear
  <2> QED BY <1>5, <1>6, <2>2, ChildrenApart
<1> QED BY <1>3, <1>5, <1>6, <1>7, <1>8

----------------------------------------------------------------------------
(* The data of a request and what the document becomes. *)

\* The marks of a tree and the atoms are all different.
LEMMA Marks == /\ None \notin Containers /\ Null \notin Containers /\ None # Null
               /\ \A v \in Long : v \notin Containers \cup {None, Null} /\ v \notin Short
               /\ \A v \in Short : v \notin Containers \cup {None, Null}
BY ValuesAssumption DEF None, Null, Containers, Obj, Arr

\* Data hangs from containers down from the target.
LEMMA DataShape ==
  ASSUME NEW r \in Requests
  PROVE  /\ Content(r)[Target(r)] \in Containers
         /\ \A q \in Paths : Content(r)[q] # None =>
              /\ Under(Target(r), q)
              /\ q # Target(r) => q # <<>> /\ Content(r)[Parent(q)] \in Containers
<1> DEFINE p == r.path
           v == r.value
<1>1. /\ p \in Paths /\ v \in [Paths -> JsonValues]
      /\ \A q \in Paths : v[q] # None => Under(p, q) /\ (q # p => v[Parent(q)] = KindAbove(q))
  BY DEF Requests, IsDataAt
<1>2. \A q : KindAbove(q) \in Containers
  BY DEF KindAbove, KindOfKey, Containers
<1>3. ASSUME NEW q \in Paths, Under(p, q), q # p
      PROVE  q # <<>> /\ Parent(q) \in Paths /\ Under(p, Parent(q))
  BY <1>1, <1>3, AboveParent DEF Below
<1>4. CASE v[p] \in Containers
  <2>1. Target(r) = p /\ Content(r) = v
    BY <1>4 DEF Target, Content
  <2> QED BY <1>1, <1>2, <1>3, <1>4, <2>1
<1>5. CASE v[p] \notin Containers
  <2>1. p # <<>>
    BY <1>5 DEF Requests
  <2> DEFINE up == Parent(p)
             w == [v EXCEPT ![up] = KindAbove(p)]
             u == [q \in Paths |-> IF q \in Before(p) THEN Null ELSE w[q]]
  <2>2. Target(r) = up /\ Content(r) = u
    BY <1>1, <1>5, <2>1 DEF Target, Content, Asked
  <2>3. up \in Paths /\ Below(up, p)
    BY <1>1, <2>1, ParentMeaning
  <2>4. w[up] \in Containers /\ \A q \in Paths : q # up => w[q] = v[q]
    BY <1>1, <1>2, <2>3
  <2>5. ASSUME NEW q \in Paths, w[q] # None, q # up
        PROVE  Under(up, q) /\ q # <<>> /\ w[Parent(q)] \in Containers
    <3>1. v[q] # None /\ Under(p, q)
      BY <1>1, <2>4, <2>5
    <3>2. Under(up, q)
      BY <1>1, <2>3, <3>1, UnderTransitive DEF Below
    <3>3. CASE q = p
      BY <2>1, <2>4, <3>2, <3>3
    <3>4. CASE q # p
      <4>1. q # <<>> /\ Parent(q) \in Paths /\ Under(p, Parent(q))
        BY <1>3, <3>1, <3>4
      <4>2. Parent(q) # up
        BY <1>1, <2>3, <4>1, UnderBoth DEF Below
      <4>3. w[Parent(q)] = KindAbove(q)
        BY <1>1, <2>4, <3>1, <3>4, <4>1, <4>2
      <4> QED BY <1>2, <3>2, <4>1, <4>3
    <3> QED BY <3>3, <3>4
  <2>6. Under(up, up)
    BY <2>3, UnderRoot
  <2>7. up \notin Before(p)
    BY <2>3, ParentMeaning DEF Before, Below
  <2>8. ASSUME NEW q \in Before(p)
        PROVE  q \in Paths \ {<<>>} /\ Parent(q) = up /\ Under(up, q)
    BY <2>8, ParentMeaning DEF Before, Below
  <2>9. \A q \in Containers : q # None /\ q # Null
    BY Marks
  <2>10. \A q \in Paths \ {<<>>} : Parent(q) \in Paths
    BY ParentMeaning
  <2>11. \A q \in Paths : w[q] \in Containers => q \notin Before(p)
    <3> SUFFICES ASSUME NEW q \in Before(p), w[q] \in Containers PROVE FALSE
      OBVIOUS
    <3>1. q # up /\ v[q] # None
      BY <2>4, <2>7, <2>9
    <3>2. Under(p, q)
      BY <1>1, <2>8, <3>1
    <3>3. Under(p, Parent(q)) \/ q = p
      BY <1>3, <2>8, <3>2
    <3>4. q # p
      <4>1. {Last(q), Last(p)} \subseteq Indexes /\ Last(q) < Last(p)
        BY DEF Before
      <4>2. Last(p) \in Nat
        BY <4>1, KeysAssumption
      <4> HIDE DEF p, v, w, up, u
      <4> QED BY <4>1, <4>2
    <3> QED BY <1>1, <2>3, <2>8, <3>3, <3>4, UnderBoth DEF Below
  <2>12. \A q \in Paths : u[q] = IF q \in Before(p) THEN Null ELSE w[q]
    OBVIOUS
  <2> HIDE DEF w, up, u
  <2>13. u[up] \in Containers
    BY <2>3, <2>4, <2>7, <2>12
  <2>14. ASSUME NEW q \in Paths, u[q] # None
         PROVE  Under(up, q) /\ (q # up => q # <<>> /\ u[Parent(q)] \in Containers)
    <3>1. CASE q \in Before(p)
      BY <2>8, <2>13, <3>1
    <3>2. CASE q \notin Before(p) /\ q # up
      <4>1. Under(up, q) /\ q # <<>> /\ w[Parent(q)] \in Containers
        BY <2>5, <2>12, <2>14, <3>2
      <4> QED BY <2>10, <2>11, <2>12, <4>1
    <3>3. CASE q = up
      BY <2>6, <3>3
    <3> QED BY <3>1, <3>2, <3>3
  <2> QED BY <2>2, <2>13, <2>14
<1> QED BY <1>4, <1>5

\* What lies between the target and a named value is named, a container.
LEMMA NamedAbove ==
  ASSUME NEW r \in Requests, NEW x \in Paths, Content(r)[x] # None,
         NEW z \in Between(Target(r), x)
  PROVE  Content(r)[z] # None /\ (z # x => Content(r)[z] \in Containers)
<1> DEFINE w == Content(r)
           at == Target(r)
           S == {y \in Paths : w[y] # None /\ (y # x => w[y] \in Containers)}
<1>1. at \in Paths
  BY TargetAbove
<1>2. x \in S
  OBVIOUS
<1>3. ASSUME NEW y \in Paths, y \in S, Below(at, y), Under(y, x)
      PROVE  Parent(y) \in S
  <2>1. y # <<>> /\ Parent(y) \in Paths
    BY <1>1, <1>3, AboveParent
  <2>2. w[y] # None /\ y # at
    BY <1>3 DEF Below
  <2>3. w[Parent(y)] \in Containers
    BY <2>2, DataShape
  <2> QED BY <2>1, <2>3, Marks
<1> HIDE DEF S
<1>4. z \in S
  BY <1>1, <1>2, <1>3, Climb
<1> QED BY <1>4 DEF S

\* On the way down to x the data ends at the child e of q.
LEMMA EndsAt ==
  ASSUME NEW r \in Requests, NEW q \in Paths, Content(r)[q] # None,
         NEW e \in Children(q), Content(r)[e] = None,
         NEW x \in Paths, Under(e, x)
  PROVE  /\ Under(Target(r), x)
         /\ Content(r)[x] = None
         /\ Below(q, x) /\ Toward(q, x) = e
         /\ \A c \in Paths : /\ Under(Target(r), c) /\ Below(c, x)
                             /\ Content(r)[c] \in Containers
                             /\ Content(r)[Toward(c, x)] = None
                             => c = q
<1> DEFINE w == Content(r)
           at == Target(r)
<1>1. at \in Paths /\ Under(at, q)
  BY TargetAbove, DataShape
<1>2. e \in Paths /\ e # <<>> /\ Parent(e) = q /\ Below(q, e)
  BY ParentMeaning DEF Children
<1>3. Under(at, e) /\ Under(q, x) /\ Under(at, x)
  BY <1>1, <1>2, UnderTransitive DEF Below
<1>4. Below(q, x)
  BY <1>2, <1>3, UnderBoth DEF Below
<1>5. Toward(q, x) = e
  BY <1>4, TowardMeaning
<1>6. ASSUME NEW y \in Paths, Under(e, y) PROVE w[y] = None
  BY <1>2, <1>3, <1>6, NamedAbove DEF Between
<1>7. ASSUME NEW c \in Paths, Under(at, c), Below(c, x), w[c] \in Containers,
             w[Toward(c, x)] = None
      PROVE  c = q
  <2>1. w[c] # None
    BY <1>7, Marks
  <2>2. OnTrail(c, q)
    BY <1>3, <1>7, UnderLinear DEF Below
  <2>3. CASE Below(c, q)
    <3>1. Toward(c, q) \in Children(c) /\ Under(Toward(c, q), q)
      BY <2>3, TowardMeaning
    <3>2. Toward(c, q) \in Paths /\ Below(c, Toward(c, q))
      BY <3>1, ParentMeaning DEF Children
    <3>3. Under(Toward(c, q), x) /\ Under(at, Toward(c, q))
      BY <1>1, <1>3, <1>7, <3>1, <3>2, UnderTransitive DEF Below
    <3>4. Toward(c, q) = Toward(c, x)
      BY <1>7, <3>1, <3>3, TowardMeaning
    <3>5. w[Toward(c, q)] # None
      BY <3>1, <3>2, <3>3, NamedAbove DEF Between
    <3> QED BY <1>7, <3>4, <3>5
  <2>4. CASE Below(q, c)
    <3>1. Toward(q, c) \in Children(q) /\ Under(Toward(q, c), c)
      BY <2>4, TowardMeaning
    <3>2. Toward(q, c) \in Paths
      BY <3>1 DEF Children
    <3>3. Under(Toward(q, c), x)
      BY <1>7, <3>1, <3>2, UnderTransitive DEF Below
    <3>4. Toward(q, c) = e
      BY <1>4, <1>5, <3>1, <3>3, TowardMeaning
    <3> QED BY <1>6, <2>1, <3>1, <3>4
  <2> QED BY <2>2, <2>3, <2>4 DEF OnTrail, Below
<1> QED BY <1>2, <1>3, <1>4, <1>5, <1>6, <1>7, UnderRoot

\* What becomes of the values below a child the data does not name.
LEMMA WrittenUnnamed ==
  ASSUME NEW r \in Requests, NEW d \in [Paths -> JsonValues],
         NEW q \in Paths, Content(r)[q] \in Containers,
         NEW e \in Children(q), Content(r)[e] = None,
         NEW x \in Paths, Under(e, x)
  PROVE  Effect(d, r)[x] = IF Keeps(d, r, q) THEN d[x] ELSE None
<1>1. Content(r)[q] # None
  BY Marks
<1>2. /\ Under(Target(r), x) /\ Content(r)[x] = None /\ Below(q, x) /\ Toward(q, x) = e
      /\ \A c \in Paths : /\ Under(Target(r), c) /\ Below(c, x)
                          /\ Content(r)[c] \in Containers
                          /\ Content(r)[Toward(c, x)] = None
                          => c = q
  BY <1>1, EndsAt
<1>3. Under(Target(r), q)
  BY <1>1, DataShape
<1> QED BY <1>2, <1>3, Marks DEF Effect, After, Keeps

\* Below an atom or an empty container nothing is left.
LEMMA WrittenBelowLeaf ==
  ASSUME NEW r \in Requests, NEW d \in [Paths -> JsonValues],
         NEW q \in Paths, q # Target(r), Content(r)[q] # None,
         FitsInline(Content(r), q) \/ Content(r)[q] \in Long,
         NEW x \in Paths, Below(q, x)
  PROVE  Effect(d, r)[x] = None
<1> DEFINE e == Toward(q, x)
<1>1. e \in Children(q) /\ Under(e, x)
  BY TowardMeaning
<1>2. e \in Paths /\ e # <<>> /\ Parent(e) = q
  BY <1>1 DEF Children
<1>3. Below(q, e) /\ Under(Target(r), q) /\ Target(r) \in Paths
  BY <1>2, ParentMeaning, DataShape, TargetAbove
<1>4. Content(r)[e] = None
  <2> SUFFICES ASSUME Content(r)[e] # None PROVE FALSE
    OBVIOUS
  <2>1. e # Target(r)
    BY <1>2, <1>3, UnderBoth DEF Below
  <2>2. Content(r)[q] \in Containers
    BY <1>2, <2>1, DataShape
  <2>3. Content(r)[q] \notin Long
    BY <2>2, Marks
  <2> QED BY <1>1, <2>2, <2>3, Marks DEF FitsInline
<1>5. CASE Content(r)[q] \in Containers
  <2>1. Content(r)[q] \notin Long
    BY <1>5, Marks
  <2>2. ~Keeps(d, r, q)
    BY <2>1 DEF Keeps, Merges
  <2> HIDE DEF e
  <2> QED BY <1>1, <1>4, <1>5, <2>2, WrittenUnnamed
<1>6. CASE Content(r)[q] \notin Containers
  <2>1. /\ Under(Target(r), x) /\ Content(r)[x] = None
        /\ \A c \in Paths : /\ Under(Target(r), c) /\ Below(c, x)
                            /\ Content(r)[c] \in Containers
                            /\ Content(r)[Toward(c, x)] = None
                            => c = q
    <3> HIDE DEF e
    <3> QED BY <1>1, <1>4, EndsAt
  <2> QED BY <1>6, <2>1, Marks DEF Effect, After
<1> QED BY <1>5, <1>6

----------------------------------------------------------------------------
(* Sequences of writes to the backend. *)

\* Without writes the backend stays as it is.
LEMMA CarriesNone ==
  ASSUME NEW s, NEW t
  PROVE  Carries(<<>>, s, t) <=> \A p \in Paths : s[p] = t[p]
<1>1. \A p : ~Ends(<<>>, p, t[p]) /\ Spares(<<>>, p)
  BY DEF Ends, Spares
<1> QED BY <1>1 DEF Carries

\* One write carries one record.
LEMMA CarriesOne ==
  ASSUME NEW s, NEW t, NEW q \in Paths, \A p \in Paths : p # q => s[p] = t[p]
  PROVE  Carries(<<[path |-> q, record |-> t[q]]>>, s, t)
<1> DEFINE put == [path |-> q, record |-> t[q]]
<1>1. put.path = q /\ put.record = t[q]
  OBVIOUS
<1> HIDE DEF put
<1>2. Len(<<put>>) = 1 /\ <<put>>[1] = put
  OBVIOUS
<1>3. \A i \in 1..1 : i = 1
  OBVIOUS
<1>4. Ends(<<put>>, q, t[q])
  BY <1>1, <1>2, <1>3 DEF Ends
<1>5. \A p : p # q => Spares(<<put>>, p)
  BY <1>1, <1>2, <1>3 DEF Spares
<1> QED BY <1>4, <1>5 DEF Carries, put

\* Writes after writes carry from the first records to the last.
LEMMA CarriesBoth ==
  ASSUME NEW a \in Seq(Put), NEW b \in Seq(Put), NEW s, NEW t, NEW u,
         Carries(a, s, t), Carries(b, t, u)
  PROVE  Carries(a \o b, s, u)
<1> DEFINE ab == a \o b
           m == Len(a)
           n == Len(b)
<1>1. m \in Nat /\ n \in Nat /\ Len(ab) = m + n
  OBVIOUS
<1>2. /\ \A i \in 1..m : ab[i] = a[i] /\ i \in 1..(m + n)
      /\ \A i \in 1..n : ab[m + i] = b[i] /\ m + i \in 1..(m + n)
      /\ \A i \in 1..(m + n) : i \in 1..m \/ (i - m \in 1..n /\ ab[i] = b[i - m])
  <2>1. \A i \in 1..m : ab[i] = a[i] /\ i \in 1..(m + n)
    BY <1>1
  <2>2. \A i \in 1..n : ab[m + i] = b[i] /\ m + i \in 1..(m + n)
    BY <1>1
  <2>3. ASSUME NEW i \in 1..(m + n), i \notin 1..m
        PROVE  i - m \in 1..n /\ ab[i] = b[i - m]
    <3>1. i - m \in 1..n /\ m + (i - m) = i
      BY <1>1, <2>3
    <3> HIDE DEF ab
    <3> QED BY <2>2, <3>1
  <2> QED BY <2>1, <2>2, <2>3
<1> HIDE DEF ab
<1>3. ASSUME NEW p \in Paths
      PROVE  Ends(ab, p, u[p]) \/ (Spares(ab, p) /\ s[p] = u[p])
  <2>1. CASE Ends(b, p, u[p])
    <3>1. PICK i \in 1..n : /\ b[i].path = p /\ b[i].record = u[p]
                            /\ \A j \in 1..n : j > i => b[j].path # p
      BY <2>1 DEF Ends
    <3>2. m + i \in 1..(m + n) /\ ab[m + i] = b[i]
      BY <1>2
    <3>3. ASSUME NEW j \in 1..(m + n), j > m + i
          PROVE  ab[j].path # p
      <4>1. j - m \in 1..n /\ ab[j] = b[j - m] /\ j - m > i
        BY <1>1, <1>2, <3>3
      <4> QED BY <3>1, <4>1
    <3> QED BY <1>1, <3>1, <3>2, <3>3 DEF Ends
  <2>2. CASE Spares(b, p) /\ t[p] = u[p] /\ Ends(a, p, t[p])
    <3>1. PICK i \in 1..m : /\ a[i].path = p /\ a[i].record = u[p]
                            /\ \A j \in 1..m : j > i => a[j].path # p
      BY <2>2 DEF Ends
    <3>2. i \in 1..(m + n) /\ ab[i] = a[i]
      BY <1>2
    <3>3. ASSUME NEW j \in 1..(m + n), j > i
          PROVE  ab[j].path # p
      <4>1. CASE j \in 1..m
        BY <1>2, <3>1, <3>3, <4>1
      <4>2. CASE j - m \in 1..n /\ ab[j] = b[j - m]
        BY <2>2, <4>2 DEF Spares
      <4> QED BY <1>2, <4>1, <4>2
    <3> QED BY <1>1, <3>1, <3>2, <3>3 DEF Ends
  <2>3. CASE Spares(b, p) /\ t[p] = u[p] /\ Spares(a, p) /\ s[p] = t[p]
    <3>1. ASSUME NEW i \in 1..(m + n) PROVE ab[i].path # p
      <4>1. CASE i \in 1..m
        BY <1>2, <2>3, <4>1 DEF Spares
      <4>2. CASE i - m \in 1..n /\ ab[i] = b[i - m]
        BY <2>3, <4>2 DEF Spares
      <4> QED BY <1>2, <4>1, <4>2
    <3>2. Spares(ab, p)
      BY <1>1, <3>1 DEF Spares
    <3> QED BY <2>3, <3>2
  <2> QED BY <2>1, <2>2, <2>3 DEF Carries
<1> QED BY <1>3 DEF Carries, ab

\* The removals of one branch after another reach each of its records.
LEMMA CarriesRemovals ==
  ASSUME NEW S, S \subseteq Paths, NEW f \in Descents(S), NEW t
  PROVE  Carries(RemovePuts(f), t, Cleared(t, S))
<1> DEFINE n == Cardinality(S)
           puts == RemovePuts(f)
<1>1. IsFiniteSet(S) /\ n \in Nat
  BY PathsAssumption, FS_Subset, FS_CardinalityType
<1>2. f \in [1..n -> S] /\ \A i, j \in 1..n : f[i] = f[j] => i = j
  BY DEF Descents
<1>3. \A p \in S : \E i \in 1..n : f[i] = p
  <2>1. f \in Injection(1..n, S)
    BY <1>2 DEF Injection, IsInjective
  <2>2. Cardinality(1..n) = n
    <3>1. Cardinality(1..n) = IF 1 > n THEN 0 ELSE n - 1 + 1
      BY <1>1, FS_Interval
    <3> HIDE DEF n
    <3> QED BY <1>1, <3>1
  <2>3. f \in Surjection(1..n, S)
    BY <1>1, <2>1, <2>2, FS_Injection
  <2> QED BY <2>3 DEF Surjection
<1>4. puts = [i \in 1..n |-> [path |-> f[i], record |-> NoRecord]]
  BY <1>2 DEF RemovePuts
<1> HIDE DEF puts
<1>5. Len(puts) = n /\ \A i \in 1..n : puts[i].path = f[i] /\ puts[i].record = NoRecord
  <2> HIDE DEF n
  <2> QED BY <1>1, <1>4
<1> HIDE DEF n
<1>6. ASSUME NEW p \in S
      PROVE  Ends(puts, p, NoRecord)
  <2>1. PICK i \in 1..n : f[i] = p
    BY <1>3
  <2>2. \A j \in 1..n : j > i => f[j] # p
    <3> SUFFICES ASSUME NEW j \in 1..n, j > i, f[j] = p PROVE FALSE
      OBVIOUS
    <3>1. j = i
      BY <1>2, <2>1
    <3> QED BY <3>1
  <2> QED BY <1>5, <2>1, <2>2 DEF Ends
<1>7. ASSUME NEW p \in Paths, p \notin S
      PROVE  Spares(puts, p)
  BY <1>2, <1>5, <1>7 DEF Spares
<1> QED BY <1>6, <1>7 DEF Carries, Cleared, puts

\* The backend takes the first write.
LEMMA CarriesRest ==
  ASSUME NEW out \in Seq(Put), out # <<>>, NEW s \in Tree, NEW t, Carries(out, s, t)
  PROVE  Carries(Tail(out), [s EXCEPT ![Head(out).path] = Head(out).record], t)
<1> DEFINE first == Head(out)
           rest == Tail(out)
           n == Len(rest)
           s2 == [s EXCEPT ![first.path] = first.record]
<1>1. /\ first = out[1] /\ n \in Nat /\ Len(out) = n + 1
      /\ \A i \in 1..n : rest[i] = out[i + 1] /\ i + 1 \in 1..(n + 1)
  OBVIOUS
<1>2. first \in Put
  OBVIOUS
<1>3. \A p \in Paths : s2[p] = IF p = first.path THEN first.record ELSE s[p]
  BY <1>2 DEF Tree, Put
<1> HIDE DEF first, rest, s2
<1>4. ASSUME NEW p \in Paths, Ends(out, p, t[p])
      PROVE  Ends(rest, p, t[p]) \/ (Spares(rest, p) /\ s2[p] = t[p])
  <2>1. PICK i \in 1..(n + 1) : /\ out[i].path = p /\ out[i].record = t[p]
                                /\ \A j \in 1..(n + 1) : j > i => out[j].path # p
    BY <1>1, <1>4 DEF Ends
  <2>2. CASE i = 1
    <3>1. \A j \in 1..n : rest[j].path # p
      BY <1>1, <2>1, <2>2
    <3> QED BY <1>1, <1>3, <2>1, <2>2, <3>1 DEF Spares
  <2>3. CASE i # 1
    <3>1. i - 1 \in 1..n /\ rest[i - 1] = out[i]
      BY <1>1, <2>3
    <3>2. \A j \in 1..n : j > i - 1 => rest[j].path # p
      BY <1>1, <2>1, <2>3
    <3> QED BY <2>1, <3>1, <3>2 DEF Ends
  <2> QED BY <2>2, <2>3
<1>5. ASSUME NEW p \in Paths, Spares(out, p), s[p] = t[p]
      PROVE  Spares(rest, p) /\ s2[p] = t[p]
  <2>1. 1 \in 1..(n + 1)
    BY <1>1
  <2>2. first.path # p
    BY <1>1, <1>5, <2>1 DEF Spares
  <2>3. \A j \in 1..n : rest[j].path # p
    BY <1>1, <1>5 DEF Spares
  <2> QED BY <1>3, <1>5, <2>2, <2>3 DEF Spares
<1>6. Carries(rest, s2, t)
  BY <1>4, <1>5 DEF Carries
<1> QED BY <1>6 DEF rest, s2, first

----------------------------------------------------------------------------
(* Records that hang together. *)

\* Records with equal fields are equal.
LEMMA SameRecord ==
  ASSUME NEW r \in Record, NEW s \in Record, r.kind = s.kind, r.text = s.text,
         \A k \in Keys : r.inline[k] = s.inline[k]
  PROVE  r = s
<1>1. r.inline \in [Keys -> InlineValues] /\ s.inline \in [Keys -> InlineValues]
  BY DEF Record
<1>2. r.inline = s.inline
  BY <1>1
<1> QED BY <1>2 DEF Record

\* A record is a container, a long string or nothing.
LEMMA KindsApart ==
  ASSUME NEW t, NEW q
  PROVE  /\ IsContainer(t, q) => Has(t, q) /\ t[q].kind # Str /\ t[q].kind # None
         /\ (t[q].kind = Str) => Has(t, q)
         /\ t \in Tree /\ q \in Paths /\ Has(t, q) => IsContainer(t, q) \/ t[q].kind = Str
BY NoneIsNoKind DEF IsContainer, Has, Tree, Record

\* What a read of one path returns, by the kind of its record.
LEMMA ValueMeaning ==
  ASSUME NEW t, NEW q
  PROVE  /\ IsContainer(t, q) => ValueAt(t, q) = t[q].kind
         /\ t[q].kind = Str => ValueAt(t, q) = t[q].text
         /\ ~IsContainer(t, q) /\ t[q].kind # Str => ValueAt(t, q) = InlineAt(t, q)
         /\ t \in Tree /\ q \in Paths /\ ~Has(t, q) => ValueAt(t, q) = InlineAt(t, q)
<1>1. t[q].kind = None => t[q].kind \notin Containers /\ t[q].kind # Str
  BY NoneIsNoKind
<1> QED BY <1>1, NoneIsNoKind DEF ValueAt, IsContainer, Has

\* From p down to a record everything has a record, containers up to it.
LEMMA HeldAbove ==
  ASSUME NEW t, NEW open, Tidy(t, open), NEW p \in Paths, \A a \in open : ~Under(p, a),
         NEW x \in Paths, Has(t, x), NEW z \in Between(p, x)
  PROVE  Has(t, z) /\ (z # x => IsContainer(t, z))
<1> DEFINE S == {y \in Paths : Has(t, y) /\ (y # x => IsContainer(t, y))}
<1>1. x \in S
  OBVIOUS
<1>2. ASSUME NEW y \in Paths, y \in S, Below(p, y), Under(y, x)
      PROVE  Parent(y) \in S
  <2>1. y # <<>> /\ Parent(y) \in Paths /\ Under(p, Parent(y))
    BY <1>2, AboveParent
  <2>2. IsContainer(t, Parent(y))
    BY <1>2, <2>1 DEF Tidy
  <2> QED BY <2>1, <2>2, KindsApart
<1> HIDE DEF S
<1>3. z \in S
  BY <1>1, <1>2, Climb
<1> QED BY <1>3 DEF S

\* Below a path that holds no container there is nothing.
LEMMA NothingBelow ==
  ASSUME NEW t, NEW open, Tidy(t, open), NEW q \in Paths, \A a \in open : ~Under(q, a),
         ~IsContainer(t, q), NEW x \in Paths, Below(q, x)
  PROVE  ~Has(t, x) /\ InlineAt(t, x) = None /\ ValueAt(t, x) = None
<1>1. ASSUME NEW y \in Paths, Has(t, y), Below(q, y) PROVE FALSE
  <2>1. q \in Between(q, y)
    BY <1>1, UnderRoot DEF Between, Below
  <2> QED BY <1>1, <2>1, HeldAbove DEF Below
<1>2. ~Has(t, x)
  BY <1>1
<1>3. x # <<>> /\ Under(q, Parent(x)) /\ Parent(x) \in Paths
  BY AboveParent
<1>4. ~IsContainer(t, Parent(x))
  <2>1. CASE Parent(x) = q
    BY <2>1
  <2>2. CASE Parent(x) # q
    BY <1>1, <1>3, <2>2, KindsApart DEF Below
  <2> QED BY <2>1, <2>2
<1>5. InlineAt(t, x) = None
  BY <1>4 DEF InlineAt
<1>6. t[x].kind \notin Containers /\ t[x].kind # Str
  BY <1>2, KindsApart DEF IsContainer
<1> QED BY <1>2, <1>5, <1>6, ValueMeaning DEF IsContainer

\* remove() takes all that is left of a branch.
LEMMA RemovedWithMeaning ==
  ASSUME NEW t, NEW open, Tidy(t, open), NEW c \in Paths, \A a \in open : ~Under(c, a)
  PROVE  RemovedWith(t, c) = {x \in Paths : Under(c, x) /\ Has(t, x)}
<1>1. ASSUME NEW x \in Paths, Under(c, x), Has(t, x), NEW a \in Between(c, x)
      PROVE  Has(t, a)
  BY <1>1, HeldAbove
<1>2. ASSUME NEW x \in RemovedWith(t, c)
      PROVE  x \in Paths /\ Under(c, x) /\ Has(t, x)
  BY RemovedWithHeld DEF RemovedWith
<1> QED BY <1>1, <1>2 DEF RemovedWith

\* The values of a tree of records are a document.
LEMMA ValuesType ==
  ASSUME NEW t \in Tree
  PROVE  Values(t) \in [Paths -> JsonValues]
<1>1. ASSUME NEW q \in Paths
      PROVE  InlineAt(t, q) \in JsonValues
  <2>1. CASE q # <<>> /\ IsContainer(t, Parent(q))
    <3>1. Parent(q) \in Paths /\ Last(q) \in Keys
      BY <2>1, ParentAbove
    <3>2. t[Parent(q)].inline[Last(q)] \in InlineValues
      BY <3>1 DEF Tree, Record
    <3> QED BY <2>1, <3>2 DEF InlineAt, InlineValues, JsonValues
  <2>2. CASE ~(q # <<>> /\ IsContainer(t, Parent(q)))
    <3>1. InlineAt(t, q) = None
      BY <2>2 DEF InlineAt
    <3> QED BY <3>1 DEF JsonValues
  <2> QED BY <2>1, <2>2
<1>2. ASSUME NEW q \in Paths
      PROVE  ValueAt(t, q) \in JsonValues
  <2>1. t[q] \in Record
    BY DEF Tree
  <2>2. t[q].text \in Long \cup {None}
    BY <2>1 DEF Record
  <2>3. t[q].text \in JsonValues
    BY <2>2 DEF JsonValues
  <2>4. CASE t[q].kind \in Containers
    BY <2>4, ValueMeaning DEF IsContainer, JsonValues
  <2>5. CASE t[q].kind \notin Containers /\ t[q].kind = Str
    BY <2>3, <2>5, ValueMeaning
  <2>6. CASE t[q].kind \notin Containers /\ t[q].kind # Str
    BY <1>1, <2>6, ValueMeaning DEF IsContainer
  <2> QED BY <2>4, <2>5, <2>6
<1> QED BY <1>2 DEF Values

----------------------------------------------------------------------------
(* Writes that agree on what is an object and what an array. *)

\* A container that the data names as a container has its kind.
LEMMA SteadyKind ==
  ASSUME SteadyWrites, NEW r \in Writes, NEW t, Proper(t), NEW q \in Paths,
         IsContainer(t, q), Content(r)[q] \in Containers
  PROVE  t[q].kind = Content(r)[q]
<1>1. Content(r)[q] \in KindsAt(q)
  BY DEF KindsAt
<1>2. t[q].kind \in KindsAt(q)
  BY DEF Proper, Fit, IsContainer
<1> QED BY <1>1, <1>2 DEF SteadyWrites

\* No long string lies above the target of a write.
LEMMA SteadyAbove ==
  ASSUME SteadyWrites, NEW r \in Writes, NEW t \in Tree, Proper(t), NEW a \in Paths,
         Below(a, Target(r)), Has(t, a)
  PROVE  IsContainer(t, a)
<1>1. ~TextAt(a)
  BY DEF SteadyWrites
<1>2. t[a].kind # Str
  BY <1>1 DEF Proper, Fit
<1> QED BY <1>2, KindsApart

\* The update of a container that is there merges into it.
LEMMA MergesThere ==
  ASSUME SteadyWrites, NEW r \in Writes, NEW t \in Tree, Sane(t), NEW q \in Paths,
         Content(r)[q] \in Containers, q = Target(r) \/ ~FitsInline(Content(r), q),
         IsContainer(t, q)
  PROVE  Keeps(Values(t), r, q) <=> Mode(r) = "UPDATE"
<1> DEFINE w == Content(r)
           at == Target(r)
<1>1. r \in Requests /\ at \in Paths
  BY MDEAssumption, TargetAbove
<1>2. w[q] # None
  BY Marks
<1>3. ASSUME NEW a \in Between(at, q)
      PROVE  Values(t)[a] = w[a]
  <2>1. a \in Paths /\ w[a] \in Containers
    BY <1>1, <1>2, NamedAbove DEF Between
  <2>2. Has(t, a) /\ (a # q => IsContainer(t, a))
    BY <1>1, HeldAbove, KindsApart DEF Sane
  <2>3. IsContainer(t, a)
    BY <2>2
  <2>4. t[a].kind = w[a]
    BY <2>1, <2>3, SteadyKind DEF Sane
  <2> QED BY <2>1, <2>3, <2>4, ValueMeaning DEF Values
<1> QED BY <1>3 DEF Keeps, Merges

\* What a write promises below a child of q that it does not name.
LEMMA UnnamedValue ==
  ASSUME SteadyWrites, NEW r \in Writes, NEW t \in Tree, Sane(t), NEW q \in Paths,
         Content(r)[q] \in Containers, q = Target(r) \/ ~FitsInline(Content(r), q),
         NEW e \in Children(q), Content(r)[e] = None, NEW x \in Paths, Under(e, x)
  PROVE  Effect(Values(t), r)[x] = IF Mode(r) = "UPDATE" THEN ValueAt(t, x) ELSE None
<1>1. r \in Requests /\ Values(t) \in [Paths -> JsonValues] /\ Values(t)[x] = ValueAt(t, x)
  BY MDEAssumption, ValuesType DEF Values
<1>2. Effect(Values(t), r)[x] = IF Keeps(Values(t), r, q) THEN ValueAt(t, x) ELSE None
  BY <1>1, WrittenUnnamed
<1>3. CASE IsContainer(t, q)
  BY <1>2, <1>3, MergesThere
<1>4. CASE ~IsContainer(t, q)
  <2>1. e \in Paths /\ Below(q, e)
    BY ParentMeaning DEF Children
  <2>2. Below(q, x)
    BY <2>1, UnderTransitive, UnderBoth DEF Below
  <2>3. ValueAt(t, x) = None
    BY <1>4, <2>2, NothingBelow DEF Sane
  <2> QED BY <1>2, <2>3
<1> QED BY <1>3, <1>4

----------------------------------------------------------------------------
(***************************************************************************)
(* One node restructured: u is t with another record at q, without the     *)
(* records of G below q; the inline value of q may be given up.            *)
(***************************************************************************)
Grafts(t, u, q, G) ==
  /\ \A p \in Paths : p # q /\ p \notin G /\ (q = <<>> \/ p # Parent(q)) => u[p] = t[p]
  /\ \A p \in G : Below(q, p) /\ u[p] = NoRecord
  /\ q # <<>> => /\ u[Parent(q)].kind = t[Parent(q)].kind
                 /\ u[Parent(q)].text = t[Parent(q)].text
                 /\ \A k \in Keys : \/ u[Parent(q)].inline[k] = t[Parent(q)].inline[k]
                                    \/ k = Last(q) /\ u[Parent(q)].inline[k] = None

\* Nothing changes off the branch of q.
LEMMA GraftAside ==
  ASSUME NEW t, NEW u, NEW q \in Paths, NEW G, Grafts(t, u, q, G),
         NEW x \in Paths, ~Under(q, x)
  PROVE  /\ u[x].kind = t[x].kind /\ u[x].text = t[x].text
         /\ ValueAt(u, x) = ValueAt(t, x)
<1>1. q # <<>>
  BY UnderRoot
<1>2. ASSUME NEW y \in Paths, ~Under(q, y)
      PROVE  /\ u[y].kind = t[y].kind /\ u[y].text = t[y].text
             /\ y # Parent(q) => u[y] = t[y]
  <2>1. y # q /\ y \notin G
    BY <1>2, UnderRoot DEF Grafts, Below
  <2> QED BY <1>1, <2>1 DEF Grafts
<1>3. InlineAt(u, x) = InlineAt(t, x)
  <2>1. CASE x = <<>>
    BY <2>1 DEF InlineAt
  <2>2. CASE x # <<>>
    <3> DEFINE y == Parent(x)
               k == Last(x)
    <3>1. y \in Paths /\ k \in Keys /\ Under(y, x) /\ Append(y, k) = x
      BY <2>2, ParentMeaning DEF Below
    <3>2. ~Under(q, y)
      BY <3>1, UnderTransitive
    <3>3. u[y].kind = t[y].kind
      BY <1>2, <3>1, <3>2
    <3>4. u[y].inline[k] = t[y].inline[k]
      <4>1. CASE y # Parent(q)
        BY <1>2, <3>1, <3>2, <4>1
      <4>2. CASE y = Parent(q)
        <5>1. k # Last(q)
          BY <1>1, <3>1, <4>2, ParentMeaning, UnderRoot
        <5> QED BY <1>1, <3>1, <4>2, <5>1 DEF Grafts
      <4> QED BY <4>1, <4>2
    <3> QED BY <2>2, <3>3, <3>4 DEF InlineAt, IsContainer
  <2> QED BY <2>1, <2>2
<1>4. u[x].kind = t[x].kind /\ u[x].text = t[x].text
  BY <1>2
<1>5. IsContainer(u, x) <=> IsContainer(t, x)
  BY <1>4 DEF IsContainer
<1> QED BY <1>3, <1>4, <1>5, ValueMeaning

\* After a graft every record hangs from a container when those below what
\* went went too, and what stays below q hangs from one.
LEMMA GraftTidy ==
  ASSUME NEW t, NEW u, NEW q \in Paths, NEW G, Grafts(t, u, q, G),
         NEW open, Tidy(t, open),
         \A p \in Paths \ {<<>>} : Has(t, p) /\ Parent(p) \in G => p \in G,
         \A d \in Children(q) : Has(t, d) /\ d \notin G => IsContainer(u, q),
         q # <<>> => IsContainer(t, Parent(q)) \/ Parent(q) \in open
  PROVE  Tidy(u, open)
<1> SUFFICES ASSUME NEW p \in Paths \ {<<>>}, Has(u, p)
             PROVE  IsContainer(u, Parent(p)) \/ Parent(p) \in open
  BY DEF Tidy
<1>1. Parent(p) \in Paths /\ Below(Parent(p), p) /\ p \in Children(Parent(p))
  BY ParentMeaning
<1>2. p \notin G
  BY NoTreeType DEF Grafts, Has, NoRecord
<1>3. CASE p = q
  <2>1. ~Under(q, Parent(p))
    BY <1>1, <1>3, UnderBoth DEF Below
  <2>2. u[Parent(p)].kind = t[Parent(p)].kind
    BY <1>1, <2>1, GraftAside
  <2> QED BY <1>3, <2>2 DEF IsContainer
<1>4. CASE p # q
  <2>1. Has(t, p)
    BY <1>2, <1>4 DEF Grafts, Has
  <2>2. CASE Parent(p) = q
    BY <1>1, <1>2, <2>1, <2>2
  <2>3. CASE Parent(p) # q
    <3>1. Parent(p) \notin G
      BY <1>2, <2>1
    <3>2. u[Parent(p)].kind = t[Parent(p)].kind
      BY <1>1, <2>3, <3>1 DEF Grafts
    <3>3. IsContainer(t, Parent(p)) \/ Parent(p) \in open
      BY <2>1 DEF Tidy
    <3> QED BY <3>2, <3>3 DEF IsContainer
  <2> QED BY <2>2, <2>3
<1> QED BY <1>3, <1>4

\* No record fits every path.
LEMMA NoRecordFit ==
  ASSUME NEW p \in Paths
  PROVE  Fit(p, NoRecord)
BY NoneIsNoKind DEF Fit, NoRecord, EmptyInline

\* A graft leaves fitting records when the new one fits.
LEMMA GraftProper ==
  ASSUME NEW t \in Tree, NEW u \in Tree, NEW q \in Paths, NEW G, Grafts(t, u, q, G),
         Proper(t), Fit(q, u[q])
  PROVE  Proper(u)
<1> SUFFICES ASSUME NEW p \in Paths PROVE Fit(p, u[p])
  BY DEF Proper
<1>1. CASE p = q
  BY <1>1
<1>2. CASE p # q /\ p \in G
  BY <1>2, NoRecordFit DEF Grafts
<1>3. CASE p # q /\ p \notin G /\ (q = <<>> \/ p # Parent(q))
  BY <1>3 DEF Grafts, Proper
<1>4. CASE q # <<>> /\ p = Parent(q)
  <2>1. /\ u[p].kind = t[p].kind /\ u[p].text = t[p].text
        /\ \A k \in Keys : u[p].inline[k] = t[p].inline[k] \/ u[p].inline[k] = None
    BY <1>4 DEF Grafts
  <2>2. u[p] \in Record /\ t[p] \in Record /\ Fit(p, t[p])
    BY DEF Tree, Proper
  <2>3. ASSUME u[p].kind = None PROVE u[p] = NoRecord
    <3>1. t[p] = NoRecord
      BY <2>1, <2>2, <2>3 DEF Fit
    <3>2. /\ u[p].kind = NoRecord.kind /\ u[p].text = NoRecord.text
          /\ \A k \in Keys : u[p].inline[k] = NoRecord.inline[k]
      <4>1. \A k \in Keys : NoRecord.inline[k] = None
        BY DEF NoRecord, EmptyInline
      <4> QED BY <2>1, <3>1, <4>1
    <3> QED BY <2>2, <3>2, NoTreeType, SameRecord
  <2> QED BY <2>1, <2>2, <2>3, Marks DEF Fit
<1> QED BY <1>1, <1>2, <1>3, <1>4

----------------------------------------------------------------------------
(* A call in the middle of its work. *)

\* The trees of a call are trees.
LEMMA WholeType ==
  ASSUME NEW c \in Call
  PROVE  Whole(c) \in Tree /\ c.read \in Tree
BY DEF Whole, Call, Tree

\* What a call is about.
LEMMA CallShape ==
  ASSUME NEW c \in Call, OnCourse(c)
  PROVE  /\ c.request \in Writes /\ c.request \in Requests
         /\ c.request.path \in Paths /\ Aim(c) \in Paths
         /\ c.todo \subseteq Job
         /\ \A j \in c.todo : j.path \in Paths /\ j.mode \in {"SET", "UPDATE"}
         /\ c.verify \subseteq Paths
         /\ Mode(c.request) \in {"SET", "UPDATE"}
         /\ c.tree \in Tree /\ c.out \in Seq(Put)
<1>1. c.request \in Writes /\ c.request \in Requests
  BY MDEAssumption DEF OnCourse
<1>2. c.todo \subseteq Job /\ c.verify \subseteq Paths /\ c.tree \in Tree /\ c.out \in Seq(Put)
  BY DEF Call
<1> QED BY <1>1, <1>2, TargetAbove DEF Aim, Job

\* The ancestors of the target that verifyParents has still to visit are
\* the only ones that may lack a container.
LEMMA AimHangs ==
  ASSUME SteadyWrites, NEW c \in Call, OnCourse(c), NEW s, Midway(c, s),
         NEW a \in Paths, Below(a, Aim(c))
  PROVE  IsContainer(Whole(c), a) \/ a \in c.verify
<1>1. c.request \in Writes /\ Whole(c) \in Tree /\ c.read \in Tree
  BY CallShape, WholeType
<1>2. CASE Has(c.read, a)
  <2>1. IsContainer(c.read, a)
    BY <1>1, <1>2, SteadyAbove DEF Midway, Sane, Aim
  <2>2. Whole(c)[a].kind = c.read[a].kind
    BY <1>2 DEF Midway, AboveAim
  <2> QED BY <2>1, <2>2 DEF IsContainer
<1>3. CASE ~Has(c.read, a) /\ a \notin c.verify
  <2>1. Whole(c)[a] = Container(CreatedKind(a), EmptyInline)
    BY <1>3 DEF Midway, AboveAim
  <2>2. CreatedKind(a) \in Containers
    BY DEF CreatedKind, KindOfKey, Containers
  <2> QED BY <2>1, <2>2 DEF IsContainer, Container
<1> QED BY <1>2, <1>3

\* No ancestor to visit lies at the target or below it.
LEMMA VerifyAbove ==
  ASSUME NEW c \in Call, OnCourse(c), NEW s, Midway(c, s), NEW q \in Paths, Under(Aim(c), q)
  PROVE  \A a \in c.verify : ~Under(q, a)
<1> SUFFICES ASSUME NEW a \in c.verify, Under(q, a) PROVE FALSE
  OBVIOUS
<1>1. a \in Paths /\ Aim(c) \in Paths /\ Below(a, Aim(c))
  BY CallShape DEF Midway
<1>2. Under(Aim(c), a)
  BY <1>1, UnderTransitive
<1> QED BY <1>1, <1>2, UnderBoth DEF Below

\* What a job hangs from.
LEMMA JobHangs ==
  ASSUME SteadyWrites, NEW c \in Call, OnCourse(c), NEW s, Midway(c, s), NEW j \in c.todo,
         j.path # <<>>
  PROVE  IsContainer(Whole(c), Parent(j.path)) \/ Parent(j.path) \in c.verify
<1>1. j.path \in Paths /\ JobFits(c, j)
  BY CallShape DEF Midway, JobsFit
<1>2. CASE j.path = Aim(c)
  BY <1>1, <1>2, ParentMeaning, AimHangs
<1>3. CASE j.path # Aim(c)
  BY <1>1, <1>3 DEF JobFits
<1> QED BY <1>2, <1>3

\* What destructure has to show for the node q of a job j: it grafts a new
\* record, the values below are as promised or left to the new jobs N.
Reworks(c, c2, j, N, G) ==
  LET q == j.path
      t == Whole(c)
      u == Whole(c2)
      goal == Effect(Values(c.read), c.request)
  IN /\ c2.request = c.request /\ c2.read = c.read /\ c2.verify = c.verify
     /\ N \in SUBSET Job /\ c2.todo = (c.todo \ {j}) \cup N
     /\ Grafts(t, u, q, G)
     /\ \A p \in Paths \ {<<>>} : Has(t, p) /\ Parent(p) \in G => p \in G
     /\ \A d \in Children(q) : Has(t, d) /\ d \notin G => IsContainer(u, q)
     /\ Fit(q, u[q])
     /\ \A k \in N : k.path \in Children(q) /\ JobFits(c2, k)
     /\ \A k, l \in N : k.path = l.path => k = l
     /\ ValueAt(u, q) = goal[q]
     /\ \A x \in Paths : Below(q, x) =>
          IF \E k \in N : Under(k.path, x) THEN u[x] = c.read[x]
          ELSE ValueAt(u, x) = goal[x]

\* A job done this way leaves the call midway.
LEMMA Reworked ==
  ASSUME SteadyWrites, NEW c \in Call, OnCourse(c), NEW s, Midway(c, s),
         NEW j \in c.todo, NEW c2 \in Call, OnCourse(c2),
         NEW N, NEW G, Reworks(c, c2, j, N, G),
         Carries(c2.out, s, Whole(c2))
  PROVE  Midway(c2, s)
<1> DEFINE q == j.path
           t == Whole(c)
           u == Whole(c2)
           at == Aim(c)
           goal == Effect(Values(c.read), c.request)
<1>1. /\ c2.request = c.request /\ c2.read = c.read /\ c2.verify = c.verify
      /\ Aim(c2) = at /\ Data(c2) = Data(c)
  BY DEF Reworks, Aim, Data
<1>2. JobFits(c, j) /\ Under(at, q)
  BY DEF Midway, JobsFit, JobFits
<1>3. Grafts(t, u, q, G)
  BY DEF Reworks
<1>4. /\ \A p \in Paths \ {<<>>} : Has(t, p) /\ Parent(p) \in G => p \in G
      /\ \A d \in Children(q) : Has(t, d) /\ d \notin G => IsContainer(u, q)
      /\ Fit(q, u[q])
  BY DEF Reworks
<1>5. /\ \A k : k \in c2.todo <=> (k \in c.todo /\ k # j) \/ k \in N
      /\ \A k \in N : k.path \in Children(q) /\ JobFits(c2, k)
      /\ \A k, l \in N : k.path = l.path => k = l
  BY DEF Reworks
<1>6. /\ ValueAt(u, q) = goal[q]
      /\ \A x \in Paths : Below(q, x) =>
           IF \E k \in N : Under(k.path, x) THEN u[x] = c.read[x]
           ELSE ValueAt(u, x) = goal[x]
  BY DEF Reworks
<1>7. /\ q \in Paths /\ at \in Paths /\ t \in Tree /\ u \in Tree
      /\ \A k \in c.todo : k.path \in Paths
      /\ \A k \in c2.todo : k.path \in Paths
  BY CallShape, WholeType
<1> HIDE DEF t, u, q, at, goal
<1>8. Tidy(u, c.verify)
  <2>1. Tidy(t, c.verify)
    BY DEF Midway, t
  <2>2. q # <<>> => IsContainer(t, Parent(q)) \/ Parent(q) \in c.verify
    BY JobHangs DEF q, t
  <2> QED BY <1>7, <1>3, <1>4, <2>1, <2>2, GraftTidy
<1>9. Proper(u)
  <2>1. Proper(t)
    BY DEF Midway, t
  <2> QED BY <1>7, <1>3, <1>4, <2>1, GraftProper
<1>10. \A k \in c.todo \ {j} : ~OnTrail(k.path, q)
  BY DEF Midway, JobsFit, q
<1>11. JobsFit(c2)
  <2>1. ASSUME NEW k \in c.todo \ {j}
        PROVE  JobFits(c2, k)
    <3>1. JobFits(c, k)
      BY DEF Midway, JobsFit
    <3>2. ASSUME k.path # at
          PROVE  IsContainer(u, Parent(k.path))
      <4>1. k.path \in Paths /\ Below(at, k.path)
        BY <1>7, <3>1, <3>2 DEF JobFits, Below, at
      <4>2. k.path # <<>> /\ Parent(k.path) \in Paths
        BY <1>7, <4>1, AboveParent
      <4>3. ~Under(q, Parent(k.path))
        BY <1>7, <1>10, <4>1, <4>2, ParentMeaning, UnderTransitive DEF OnTrail, Below
      <4>4. u[Parent(k.path)].kind = t[Parent(k.path)].kind
        BY <1>7, <1>3, <4>2, <4>3, GraftAside
      <4>5. IsContainer(t, Parent(k.path))
        BY <3>1, <3>2 DEF JobFits, at, t
      <4> QED BY <4>4, <4>5 DEF IsContainer
    <3> QED BY <1>1, <3>1, <3>2 DEF JobFits, at, u
  <2>2. \A k \in c2.todo : JobFits(c2, k)
    BY <1>5, <2>1
  <2>3. ASSUME NEW k \in N, NEW l \in c.todo \ {j}
        PROVE  ~OnTrail(k.path, l.path)
    <3>1. k.path \in Paths /\ k.path # <<>> /\ Parent(k.path) = q /\ Below(q, k.path)
      BY <1>5, ParentMeaning DEF Children
    <3>2. l.path \in Paths
      BY <1>7
    <3>3. ~Under(k.path, l.path)
      BY <1>7, <1>10, <3>1, <3>2, UnderTransitive DEF OnTrail, Below
    <3>4. ~Under(l.path, k.path)
      <4> SUFFICES ASSUME Under(l.path, k.path) PROVE FALSE
        OBVIOUS
      <4>1. Under(l.path, q)
        BY <3>1, <3>2, <3>3, AboveParent, UnderRoot DEF Below
      <4> QED BY <1>10, <4>1 DEF OnTrail
    <3> QED BY <3>3, <3>4 DEF OnTrail
  <2>4. ASSUME NEW k \in N, NEW l \in N, k # l
        PROVE  ~OnTrail(k.path, l.path)
    BY <1>7, <1>5, <2>4, ChildrenApart
  <2>5. \A k, l \in c.todo : k # l => ~OnTrail(k.path, l.path)
    BY DEF Midway, JobsFit
  <2>6. \A k, l \in c2.todo : k # l => ~OnTrail(k.path, l.path)
    <3> SUFFICES ASSUME NEW k \in c2.todo, NEW l \in c2.todo, k # l
                 PROVE  ~OnTrail(k.path, l.path)
      OBVIOUS
    <3> QED BY <1>5, <2>3, <2>4, <2>5 DEF OnTrail
  <2> QED BY <2>2, <2>6 DEF JobsFit
<1>12. AboveAim(c2)
  <2> SUFFICES ASSUME NEW a \in Paths, Below(a, at)
               PROVE  IF Has(c.read, a)
                        THEN /\ u[a].kind = c.read[a].kind
                             /\ \A k \in Keys : Append(a, k) # at => u[a].inline[k] = c.read[a].inline[k]
                        ELSE IF a \in c.verify THEN ~Has(u, a)
                             ELSE u[a] = Container(CreatedKind(a), EmptyInline)
    BY <1>1 DEF AboveAim, u
  <2>1. IF Has(c.read, a)
          THEN /\ t[a].kind = c.read[a].kind
               /\ \A k \in Keys : Append(a, k) # at => t[a].inline[k] = c.read[a].inline[k]
          ELSE IF a \in c.verify THEN ~Has(t, a)
               ELSE t[a] = Container(CreatedKind(a), EmptyInline)
    BY DEF Midway, AboveAim, at, t
  <2>2. ~Under(q, a)
    BY <1>7, <1>2, UnderTransitive, UnderBoth DEF Below
  <2>3. u[a].kind = t[a].kind /\ u[a].text = t[a].text
    BY <1>7, <1>3, <2>2, GraftAside
  <2>4. a # q /\ a \notin G
    BY <1>7, <1>3, <2>2, UnderRoot DEF Grafts, Below
  <2>5. CASE q = <<>> \/ a # Parent(q)
    BY <1>3, <2>1, <2>4, <2>5 DEF Grafts, Has
  <2>6. CASE q # <<>> /\ a = Parent(q)
    <3>1. \A k \in Keys : u[a].inline[k] = t[a].inline[k] \/ (k = Last(q) /\ u[a].inline[k] = None)
      BY <1>3, <2>6 DEF Grafts
    <3>2. q = at
      <4>1. ~Under(at, a)
        BY <1>7, UnderBoth DEF Below
      <4> QED BY <1>7, <1>2, <2>6, <4>1, AboveParent DEF Below
    <3>3. Append(a, Last(q)) = at
      BY <1>7, <2>6, <3>2, ParentMeaning
    <3>4. CASE Has(c.read, a)
      BY <2>1, <2>3, <3>1, <3>3, <3>4
    <3>5. CASE ~Has(c.read, a) /\ a \in c.verify
      BY <2>1, <2>3, <3>5 DEF Has
    <3>6. CASE ~Has(c.read, a) /\ a \notin c.verify
      <4>1. t[a] = Container(CreatedKind(a), EmptyInline)
        BY <2>1, <3>6
      <4>2. \A k \in Keys : t[a].inline[k] = None
        BY <4>1 DEF Container, EmptyInline
      <4>3. u[a] \in Record /\ t[a] \in Record
        BY <1>7 DEF Tree
      <4>4. u[a] = t[a]
        BY <2>3, <3>1, <4>2, <4>3, SameRecord
      <4> QED BY <3>6, <4>1, <4>4
    <3> QED BY <3>4, <3>5, <3>6
  <2> QED BY <2>5, <2>6
<1>13. Done(c2)
  <2> HIDE DEF goal
  <2> SUFFICES ASSUME NEW x \in Paths, Under(at, x)
               PROVE  IF Pending(c2, x) THEN u[x] = c.read[x] ELSE ValueAt(u, x) = goal[x]
    BY <1>1 DEF Done, u, goal
  <2>1. IF Pending(c, x) THEN t[x] = c.read[x] ELSE ValueAt(t, x) = goal[x]
    BY DEF Midway, Done, at, t, goal
  <2>2. CASE Under(q, x)
    <3>1. ASSUME NEW k \in c.todo \ {j} PROVE ~Under(k.path, x)
      BY <1>7, <1>10, <2>2, UnderLinear
    <3>2. Pending(c2, x) <=> \E k \in N : Under(k.path, x)
      BY <1>5, <3>1 DEF Pending
    <3>3. CASE x = q
      <4>1. ASSUME NEW k \in N PROVE ~Under(k.path, x)
        <5>1. k.path \in Paths /\ Below(q, k.path)
          BY <1>5, ParentMeaning DEF Children
        <5> QED BY <1>7, <3>3, <5>1, UnderBoth DEF Below
      <4> QED BY <1>6, <3>2, <3>3, <4>1
    <3>4. CASE x # q
      BY <1>1, <1>6, <2>2, <3>2, <3>4 DEF Below
    <3> QED BY <3>3, <3>4
  <2>3. CASE ~Under(q, x)
    <3>1. ASSUME NEW k \in N PROVE ~Under(k.path, x)
      <4>1. k.path \in Paths /\ Below(q, k.path)
        BY <1>5, ParentMeaning DEF Children
      <4> QED BY <1>7, <2>3, <4>1, UnderTransitive DEF Below
    <3>2. Pending(c2, x) <=> Pending(c, x)
      <4>1. ~Under(j.path, x)
        BY <2>3 DEF q
      <4> QED BY <1>5, <3>1, <4>1 DEF Pending
    <3>3. ValueAt(u, x) = ValueAt(t, x)
      BY <1>7, <1>3, <2>3, GraftAside
    <3>4. ASSUME Pending(c, x) PROVE u[x] = t[x]
      <4>1. PICK k \in c.todo : Under(k.path, x)
        BY <3>4 DEF Pending
      <4>2. k # j
        BY <2>3, <4>1 DEF q
      <4>3. x # q /\ x \notin G
        BY <1>7, <1>3, <2>3, UnderRoot DEF Grafts, Below
      <4>4. q = <<>> \/ x # Parent(q)
        <5> SUFFICES ASSUME q # <<>>, x = Parent(q) PROVE FALSE
          OBVIOUS
        <5>1. Under(x, q)
          BY <1>7, ParentMeaning DEF Below
        <5>2. Under(k.path, q)
          BY <1>7, <4>1, <5>1, UnderTransitive
        <5> QED BY <1>10, <4>2, <5>2 DEF OnTrail
      <4> QED BY <1>3, <4>3, <4>4 DEF Grafts
    <3> QED BY <2>1, <3>2, <3>3, <3>4
  <2> QED BY <2>2, <2>3
<1>14. Sane(c.read) /\ \A a \in c.verify : Below(a, at)
  BY DEF Midway, at
<1> QED BY <1>1, <1>8, <1>9, <1>11, <1>12, <1>13, <1>14 DEF Midway, u

----------------------------------------------------------------------------
(* What one restructuring does to the whole tree and emits. *)

\* On its trail a call has its own tree, off it what it read.
LEMMA OwnTree ==
  ASSUME NEW c \in Call, OnCourse(c), NEW p \in Paths
  PROVE  /\ OnTrail(p, c.request.path) => Whole(c)[p] = c.tree[p]
         /\ ~OnTrail(p, c.request.path) => Whole(c)[p] = c.read[p] /\ ~Has(c.tree, p)
         /\ Has(c.tree, p) => OnTrail(p, c.request.path) /\ Has(Whole(c), p)
BY DEF Whole, OnCourse, Has

\* What lies above a path of a trail lies on that trail.
LEMMA TrailAbove ==
  ASSUME NEW p \in Paths, NEW q \in Paths, NEW x \in Paths, OnTrail(q, x), Under(p, q)
  PROVE  OnTrail(p, x)
BY UnderTransitive, UnderLinear DEF OnTrail

\* Only the inline value of q in the record of its parent may go.
LEMMA ParentFixedMeaning ==
  ASSUME NEW t \in Tree, NEW q \in Paths
  PROVE  /\ \A p \in Paths : q = <<>> \/ p # Parent(q) => ParentFixed(t, q)[p] = t[p]
         /\ q # <<>> =>
              LET p == Parent(q)
                  u == ParentFixed(t, q)
              IN /\ u[p].kind = t[p].kind /\ u[p].text = t[p].text
                 /\ \A k \in Keys : \/ u[p].inline[k] = t[p].inline[k]
                                    \/ k = Last(q) /\ u[p].inline[k] = None
<1>1. CASE InlineAt(t, q) = None
  BY <1>1 DEF ParentFixed
<1>2. CASE InlineAt(t, q) # None
  <2> DEFINE p == Parent(q)
             old == t[p]
             new == [old EXCEPT !.inline = [old.inline EXCEPT ![Last(q)] = None]]
  <2>1. q # <<>> /\ p \in Paths /\ Last(q) \in Keys
    BY <1>2, ParentAbove DEF InlineAt
  <2>2. ParentFixed(t, q) = [t EXCEPT ![p] = new]
    BY <1>2 DEF ParentFixed
  <2>3. old \in Record /\ old.inline \in [Keys -> InlineValues]
    BY <2>1 DEF Tree, Record
  <2>4. /\ new.kind = old.kind /\ new.text = old.text
        /\ \A k \in Keys : new.inline[k] = IF k = Last(q) THEN None ELSE old.inline[k]
    BY <2>3 DEF Record
  <2>5. \A x \in Paths : ParentFixed(t, q)[x] = IF x = p THEN new ELSE t[x]
    <3> HIDE DEF new, p
    <3> QED BY <2>1, <2>2 DEF Tree
  <2> HIDE DEF new
  <2> QED BY <2>1, <2>4, <2>5
<1> QED BY <1>1, <1>2

\* From the call c a restructuring of the node q makes the call c2: it puts
\* a record at q and removes those of G, below q, in the order f.
Restructures(c, c2, q, fixed, above, G, f, record) ==
  /\ q \in Paths /\ OnTrail(q, c.request.path)
  /\ fixed \in Tree
  /\ \/ fixed = c.tree /\ above = <<>>
     \/ fixed = ParentFixed(c.tree, q) /\ above = ParentPuts(c.tree, q)
  /\ G \in SUBSET Paths /\ \A p \in G : Below(q, p) /\ OnTrail(p, c.request.path)
  /\ f \in Descents(G)
  /\ record \in Record
  /\ /\ Has(fixed, q) /\ fixed[q].inline = record.inline /\ fixed[q].text = record.text
     => fixed[q] = record
  /\ c2.request = c.request /\ c2.read = c.read
  /\ c2.tree = [Cleared(fixed, G) EXCEPT ![q] = record]
  /\ c2.out = ((c.out \o above) \o RemovePuts(f)) \o Emitted(fixed, q, record)

\* The puts of a restructuring carry the backend to the new tree.
LEMMA Restructuring ==
  ASSUME NEW c \in Call, OnCourse(c), NEW c2 \in Call,
         NEW q, NEW fixed, NEW above, NEW G, NEW f, NEW record,
         Restructures(c, c2, q, fixed, above, G, f, record),
         NEW s, Carries(c.out, s, Whole(c))
  PROVE  /\ Grafts(Whole(c), Whole(c2), q, G)
         /\ Whole(c2)[q] = record
         /\ Carries(c2.out, s, Whole(c2))
<1> DEFINE P == c.request.path
           t == Whole(c)
           u == Whole(c2)
           v == [p \in Paths |-> IF OnTrail(p, P) THEN fixed[p] ELSE c.read[p]]
           x == Cleared(v, G)
<1> SUFFICES ASSUME
         q \in Paths, OnTrail(q, P),
         fixed \in Tree,
         \/ fixed = c.tree /\ above = <<>>
         \/ fixed = ParentFixed(c.tree, q) /\ above = ParentPuts(c.tree, q),
         G \in SUBSET Paths, \A p \in G : Below(q, p) /\ OnTrail(p, P),
         f \in Descents(G),
         record \in Record,
         /\ Has(fixed, q) /\ fixed[q].inline = record.inline /\ fixed[q].text = record.text
         => fixed[q] = record,
         c2.request = c.request, c2.read = c.read,
         c2.tree = [Cleared(fixed, G) EXCEPT ![q] = record],
         c2.out = ((c.out \o above) \o RemovePuts(f)) \o Emitted(fixed, q, record)
       PROVE  /\ Grafts(t, u, q, G) /\ u[q] = record /\ Carries(c2.out, s, u)
  BY DEF Restructures
<1>1. P \in Paths /\ c.tree \in Tree /\ c.out \in Seq(Put)
  BY CallShape
<1>2. \A p \in Paths : /\ OnTrail(p, P) => t[p] = c.tree[p] /\ v[p] = fixed[p]
                       /\ ~OnTrail(p, P) => t[p] = c.read[p] /\ v[p] = c.read[p]
  BY OwnTree
<1>3. \A p \in Paths : c2.tree[p] = IF p = q THEN record ELSE IF p \in G THEN NoRecord ELSE fixed[p]
  BY DEF Cleared
<1>4. \A p \in Paths : x[p] = IF p \in G THEN NoRecord ELSE v[p]
  BY DEF Cleared
<1>5. \A p \in Paths : u[p] = IF p = q THEN record ELSE x[p]
  <2> SUFFICES ASSUME NEW p \in Paths PROVE u[p] = IF p = q THEN record ELSE x[p]
    OBVIOUS
  <2>1. CASE OnTrail(p, P)
    <3>1. u[p] = c2.tree[p]
      BY <2>1 DEF Whole
    <3> QED BY <1>2, <1>3, <1>4, <2>1, <3>1
  <2>2. CASE ~OnTrail(p, P)
    <3>1. u[p] = c.read[p] /\ p # q /\ p \notin G
      BY <2>2 DEF Whole
    <3> QED BY <1>2, <1>4, <2>2, <3>1
  <2> QED BY <2>1, <2>2
<1>6. q \notin G
  BY DEF Below
<1>7. /\ \A p \in Paths : q = <<>> \/ p # Parent(q) => v[p] = t[p]
      /\ q # <<>> =>
           /\ v[Parent(q)].kind = t[Parent(q)].kind
           /\ v[Parent(q)].text = t[Parent(q)].text
           /\ \A k \in Keys : \/ v[Parent(q)].inline[k] = t[Parent(q)].inline[k]
                              \/ k = Last(q) /\ v[Parent(q)].inline[k] = None
  <2>1. q # <<>> => Parent(q) \in Paths /\ OnTrail(Parent(q), P)
    BY <1>1, ParentAbove, TrailAbove
  <2>2. CASE fixed = c.tree
    <3>1. \A p \in Paths : v[p] = t[p]
      BY <1>2, <2>2
    <3> HIDE DEF v, t
    <3> QED BY <2>1, <3>1
  <2>3. CASE fixed = ParentFixed(c.tree, q)
    <3>1. \A p \in Paths : q = <<>> \/ p # Parent(q) => fixed[p] = c.tree[p]
      BY <1>1, <2>3, ParentFixedMeaning
    <3>2. q # <<>> =>
            /\ fixed[Parent(q)].kind = c.tree[Parent(q)].kind
            /\ fixed[Parent(q)].text = c.tree[Parent(q)].text
            /\ \A k \in Keys : \/ fixed[Parent(q)].inline[k] = c.tree[Parent(q)].inline[k]
                               \/ k = Last(q) /\ fixed[Parent(q)].inline[k] = None
      BY <1>1, <2>3, ParentFixedMeaning
    <3> HIDE DEF v, t, P
    <3> QED BY <1>2, <2>1, <3>1, <3>2
  <2> QED BY <2>2, <2>3
<1>8. Carries(above, t, v)
  <2>1. CASE fixed = c.tree /\ above = <<>>
    <3>1. \A p \in Paths : t[p] = v[p]
      BY <1>2, <2>1
    <3> HIDE DEF v, t
    <3> QED BY <2>1, <3>1, CarriesNone
  <2>2. CASE fixed = ParentFixed(c.tree, q) /\ above = ParentPuts(c.tree, q)
    <3>1. CASE InlineAt(c.tree, q) = None
      <4>1. fixed = c.tree /\ above = <<>>
        BY <2>2, <3>1 DEF ParentFixed, ParentPuts
      <4>2. \A p \in Paths : t[p] = v[p]
        BY <1>2, <4>1
      <4> HIDE DEF v, t
      <4> QED BY <4>1, <4>2, CarriesNone
    <3>2. CASE InlineAt(c.tree, q) # None
      <4>1. q # <<>>
        BY <3>2 DEF InlineAt
      <4>2. Parent(q) \in Paths /\ OnTrail(Parent(q), P)
        BY <1>1, <4>1, ParentAbove, TrailAbove
      <4>3. above = <<[path |-> Parent(q), record |-> v[Parent(q)]]>>
        BY <1>2, <2>2, <3>2, <4>2 DEF ParentPuts
      <4> HIDE DEF v, t
      <4> QED BY <1>7, <4>1, <4>2, <4>3, CarriesOne
    <3> QED BY <3>1, <3>2
  <2> QED BY <2>1, <2>2
<1>9. Carries(RemovePuts(f), v, x)
  BY CarriesRemovals
<1>10. Carries(Emitted(fixed, q, record), x, u)
  <2>1. x[q] = fixed[q] /\ u[q] = record
    BY <1>2, <1>4, <1>5, <1>6
  <2>2. CASE Emitted(fixed, q, record) = <<>>
    <3>1. fixed[q] = record
      BY <2>2 DEF Emitted
    <3>2. \A p \in Paths : x[p] = u[p]
      BY <1>5, <2>1, <3>1
    <3> HIDE DEF x, u
    <3> QED BY <2>2, <3>2, CarriesNone
  <2>3. CASE Emitted(fixed, q, record) = <<[path |-> q, record |-> u[q]]>>
    <3> HIDE DEF x, u
    <3> QED BY <1>5, <2>3, CarriesOne
  <2> QED BY <2>1, <2>2, <2>3 DEF Emitted
<1>11. /\ above \in Seq(Put) /\ RemovePuts(f) \in Seq(Put)
       /\ Emitted(fixed, q, record) \in Seq(Put)
  <2>1. above \in Seq(Put)
    <3>1. CASE above = <<>>
      BY <3>1
    <3>2. CASE above = ParentPuts(c.tree, q)
      BY <1>1, <3>2, ParentFixedType
    <3> QED BY <3>1, <3>2
  <2> QED BY <2>1, RemovePutsType, EmittedType
<1> HIDE DEF t, u, v, x
<1>12. Carries(c2.out, s, u)
  <2>1. Carries(c.out \o above, s, v)
    BY <1>1, <1>8, <1>11, CarriesBoth DEF t
  <2>2. c.out \o above \in Seq(Put)
    BY <1>1, <1>11
  <2>3. Carries((c.out \o above) \o RemovePuts(f), s, x)
    BY <1>9, <1>11, <2>1, <2>2, CarriesBoth
  <2>4. (c.out \o above) \o RemovePuts(f) \in Seq(Put)
    BY <1>11, <2>2
  <2>5. Carries(((c.out \o above) \o RemovePuts(f)) \o Emitted(fixed, q, record), s, u)
    BY <1>10, <1>11, <2>3, <2>4, CarriesBoth
  <2> QED BY <2>5
<1>13. Grafts(t, u, q, G)
  <2>1. q # <<>> => Parent(q) \in Paths /\ Parent(q) # q /\ Parent(q) \notin G
    BY ParentMeaning, UnderBoth DEF Below
  <2>2. \A p \in G : p \in Paths /\ Below(q, p) /\ p # q
    BY <1>6
  <2>3. \A p \in Paths : p # q /\ p \notin G => u[p] = v[p]
    BY <1>4, <1>5
  <2>4. \A p \in G : u[p] = NoRecord
    BY <1>4, <1>5, <2>2
  <2> QED BY <1>7, <2>1, <2>2, <2>3, <2>4 DEF Grafts
<1> QED BY <1>5, <1>12, <1>13 DEF t, u

----------------------------------------------------------------------------
(* One call of destructure. *)

\* Below the target the data of a request is what was handed in.
LEMMA DataUnder ==
  ASSUME NEW r \in Requests, Content(r) = Asked(r), NEW q \in Paths, Content(r)[q] # None, q # Target(r)
  PROVE  /\ Under(r.path, q)
         /\ r.value[q] = Content(r)[q]
<1>1. /\ r.path \in Paths /\ r.value \in [Paths -> JsonValues]
      /\ \A x \in Paths : r.value[x] # None => Under(r.path, x)
  BY DEF Requests, IsDataAt
<1>2. CASE r.value[r.path] \in Containers
  BY <1>1, <1>2 DEF Asked
<1>3. CASE r.value[r.path] \notin Containers
  BY <1>1, <1>3 DEF Asked, Target
<1> QED BY <1>2, <1>3

\* What is left to destructure has not been touched.
LEMMA JobPending ==
  ASSUME NEW c \in Call, OnCourse(c), NEW s, Midway(c, s), NEW j \in c.todo
  PROVE  /\ j.path \in Paths /\ Under(Aim(c), j.path) /\ JobFits(c, j)
         /\ j.mode \in {"SET", "UPDATE"}
         /\ \A x \in Paths : Under(j.path, x) => Whole(c)[x] = c.read[x]
<1>1. j.path \in Paths /\ Aim(c) \in Paths /\ JobFits(c, j) /\ j.mode \in {"SET", "UPDATE"}
  BY CallShape DEF Midway, JobsFit
<1>2. Under(Aim(c), j.path)
  BY <1>1 DEF JobFits
<1>3. ASSUME NEW x \in Paths, Under(j.path, x)
      PROVE  Whole(c)[x] = c.read[x]
  <2>1. Under(Aim(c), x) /\ Pending(c, x)
    BY <1>1, <1>2, <1>3, UnderTransitive DEF Pending
  <2> QED BY <2>1 DEF Midway, Done
<1> QED BY <1>1, <1>2, <1>3

\* A node whose record is a container has the kind of the data.
LEMMA JobKind ==
  ASSUME SteadyWrites, NEW c \in Call, OnCourse(c), NEW s, Midway(c, s), NEW j \in c.todo,
         Data(c)[j.path] \in Containers, NEW t, t[j.path] = Whole(c)[j.path]
  PROVE  Mismatch(t, j.path, Data(c)) <=> Has(Whole(c), j.path) /\ ~IsContainer(Whole(c), j.path)
<1>1. j.path \in Paths /\ c.request \in Writes /\ Proper(Whole(c))
  BY CallShape DEF Midway
<1>2. IsContainer(Whole(c), j.path) => Whole(c)[j.path].kind = Data(c)[j.path]
  BY <1>1, SteadyKind DEF Data
<1> QED BY <1>2 DEF Mismatch, Has, IsContainer

\* The child d of a node goes, with all below it.
Leaves(w, d, mode) == IF w[d] = None THEN mode = "SET" ELSE FitsInline(w, d)

Gone(c, j) ==
  {x \in Paths : /\ Has(Whole(c), x)
                 /\ \E d \in Children(j.path) : Under(d, x) /\ Leaves(Data(c), d, j.mode)}

\* remove() reaches exactly the records of the children that go.
LEMMA DroppedMeaning ==
  ASSUME SteadyWrites, NEW c \in Call, OnCourse(c), NEW s, Midway(c, s), NEW j \in c.todo,
         Data(c)[j.path] \in Containers, NEW fixed \in Tree,
         fixed[j.path] = Whole(c)[j.path],
         \A p \in Paths : Has(fixed, p) <=> Has(c.tree, p)
  PROVE  /\ Dropped(fixed, j.mode, j.path, Data(c)) = Gone(c, j)
         /\ \A x \in Gone(c, j) : Below(j.path, x) /\ OnTrail(x, c.request.path)
<1> DEFINE q == j.path
           w == Data(c)
           P == c.request.path
           t == Whole(c)
           mode == j.mode
<1>1. /\ q \in Paths /\ Under(Aim(c), q) /\ JobFits(c, j) /\ mode \in {"SET", "UPDATE"}
      /\ P \in Paths /\ c.request \in Requests /\ c.request \in Writes /\ Aim(c) \in Paths
      /\ Tidy(t, c.verify)
      /\ \A a \in c.verify : ~Under(q, a)
  BY JobPending, CallShape, VerifyAbove DEF Midway
<1>2. ASSUME NEW d \in Children(q)
      PROVE  d \in Paths /\ Below(q, d) /\ Parent(d) = q /\ d # <<>> /\ d # Aim(c)
             /\ \A a \in c.verify : ~Under(d, a)
  <2>1. d \in Paths /\ Below(q, d) /\ Parent(d) = q /\ d # <<>>
    BY ParentMeaning DEF Children
  <2>2. d # Aim(c)
    BY <1>1, <2>1, UnderBoth DEF Below
  <2>3. \A a \in c.verify : a \in Paths
    BY CallShape
  <2>4. \A a \in c.verify : ~Under(d, a)
    BY <1>1, <2>1, <2>3, UnderTransitive DEF Below
  <2> QED BY <2>1, <2>2, <2>4
<1>3. ASSUME NEW d \in Children(q), Leaves(w, d, mode), NEW z \in Paths, Under(d, z)
      PROVE  OnTrail(z, P)
  <2>1. CASE Under(P, q)
    BY <1>1, <1>2, <1>3, <2>1, UnderTransitive DEF OnTrail, Below
  <2>2. CASE ~Under(P, q)
    <3>1. q = Aim(c)
      BY <1>1, <2>2, DataUnder DEF JobFits, Aim, Data, SteadyWrites
    <3>2. Aim(c) # P
      BY <1>1, <2>2, <3>1, UnderRoot
    <3>3. mode = "UPDATE"
      BY <1>1, <3>1, <3>2 DEF JobFits, Aim, Target, Mode
    <3>4. w[d] # None
      BY <1>3, <3>3 DEF Leaves
    <3>5. Under(P, d)
      BY <1>1, <1>2, <3>4, DataUnder DEF Data, Aim, SteadyWrites
    <3> QED BY <1>1, <1>2, <1>3, <3>5, UnderTransitive DEF OnTrail
  <2> QED BY <2>1, <2>2
<1>4. ASSUME NEW d \in Children(q), Has(fixed, d)
      PROVE  /\ ~Mismatch(fixed, q, w)
             /\ Has(fixed, q)
  <2>1. Has(t, d)
    BY <1>2, <1>4, OwnTree
  <2>2. IsContainer(t, q)
    BY <1>1, <1>2, <2>1, UnderRoot DEF Tidy
  <2> QED BY <2>2, JobKind, KindsApart DEF Has
<1>5. ASSUME NEW d \in Children(q), Has(fixed, d)
      PROVE  Leaves(w, d, mode) <=>
               \/ w[d] # None /\ FitsInline(w, d)
               \/ Mismatch(fixed, q, w)
               \/ Has(fixed, q) /\ ModeAt(fixed, mode, q, w) = "SET" /\ w[d] = None
  BY <1>4, <1>5 DEF Leaves, ModeAt
<1>6. ASSUME NEW x \in Dropped(fixed, mode, q, w)
      PROVE  x \in Gone(c, j)
  <2>1. PICK d \in Children(q) : Has(fixed, d) /\ Leaves(w, d, mode) /\ x \in RemovedWith(fixed, d)
    BY <1>5 DEF Dropped
  <2>2. x \in Paths /\ Has(fixed, x) /\ Under(d, x)
    BY <1>2, <2>1, RemovedWithHeld DEF RemovedWith
  <2>3. Has(t, x)
    BY <2>2, OwnTree
  <2> QED BY <2>1, <2>2, <2>3 DEF Gone
<1>7. ASSUME NEW x \in Gone(c, j)
      PROVE  x \in Dropped(fixed, mode, q, w) /\ Below(q, x) /\ OnTrail(x, P)
  <2>1. x \in Paths /\ Has(t, x)
    BY DEF Gone
  <2>2. PICK d \in Children(q) : Under(d, x) /\ Leaves(w, d, mode)
    BY DEF Gone
  <2>3. ASSUME NEW z \in Between(d, x)
        PROVE  Has(fixed, z)
    <3>1. z \in Paths /\ Under(d, z)
      BY DEF Between
    <3>2. Has(t, z)
      BY <1>1, <1>2, <2>1, HeldAbove
    <3>3. OnTrail(z, P)
      BY <1>3, <2>2, <3>1
    <3> QED BY <3>1, <3>2, <3>3, OwnTree DEF Has
  <2>4. x \in RemovedWith(fixed, d)
    BY <2>1, <2>2, <2>3 DEF RemovedWith
  <2>5. d \in Between(d, x)
    BY <1>2, <2>2, UnderRoot DEF Between
  <2>6. Has(fixed, d)
    BY <2>3, <2>5
  <2>7. x \in Dropped(fixed, mode, q, w)
    BY <1>5, <2>2, <2>4, <2>6 DEF Dropped
  <2>8. Below(q, x)
    BY <1>1, <1>2, <2>1, <2>2, UnderTransitive, UnderBoth DEF Below
  <2>9. OnTrail(x, P)
    BY <1>3, <2>1, <2>2
  <2> QED BY <2>7, <2>8, <2>9
<1> QED BY <1>6, <1>7

\* A long string displaces exactly the records below its path.
LEMMA DroppedByTextMeaning ==
  ASSUME SteadyWrites, NEW c \in Call, OnCourse(c), NEW s, Midway(c, s), NEW j \in c.todo,
         Data(c)[j.path] \in Long
  PROVE  /\ DroppedByText(c.tree, j.path) = {x \in Paths : Has(Whole(c), x) /\ Below(j.path, x)}
         /\ \A x \in Paths : Below(j.path, x) => OnTrail(x, c.request.path)
<1> DEFINE q == j.path
           P == c.request.path
           t == Whole(c)
<1>1. /\ q \in Paths /\ Under(Aim(c), q) /\ JobFits(c, j)
      /\ P \in Paths /\ c.request \in Requests /\ c.request \in Writes
      /\ Tidy(t, c.verify)
      /\ \A a \in c.verify : ~Under(q, a)
  BY JobPending, CallShape, VerifyAbove DEF Midway
<1>2. q # Aim(c) /\ Data(c)[q] # None
  BY <1>1, DataShape, Marks DEF Data, Aim
<1>3. Under(P, q)
  BY <1>1, <1>2, DataUnder DEF Data, Aim, SteadyWrites
<1>4. \A x \in Paths : Under(q, x) => OnTrail(x, P)
  BY <1>1, <1>3, UnderTransitive DEF OnTrail
<1>5. ASSUME NEW x \in DroppedByText(c.tree, q)
      PROVE  x \in Paths /\ Has(t, x) /\ Below(q, x)
  <2>1. PICK d \in Children(q) : x \in RemovedWith(c.tree, d)
    BY DEF DroppedByText
  <2>2. d \in Paths /\ Below(q, d)
    BY ParentMeaning DEF Children
  <2>3. x \in Paths /\ Has(c.tree, x) /\ Under(d, x)
    BY <2>1, <2>2, RemovedWithHeld DEF RemovedWith
  <2>4. Below(q, x)
    BY <1>1, <2>2, <2>3, UnderTransitive, UnderBoth DEF Below
  <2> QED BY <2>3, <2>4, OwnTree
<1>6. ASSUME NEW x \in Paths, Has(t, x), Below(q, x)
      PROVE  x \in DroppedByText(c.tree, q)
  <2>1. \A z \in Between(q, x) : Has(t, z) /\ (z # x => IsContainer(t, z))
    BY <1>1, <1>6, HeldAbove
  <2>2. q \in Between(q, x)
    BY <1>1, <1>6, UnderRoot DEF Between, Below
  <2>3. IsContainer(t, q)
    BY <1>6, <2>1, <2>2 DEF Below
  <2>4. IsContainer(c.tree, q)
    BY <1>1, <1>4, <2>3, OwnTree, UnderRoot DEF IsContainer
  <2> DEFINE d == Toward(q, x)
  <2>5. d \in Children(q) /\ Under(d, x)
    BY <1>1, <1>6, TowardMeaning
  <2> HIDE DEF d
  <2>6. d \in Paths /\ Below(q, d)
    BY <2>5, ParentMeaning DEF Children
  <2>7. ASSUME NEW z \in Between(d, x)
        PROVE  Has(c.tree, z)
    <3>1. z \in Paths /\ Under(q, z) /\ Under(z, x)
      BY <1>1, <2>6, UnderTransitive DEF Between, Below
    <3>2. Has(t, z)
      BY <2>1, <3>1 DEF Between
    <3> QED BY <1>4, <3>1, <3>2, OwnTree DEF Has
  <2>8. x \in RemovedWith(c.tree, d)
    BY <1>6, <2>5, <2>7 DEF RemovedWith
  <2>9. Has(c.tree, d)
    BY <2>5, <2>6, <2>7, UnderRoot DEF Between
  <2> QED BY <2>4, <2>5, <2>8, <2>9 DEF DroppedByText
<1> QED BY <1>4, <1>5, <1>6 DEF Below

\* What the new record of a node keeps inline for its child d.
LEMMA NewInlineMeaning ==
  ASSUME SteadyWrites, NEW c \in Call, OnCourse(c), NEW s, Midway(c, s), NEW j \in c.todo,
         Data(c)[j.path] \in Containers, NEW fixed,
         fixed[j.path] = Whole(c)[j.path],
         NEW d \in Children(j.path)
  PROVE  NewInline(fixed, j.mode, j.path, Data(c))[Last(d)] =
           IF Data(c)[d] = None
             THEN IF IsContainer(Whole(c), j.path) /\ j.mode = "UPDATE"
                    THEN Whole(c)[j.path].inline[Last(d)] ELSE None
           ELSE IF FitsInline(Data(c), d) /\ Data(c)[d] # Null THEN Data(c)[d]
           ELSE None
<1> DEFINE q == j.path
           w == Data(c)
           k == Last(d)
           base == IF Has(fixed, q) /\ ModeAt(fixed, j.mode, q, w) = "UPDATE"
                     THEN fixed[q].inline ELSE EmptyInline
<1>1. d \in Paths /\ d # <<>> /\ k \in Keys /\ Append(q, k) = d
  BY ParentMeaning DEF Children
<1>2. NewInline(fixed, j.mode, q, w)[k] =
        IF w[d] = None THEN base[k]
        ELSE IF ~FitsInline(w, d) \/ w[d] = Null THEN None
        ELSE w[d]
  BY <1>1 DEF NewInline
<1>3. base[k] = IF IsContainer(Whole(c), q) /\ j.mode = "UPDATE"
                  THEN Whole(c)[q].inline[k] ELSE None
  <2>1. EmptyInline[k] = None
    BY <1>1 DEF EmptyInline
  <2>2. Has(fixed, q) <=> Has(Whole(c), q)
    BY DEF Has
  <2>3. Mismatch(fixed, q, w) <=> Has(Whole(c), q) /\ ~IsContainer(Whole(c), q)
    BY JobKind
  <2>4. IsContainer(Whole(c), q) => Has(Whole(c), q)
    BY KindsApart
  <2> QED BY <2>1, <2>2, <2>3, <2>4 DEF ModeAt
<1> QED BY <1>2, <1>3

\* The effect of DestructureNode for the job j on a call.
NodeDone(c, c2, j, fixed, above, f, record) ==
  LET q == j.path
      w == Data(c)
      dropped == Dropped(fixed, j.mode, q, w)
  IN /\ w[q] \in Containers
     /\ fixed \in Tree
     /\ \/ fixed = c.tree /\ above = <<>>
        \/ fixed = ParentFixed(c.tree, q) /\ above = ParentPuts(c.tree, q)
     /\ f \in Descents(dropped)
     /\ record = Container(w[q], NewInline(fixed, j.mode, q, w))
     /\ c2.request = c.request /\ c2.read = c.read /\ c2.verify = c.verify
     /\ c2.tree = [Cleared(fixed, dropped) EXCEPT ![q] = record]
     /\ c2.out = ((c.out \o above) \o RemovePuts(f)) \o Emitted(fixed, q, record)
     /\ c2.todo = (c.todo \ {j}) \cup [path : Dedicated(w, q),
                                       mode : {ModeAt(c.tree, j.mode, q, w)}]

\* One call of destructure for an object or an array keeps the promise.
LEMMA NodeMidway ==
  ASSUME SteadyWrites, NEW c \in Call, OnCourse(c), NEW s, Midway(c, s), NEW j \in c.todo,
         NEW c2 \in Call, OnCourse(c2),
         NEW fixed, NEW above, NEW f, NEW record,
         NodeDone(c, c2, j, fixed, above, f, record)
  PROVE  Midway(c2, s)
<1> DEFINE q == j.path
           w == Data(c)
           r == c.request
           R == c.read
           t == Whole(c)
           u == Whole(c2)
           G == Gone(c, j)
           mode == ModeAt(c.tree, j.mode, q, w)
           N == [path : Dedicated(w, q), mode : {mode}]
           goal == Effect(Values(R), r)
<1>1. /\ w[q] \in Containers
      /\ fixed \in Tree
      /\ \/ fixed = c.tree /\ above = <<>>
         \/ fixed = ParentFixed(c.tree, q) /\ above = ParentPuts(c.tree, q)
      /\ record = Container(w[q], NewInline(fixed, j.mode, q, w))
      /\ c2.request = r /\ c2.read = R /\ c2.verify = c.verify
      /\ f \in Descents(Dropped(fixed, j.mode, q, w))
  BY DEF NodeDone
<1>2. /\ c2.tree = [Cleared(fixed, Dropped(fixed, j.mode, q, w)) EXCEPT ![q] = record]
      /\ c2.out = ((c.out \o above) \o RemovePuts(f)) \o Emitted(fixed, q, record)
      /\ c2.todo = (c.todo \ {j}) \cup N
  BY DEF NodeDone
<1>3. /\ q \in Paths /\ Under(Aim(c), q) /\ JobFits(c, j) /\ j.mode \in {"SET", "UPDATE"}
      /\ r \in Writes /\ r \in Requests /\ Aim(c) = Target(r) /\ Aim(c) \in Paths /\ w = Content(r)
      /\ c.tree \in Tree /\ R \in Tree /\ t \in Tree /\ OnTrail(q, r.path)
      /\ Mode(r) \in {"SET", "UPDATE"}
      /\ Sane(R) /\ Proper(t)
      /\ \A x \in Paths : Under(q, x) => t[x] = R[x]
  BY JobPending, CallShape, WholeType DEF Midway, Aim, Data, OnCourse
<1>4. fixed[q] = t[q] /\ c.tree[q] = t[q]
  <2>1. c.tree[q] = t[q]
    BY <1>3, OwnTree
  <2>2. q = <<>> \/ q # Parent(q)
    BY <1>3, ParentMeaning DEF Below
  <2>3. fixed[q] = c.tree[q]
    BY <1>3, <1>1, <2>2, ParentFixedMeaning
  <2> QED BY <2>1, <2>3
<1>5. \A p \in Paths : Has(fixed, p) <=> Has(c.tree, p)
  BY <1>3, <1>1, ParentFixedType
<1>6. /\ Dropped(fixed, j.mode, q, w) = G
      /\ \A x \in G : Below(q, x) /\ OnTrail(x, r.path)
  BY <1>4, <1>5, <1>1, DroppedMeaning
<1>7. w \in [Paths -> JsonValues] /\ NewInline(fixed, j.mode, q, w) \in [Keys -> InlineValues]
  BY <1>3, <1>1, ContentType, NewInlineType
<1>8. /\ record \in Record /\ record.kind = w[q] /\ record.text = None
      /\ record.inline = NewInline(fixed, j.mode, q, w)
  BY <1>7, <1>1, ContainerType DEF Container
<1>9. Has(fixed, q) /\ fixed[q].inline = record.inline /\ fixed[q].text = record.text
        => fixed[q] = record
  <2> SUFFICES ASSUME Has(fixed, q), fixed[q].inline = record.inline, fixed[q].text = None
               PROVE  fixed[q] = record
    BY <1>8
  <2>1. Fit(q, t[q])
    BY <1>3 DEF Proper
  <2>2. t[q].kind # Str
    BY <1>4, <2>1, Marks DEF Fit
  <2>3. IsContainer(t, q)
    BY <1>3, <1>4, <2>2, KindsApart DEF Has
  <2>4. t[q].kind = w[q]
    BY <1>3, <1>1, <2>3, SteadyKind
  <2>5. fixed[q] \in Record
    BY <1>1, <1>3 DEF Tree
  <2> QED BY <1>4, <1>8, <2>4, <2>5, SameRecord
<1>10. /\ Grafts(t, u, q, G) /\ u[q] = record /\ Carries(c2.out, s, u)
  <2>1. G \in SUBSET Paths /\ f \in Descents(G)
    BY <1>6, <1>1 DEF Gone
  <2>2. c2.tree = [Cleared(fixed, G) EXCEPT ![q] = record]
    BY <1>6, <1>2
  <2>3. Carries(c.out, s, t)
    BY DEF Midway
  <2>4. \/ fixed = c.tree /\ above = <<>>
        \/ fixed = ParentFixed(c.tree, q) /\ above = ParentPuts(c.tree, q)
    BY <1>1
  <2>5. /\ q \in Paths /\ OnTrail(q, c.request.path)
        /\ \A p \in G : Below(q, p) /\ OnTrail(p, c.request.path)
        /\ record \in Record
        /\ c2.out = ((c.out \o above) \o RemovePuts(f)) \o Emitted(fixed, q, record)
    BY <1>3, <1>6, <1>8, <1>2
  <2> HIDE DEF G, q
  <2>6. Restructures(c, c2, q, fixed, above, G, f, record)
    BY <1>9, <1>1, <2>1, <2>2, <2>4, <2>5 DEF Restructures
  <2> QED BY <2>3, <2>6, Restructuring
<1>11. IsContainer(u, q)
  BY <1>8, <1>10, <1>1 DEF IsContainer
<1>12. ASSUME NEW d \in Children(q)
       PROVE  /\ d \in Paths /\ d # <<>> /\ Parent(d) = q /\ Below(q, d) /\ d # Target(r)
              /\ Under(Aim(c), d)
              /\ record.inline[Last(d)] =
                   IF w[d] = None
                     THEN IF IsContainer(t, q) /\ j.mode = "UPDATE"
                            THEN t[q].inline[Last(d)] ELSE None
                   ELSE IF FitsInline(w, d) /\ w[d] # Null THEN w[d] ELSE None
  <2>1. d \in Paths /\ d # <<>> /\ Parent(d) = q /\ Below(q, d)
    BY ParentMeaning DEF Children
  <2>2. Under(Aim(c), d) /\ d # Target(r)
    BY <1>3, <2>1, UnderTransitive, UnderBoth DEF Below
  <2>3. record.inline[Last(d)] =
          IF w[d] = None
            THEN IF IsContainer(t, q) /\ j.mode = "UPDATE"
                   THEN t[q].inline[Last(d)] ELSE None
          ELSE IF FitsInline(w, d) /\ w[d] # Null THEN w[d] ELSE None
    BY <1>4, <1>8, <1>1, NewInlineMeaning
  <2> QED BY <2>1, <2>2, <2>3
<1>13. ASSUME NEW p \in Paths \ {<<>>}, Has(t, p), Parent(p) \in G
       PROVE  p \in G
  <2>1. PICK d \in Children(q) : Under(d, Parent(p)) /\ Leaves(w, d, j.mode)
    BY <1>13 DEF Gone
  <2>2. d \in Paths /\ Parent(p) \in Paths /\ Under(Parent(p), p)
    BY <1>12, ParentAbove
  <2>3. Under(d, p)
    BY <2>1, <2>2, UnderTransitive
  <2> QED BY <1>13, <2>1, <2>3 DEF Gone
<1>14. Fit(q, record)
  <2>1. record.kind \in KindsAt(q)
    BY <1>3, <1>8, <1>1 DEF KindsAt
  <2>2. record.kind # None /\ record.kind # Str
    BY <1>8, <1>1, NoneIsNoKind
  <2>3. ASSUME NEW k \in Keys, Append(q, k) \in Paths, record.inline[k] \in Containers
        PROVE  record.inline[k] \in KindsAt(Append(q, k))
    <3> DEFINE d == Append(q, k)
    <3>1. d \in Children(q) /\ Last(d) = k
      BY <1>3, <2>3, ChildMeaning
    <3>2. record.inline[k] # None
      BY <2>3, Marks
    <3>3. record.inline[k] = w[d] \/ record.inline[k] = t[q].inline[k]
      BY <1>12, <3>1, <3>2
    <3>4. CASE record.inline[k] = w[d]
      BY <1>3, <2>3, <3>4 DEF KindsAt
    <3>5. CASE record.inline[k] = t[q].inline[k]
      BY <1>3, <2>3, <3>5 DEF Proper, Fit
    <3> QED BY <3>3, <3>4, <3>5
  <2> QED BY <1>8, <2>1, <2>2, <2>3 DEF Fit
<1>15. /\ N \in SUBSET Job
       /\ \A k, l \in N : k.path = l.path => k = l
       /\ \A k \in N : k.path \in Dedicated(w, q) /\ k.mode = mode
       /\ \A d \in Dedicated(w, q) : \E k \in N : k.path = d
  <2>1. mode \in {"SET", "UPDATE"}
    BY <1>3 DEF ModeAt
  <2>2. \A d \in Dedicated(w, q) : d \in Paths
    BY DEF Dedicated, Children
  <2> DEFINE D == Dedicated(w, q)
  <2> HIDE DEF mode, D
  <2>3. N = [path : D, mode : {mode}]
    BY DEF D
  <2>4. \A k \in N : k = [path |-> k.path, mode |-> mode] /\ k.path \in D /\ k.mode = mode
    BY <2>3
  <2>5. \A d \in D : [path |-> d, mode |-> mode] \in N
    BY <2>3
  <2>6. N \in SUBSET Job
    BY <2>1, <2>2, <2>3 DEF Job, D
  <2>7. \A k, l \in N : k.path = l.path => k = l
    BY <2>4
  <2>8. \A d \in D : \E k \in N : k.path = d
    BY <2>5
  <2> QED BY <2>4, <2>6, <2>7, <2>8 DEF D
<1>16. ASSUME NEW k \in N
       PROVE  k.path \in Children(q) /\ JobFits(c2, k)
  <2> DEFINE d == k.path
  <2>1. d \in Children(q) /\ w[d] # None /\ ~FitsInline(w, d) /\ k.mode = mode
    BY <1>15 DEF Dedicated
  <2>2. d \in Paths /\ Parent(d) = q /\ Below(q, d) /\ d # Aim(c) /\ Under(Aim(c), d)
    BY <1>3, <1>12, <2>1
  <2>3. mode = Mode(r) \/ \A x \in Paths : Under(d, x) => ValueAt(R, x) = None
    <3>1. CASE Mismatch(c.tree, q, w)
      <4>1. ~IsContainer(t, q)
        BY <1>4, <1>1, <3>1, JobKind
      <4>2. ~IsContainer(R, q)
        BY <1>3, <4>1, UnderRoot DEF IsContainer
      <4>3. ASSUME NEW x \in Paths, Under(d, x)
            PROVE  ValueAt(R, x) = None
        <5>1. Below(q, x)
          BY <1>3, <2>2, <4>3, UnderTransitive, UnderBoth DEF Below
        <5> QED BY <1>3, <4>2, <5>1, NothingBelow DEF Sane
      <4> QED BY <4>3
    <3>2. CASE ~Mismatch(c.tree, q, w)
      <4>1. mode = j.mode
        BY <3>2 DEF ModeAt
      <4>2. j.mode = Mode(r) \/ \A x \in Paths : Under(q, x) => ValueAt(R, x) = None
        BY <1>3 DEF JobFits
      <4>3. \A x \in Paths : Under(d, x) => Under(q, x)
        BY <1>3, <2>2, UnderTransitive DEF Below
      <4> QED BY <4>1, <4>2, <4>3
    <3> QED BY <3>1, <3>2
  <2>4. Aim(c2) = Aim(c) /\ Data(c2) = w
    BY <1>1 DEF Aim, Data
  <2> HIDE DEF d, mode
  <2> QED BY <1>11, <1>1, <2>1, <2>2, <2>3, <2>4 DEF JobFits, d
<1>17. ValueAt(u, q) = goal[q]
  <2>1. ValueAt(u, q) = w[q]
    BY <1>8, <1>10, <1>11, ValueMeaning
  <2>2. goal[q] = w[q]
    BY <1>3, <1>1, Marks DEF Effect, After
  <2> QED BY <2>1, <2>2
<1>18. ASSUME NEW x \in Paths, Below(q, x)
       PROVE  IF \E k \in N : Under(k.path, x) THEN u[x] = R[x] ELSE ValueAt(u, x) = goal[x]
  <2> DEFINE d == Toward(q, x)
  <2>1. /\ d \in Children(q) /\ Under(d, x)
        /\ \A e \in Children(q) : Under(e, x) => e = d
    BY <1>3, <1>18, TowardMeaning
  <2> HIDE DEF d
  <2>2. (\E k \in N : Under(k.path, x)) <=> d \in Dedicated(w, q)
    <3> HIDE DEF N
    <3> QED BY <1>15, <2>1 DEF Dedicated
  <2>3. /\ d \in Paths /\ d # <<>> /\ Parent(d) = q /\ Below(q, d) /\ d # Target(r)
        /\ Under(Target(r), d) /\ Under(Target(r), x)
    BY <1>3, <1>12, <2>1, UnderTransitive
  <2>4. ASSUME NEW y \in Paths, Under(d, y)
        PROVE  /\ t[y] = R[y] /\ y # q /\ (q = <<>> \/ y # Parent(q))
               /\ \A e \in Children(q) : Under(e, y) => e = d
               /\ y \notin G => u[y] = R[y]
    <3>1. Below(q, y)
      BY <1>3, <2>3, <2>4, UnderTransitive, UnderBoth DEF Below
    <3>2. t[y] = R[y] /\ y # q
      BY <1>3, <3>1 DEF Below
    <3>3. q = <<>> \/ y # Parent(q)
      BY <1>3, <3>1, ParentMeaning, UnderBoth DEF Below
    <3>4. \A e \in Children(q) : Under(e, y) => e = d
      BY <1>3, <2>1, <2>4, <3>1, TowardMeaning
    <3> QED BY <1>10, <3>2, <3>3, <3>4 DEF Grafts
  <2>5. ASSUME NEW y \in Paths, Under(d, y)
        PROVE  IF Leaves(w, d, j.mode) THEN ~Has(u, y) ELSE u[y] = R[y]
    <3>1. CASE Leaves(w, d, j.mode)
      <4>1. CASE y \in G
        <5>1. u[y] = NoRecord
          BY <1>10, <4>1 DEF Grafts
        <5> QED BY <3>1, <5>1 DEF Has, NoRecord
      <4>2. CASE y \notin G
        <5>1. ~Has(t, y)
          BY <2>1, <2>5, <3>1, <4>2 DEF Gone
        <5>2. u[y] = t[y]
          BY <2>4, <2>5, <4>2
        <5> QED BY <3>1, <5>1, <5>2 DEF Has
      <4> QED BY <4>1, <4>2
    <3>2. CASE ~Leaves(w, d, j.mode)
      <4>1. y \notin G
        BY <2>4, <2>5, <3>2 DEF Gone
      <4> QED BY <2>4, <2>5, <3>2, <4>1
    <3> QED BY <3>1, <3>2
  <2>6. x # d => Below(d, x) /\ x # <<>> /\ Parent(x) \in Paths /\ Under(d, Parent(x))
    BY <2>1, <2>3, AboveParent DEF Below
  <2>7. InlineAt(u, d) = record.inline[Last(d)]
    BY <1>10, <1>11, <2>3 DEF InlineAt
  <2>8. ASSUME Leaves(w, d, j.mode)
        PROVE  ValueAt(u, x) = IF x = d THEN record.inline[Last(d)] ELSE None
    <3>1. ~Has(u, x)
      BY <2>1, <2>5, <2>8
    <3>2. u \in Tree
      BY WholeType
    <3>3. ValueAt(u, x) = InlineAt(u, x)
      BY <3>1, <3>2, ValueMeaning
    <3>4. ASSUME x # d PROVE InlineAt(u, x) = None
      <4>1. ~Has(u, Parent(x))
        BY <2>5, <2>6, <2>8, <3>4
      <4>2. ~IsContainer(u, Parent(x))
        BY <4>1, KindsApart
      <4> QED BY <4>2 DEF InlineAt
    <3> QED BY <2>7, <3>3, <3>4
  <2>9. CASE d \in Dedicated(w, q)
    <3>1. ~Leaves(w, d, j.mode)
      BY <2>9 DEF Dedicated, Leaves
    <3> QED BY <2>1, <2>2, <2>5, <2>9, <3>1
  <2>10. CASE d \notin Dedicated(w, q) /\ w[d] # None
    <3>1. FitsInline(w, d)
      BY <2>1, <2>10 DEF Dedicated
    <3>2. ValueAt(u, x) = IF x = d THEN record.inline[Last(d)] ELSE None
      BY <2>8, <2>10, <3>1 DEF Leaves
    <3>3. CASE x = d
      <4>1. record.inline[Last(d)] = IF w[d] = Null THEN None ELSE w[d]
        BY <1>12, <2>1, <2>10, <3>1
      <4>2. goal[x] = IF w[d] = Null THEN None ELSE w[d]
        BY <1>3, <2>3, <2>10, <3>3 DEF Effect, After
      <4> QED BY <2>2, <2>10, <3>2, <3>3, <4>1, <4>2
    <3>4. CASE x # d
      <4>1. goal[x] = None
        BY <1>3, <2>3, <2>6, <2>10, <3>1, <3>4, ValuesType, WrittenBelowLeaf
      <4> QED BY <2>2, <2>10, <3>2, <3>4, <4>1
    <3> QED BY <3>3, <3>4
  <2>11. CASE d \notin Dedicated(w, q) /\ w[d] = None
    <3>1. goal[x] = IF Mode(r) = "UPDATE" THEN ValueAt(R, x) ELSE None
      <4>1. q = Target(r) \/ ~FitsInline(w, q)
        BY <1>3 DEF JobFits
      <4> QED BY <1>3, <1>1, <2>1, <2>11, <4>1, UnnamedValue
    <3>2. j.mode = Mode(r) \/ ValueAt(R, x) = None
      BY <1>3, <1>18 DEF JobFits, Below
    <3>3. CASE j.mode = "SET"
      <4>1. ValueAt(u, x) = None
        BY <1>12, <2>1, <2>8, <2>11, <3>3 DEF Leaves
      <4> QED BY <2>2, <2>11, <3>1, <3>2, <3>3, <4>1
    <3>4. CASE j.mode = "UPDATE"
      <4>1. \A y \in Paths : Under(d, y) => u[y] = R[y]
        BY <2>5, <2>11, <3>4 DEF Leaves
      <4>2. u[x] = R[x]
        BY <2>1, <4>1
      <4>3. InlineAt(u, x) = InlineAt(R, x)
        <5>1. CASE x = d
          <6>1. record.inline[Last(d)] = IF IsContainer(t, q) THEN t[q].inline[Last(d)] ELSE None
            BY <1>12, <2>1, <2>11, <3>4
          <6>2. t[q] = R[q]
            BY <1>3, UnderRoot
          <6> QED BY <2>3, <2>7, <5>1, <6>1, <6>2 DEF InlineAt, IsContainer
        <5>2. CASE x # d
          <6>1. u[Parent(x)] = R[Parent(x)]
            BY <2>6, <4>1, <5>2
          <6> QED BY <6>1 DEF InlineAt, IsContainer
        <5> QED BY <5>1, <5>2
      <4>4. ValueAt(u, x) = ValueAt(R, x)
        BY <4>2, <4>3, ValueMeaning DEF IsContainer
      <4> QED BY <1>3, <2>2, <2>11, <3>1, <3>2, <3>4, <4>4
    <3> QED BY <1>3, <3>3, <3>4
  <2> QED BY <2>9, <2>10, <2>11
<1>19. \A d \in Children(q) : Has(t, d) /\ d \notin G => IsContainer(u, q)
  BY <1>11
<1>20. Fit(q, u[q])
  BY <1>10, <1>14
<1> HIDE DEF N, G
<1>21. /\ \A k \in N : k.path \in Children(q) /\ JobFits(c2, k)
       /\ \A p \in Paths \ {<<>>} : Has(t, p) /\ Parent(p) \in G => p \in G
  BY <1>13, <1>16
<1>22. \A x \in Paths : Below(q, x) =>
         IF \E k \in N : Under(k.path, x) THEN u[x] = R[x] ELSE ValueAt(u, x) = goal[x]
  BY <1>18
<1>23. Reworks(c, c2, j, N, G)
  BY <1>10, <1>15, <1>17, <1>19, <1>20, <1>21, <1>22, <1>1, <1>2 DEF Reworks
<1> QED BY <1>10, <1>23, Reworked

\* The effect of DestructureText for the job j on a call.
TextDone(c, c2, j, f) ==
  LET q == j.path
      record == Text(Data(c)[q])
      dropped == DroppedByText(c.tree, q)
  IN /\ Data(c)[q] \in Long
     /\ f \in Descents(dropped)
     /\ c2.request = c.request /\ c2.read = c.read /\ c2.verify = c.verify
     /\ c2.tree = [Cleared(c.tree, dropped) EXCEPT ![q] = record]
     /\ c2.out = (c.out \o RemovePuts(f)) \o Emitted(c.tree, q, record)
     /\ c2.todo = c.todo \ {j}

\* One call of destructure for a long string keeps the promise.
LEMMA TextMidway ==
  ASSUME SteadyWrites, NEW c \in Call, OnCourse(c), NEW s, Midway(c, s), NEW j \in c.todo,
         NEW c2 \in Call, OnCourse(c2), NEW f, TextDone(c, c2, j, f)
  PROVE  Midway(c2, s)
<1> DEFINE q == j.path
           w == Data(c)
           r == c.request
           R == c.read
           t == Whole(c)
           u == Whole(c2)
           record == Text(w[q])
           G == DroppedByText(c.tree, q)
           goal == Effect(Values(R), r)
<1>1. /\ w[q] \in Long
      /\ f \in Descents(G)
      /\ c2.request = r /\ c2.read = R /\ c2.verify = c.verify
      /\ c2.tree = [Cleared(c.tree, G) EXCEPT ![q] = record]
      /\ c2.out = (c.out \o RemovePuts(f)) \o Emitted(c.tree, q, record)
      /\ c2.todo = c.todo \ {j}
  BY DEF TextDone
<1>2. /\ q \in Paths /\ Under(Aim(c), q) /\ JobFits(c, j)
      /\ r \in Writes /\ r \in Requests /\ Aim(c) = Target(r) /\ Aim(c) \in Paths /\ w = Content(r)
      /\ c.tree \in Tree /\ c.out \in Seq(Put) /\ R \in Tree /\ u \in Tree /\ OnTrail(q, r.path)
      /\ Proper(t)
  BY JobPending, CallShape, WholeType DEF Midway, Aim, Data, OnCourse
<1>3. /\ w[q] # None /\ w[q] # Null /\ q # Target(r)
  BY <1>1, <1>2, DataShape, Marks
<1>4. /\ G = {x \in Paths : Has(t, x) /\ Below(q, x)}
      /\ \A x \in Paths : Below(q, x) => OnTrail(x, r.path)
  BY <1>1, DroppedByTextMeaning
<1>5. record \in Record /\ record.kind = Str /\ record.text = w[q] /\ record.inline = EmptyInline
  BY <1>1, TextType DEF Text
<1>6. c.tree[q] = t[q]
  BY <1>2, OwnTree
<1>7. /\ Has(c.tree, q) /\ c.tree[q].inline = record.inline /\ c.tree[q].text = record.text
      => c.tree[q] = record
  <2> SUFFICES ASSUME Has(c.tree, q), c.tree[q].inline = record.inline, c.tree[q].text = w[q]
               PROVE  c.tree[q] = record
    BY <1>5
  <2>1. Fit(q, t[q])
    BY <1>2 DEF Proper
  <2>2. ~IsContainer(c.tree, q)
    BY <1>3, <1>6, <2>1 DEF Fit, IsContainer
  <2>3. c.tree[q].kind = Str
    BY <1>2, <2>2, KindsApart
  <2>4. c.tree[q] \in Record
    BY <1>2 DEF Tree
  <2> QED BY <1>5, <2>3, <2>4, SameRecord
<1>8. Grafts(t, u, q, G) /\ u[q] = record /\ Carries(c2.out, s, u)
  <2>1. Carries(c.out, s, t)
    BY DEF Midway
  <2>2. c2.out = ((c.out \o <<>>) \o RemovePuts(f)) \o Emitted(c.tree, q, record)
    <3>1. c.out \o <<>> = c.out
      BY <1>2
    <3> QED BY <1>1, <3>1
  <2>3. G \in SUBSET Paths /\ \A p \in G : Below(q, p) /\ OnTrail(p, r.path)
    BY <1>4
  <2> HIDE DEF G, q, record
  <2>4. Restructures(c, c2, q, c.tree, <<>>, G, f, record)
    BY <1>1, <1>2, <1>5, <1>7, <2>2, <2>3 DEF Restructures
  <2> QED BY <2>1, <2>4, Restructuring
<1>9. ~IsContainer(u, q)
  BY <1>5, <1>8, NoneIsNoKind DEF IsContainer
<1>10. \A p \in Paths \ {<<>>} : Has(t, p) /\ Parent(p) \in G => p \in G
  <2> SUFFICES ASSUME NEW p \in Paths \ {<<>>}, Has(t, p), Parent(p) \in G
               PROVE  p \in G
    OBVIOUS
  <2>1. Below(q, Parent(p)) /\ Parent(p) \in Paths /\ Under(Parent(p), p)
    BY <1>4, ParentAbove
  <2>2. Below(q, p)
    BY <1>2, <2>1, UnderTransitive, UnderBoth DEF Below
  <2> QED BY <1>4, <2>2
<1>11. \A d \in Children(q) : Has(t, d) /\ d \notin G => IsContainer(u, q)
  BY <1>4, ParentMeaning DEF Children
<1>12. Fit(q, u[q])
  <2>1. r.value[q] = w[q]
    BY <1>2, <1>3, DataUnder DEF SteadyWrites
  <2>2. TextAt(q)
    BY <1>1, <1>2, <2>1 DEF TextAt
  <2>3. \A k \in Keys : record.inline[k] \notin Containers
    BY <1>5, Marks DEF EmptyInline
  <2> QED BY <1>1, <1>5, <1>8, <2>2, <2>3, NoneIsNoKind DEF Fit
<1>13. ValueAt(u, q) = goal[q]
  <2>1. ValueAt(u, q) = w[q]
    BY <1>5, <1>8, ValueMeaning
  <2>2. goal[q] = w[q]
    BY <1>2, <1>3 DEF Effect, After
  <2> QED BY <2>1, <2>2
<1>14. ASSUME NEW x \in Paths, Below(q, x)
       PROVE  ValueAt(u, x) = goal[x]
  <2>1. ASSUME NEW y \in Paths, Below(q, y)
        PROVE  ~Has(u, y)
    <3>1. CASE y \in G
      BY <1>8, <3>1 DEF Grafts, Has, NoRecord
    <3>2. CASE y \notin G
      <4>1. ~Has(t, y)
        BY <1>4, <2>1, <3>2
      <4>2. y # q /\ (q = <<>> \/ y # Parent(q))
        BY <1>2, <2>1, ParentMeaning, UnderBoth DEF Below
      <4>3. u[y] = t[y]
        BY <1>8, <3>2, <4>2 DEF Grafts
      <4> QED BY <4>1, <4>3 DEF Has
    <3> QED BY <3>1, <3>2
  <2>2. x # <<>> /\ Parent(x) \in Paths /\ Under(q, Parent(x))
    BY <1>2, <1>14, AboveParent
  <2>3. ~IsContainer(u, Parent(x))
    BY <1>9, <2>1, <2>2, KindsApart DEF Below
  <2>4. ValueAt(u, x) = None
    BY <1>2, <1>14, <2>1, <2>3, ValueMeaning DEF InlineAt
  <2>5. goal[x] = None
    BY <1>1, <1>2, <1>3, <1>14, ValuesType, WrittenBelowLeaf
  <2> QED BY <2>4, <2>5
<1>15. Reworks(c, c2, j, {}, G)
  <2>1. \A x \in Paths : Below(q, x) => ValueAt(u, x) = goal[x]
    BY <1>14
  <2>2. c2.todo = (c.todo \ {j}) \cup {}
    BY <1>1
  <2> HIDE DEF G, record
  <2> QED BY <1>1, <1>8, <1>10, <1>11, <1>12, <1>13, <2>1, <2>2 DEF Reworks
<1> QED BY <1>8, <1>15, Reworked

----------------------------------------------------------------------------
\* The effect of an iteration of verifyParents for the ancestor a.
VerifyDone(c, c2, a) ==
  /\ a \in c.verify /\ \A b \in c.verify : Under(a, b)
  /\ c2.request = c.request /\ c2.read = c.read /\ c2.todo = c.todo
  /\ c2.verify = c.verify \ {a}
  /\ c2.tree = Verified(c.tree, a)
  /\ c2.out = c.out \o VerifyPuts(c.tree, a)

\* The ancestors before a have been visited, so a record at a hangs from a
\* container.
LEMMA VerifyMidway ==
  ASSUME SteadyWrites, NEW c \in Call, OnCourse(c), NEW s, Midway(c, s),
         NEW c2 \in Call, OnCourse(c2), NEW a, VerifyDone(c, c2, a)
  PROVE  Midway(c2, s)
<1> DEFINE r == c.request
           R == c.read
           t == Whole(c)
           u == Whole(c2)
           new == Container(CreatedKind(a), EmptyInline)
<1>1. /\ a \in c.verify /\ \A b \in c.verify : Under(a, b)
      /\ c2.request = r /\ c2.read = R /\ c2.todo = c.todo
      /\ c2.verify = c.verify \ {a}
      /\ c2.tree = Verified(c.tree, a)
      /\ c2.out = c.out \o VerifyPuts(c.tree, a)
  BY DEF VerifyDone
<1>2. /\ Sane(R) /\ Tidy(t, c.verify) /\ Proper(t)
      /\ \A b \in c.verify : Below(b, Aim(c))
      /\ JobsFit(c) /\ AboveAim(c) /\ Done(c) /\ Carries(c.out, s, t)
  BY DEF Midway
<1>3. /\ r \in Writes /\ r \in Requests /\ Aim(c) = Target(r) /\ Aim(c) \in Paths
      /\ a \in Paths /\ Below(a, Aim(c)) /\ OnTrail(a, r.path)
      /\ c.tree \in Tree /\ R \in Tree /\ t \in Tree /\ u \in Tree
      /\ Aim(c2) = Aim(c) /\ Data(c2) = Data(c)
      /\ \A b \in c.verify : b \in Paths
      /\ \A j \in c.todo : j.path \in Paths
      /\ c.out \in Seq(Put)
  BY <1>1, <1>2, CallShape, WholeType DEF Aim, Data, OnCourse, OnTrail
<1>4. new \in Record /\ CreatedKind(a) \in Containers
  <2>1. CreatedKind(a) \in Containers
    BY DEF CreatedKind, KindOfKey, Containers
  <2>2. EmptyInline \in [Keys -> InlineValues]
    BY DEF EmptyInline, InlineValues
  <2> QED BY <2>1, <2>2, ContainerType
<1>5. /\ \A p \in Paths : p # a => u[p] = t[p]
      /\ u[a] = IF Has(t, a) THEN t[a] ELSE new
  <2>1. c.tree[a] = t[a]
    BY <1>3, OwnTree
  <2>2. /\ \A p \in Paths : p # a => c2.tree[p] = c.tree[p]
        /\ c2.tree[a] = IF Has(t, a) THEN t[a] ELSE new
    BY <1>1, <1>3, <2>1 DEF Verified, Has, Tree
  <2> QED BY <1>1, <1>3, <2>2 DEF Whole
<1>6. Carries(c2.out, s, u)
  <2> DEFINE puts == VerifyPuts(c.tree, a)
  <2>1. puts \in Seq(Put) /\ Carries(puts, t, u)
    <3>1. CASE Has(t, a)
      <4>1. puts = <<>>
        BY <1>3, <3>1, OwnTree DEF VerifyPuts, Has
      <4>2. \A p \in Paths : t[p] = u[p]
        BY <1>5, <3>1
      <4>3. Carries(<<>>, t, u)
        BY <4>2, CarriesNone
      <4> QED BY <4>1, <4>3
    <3>2. CASE ~Has(t, a)
      <4>1. ~Has(c.tree, a)
        BY <1>3, <3>2, OwnTree DEF Has
      <4>2. Verified(c.tree, a)[a] = u[a]
        BY <1>3, <1>5, <3>2, <4>1 DEF Verified, Tree
      <4>3. puts = <<[path |-> a, record |-> u[a]]>>
        BY <4>1, <4>2 DEF VerifyPuts
      <4>4. Carries(<<[path |-> a, record |-> u[a]]>>, t, u)
        BY <1>3, <1>5, CarriesOne
      <4>5. <<[path |-> a, record |-> u[a]]>> \in Seq(Put)
        BY <1>3 DEF Put, Tree
      <4> QED BY <4>3, <4>4, <4>5
    <3> QED BY <3>1, <3>2
  <2>2. c2.out = c.out \o puts
    BY <1>1
  <2> HIDE DEF puts, t, u
  <2> QED BY <1>2, <1>3, <2>1, <2>2, CarriesBoth
<1>7. IsContainer(u, a)
  <2>1. CASE Has(t, a)
    BY <1>2, <1>3, <1>5, <2>1, SteadyAbove DEF IsContainer
  <2>2. CASE ~Has(t, a)
    BY <1>4, <1>5, <2>2 DEF IsContainer, Container
  <2> QED BY <2>1, <2>2
<1>8. \A p \in Paths : IsContainer(t, p) => IsContainer(u, p)
  BY <1>5, <1>7 DEF IsContainer
<1>9. Tidy(u, c2.verify)
  <2> SUFFICES ASSUME NEW p \in Paths \ {<<>>}, Has(u, p)
               PROVE  IsContainer(u, Parent(p)) \/ Parent(p) \in c2.verify
    BY DEF Tidy
  <2>1. Parent(p) \in Paths /\ Below(Parent(p), p)
    BY ParentMeaning
  <2>2. CASE p = a
    <3>1. Below(Parent(p), Aim(c))
      <4>1. Under(Parent(p), Aim(c))
        BY <1>3, <2>1, <2>2, UnderTransitive DEF Below
      <4>2. Parent(p) # Aim(c)
        BY <1>3, <2>1, <2>2, UnderBoth DEF Below
      <4> QED BY <4>1, <4>2 DEF Below
    <3>2. IsContainer(t, Parent(p)) \/ Parent(p) \in c.verify
      BY <1>3, <2>1, <3>1, AimHangs
    <3>3. Parent(p) \notin c.verify
      BY <1>1, <1>3, <2>1, <2>2, UnderBoth DEF Below
    <3> QED BY <1>8, <2>1, <3>2, <3>3
  <2>3. CASE p # a
    <3>1. Has(t, p)
      BY <1>5, <2>3 DEF Has
    <3>2. IsContainer(t, Parent(p)) \/ Parent(p) \in c.verify
      BY <1>2, <3>1 DEF Tidy
    <3> QED BY <1>1, <1>7, <1>8, <2>1, <3>2
  <2> QED BY <2>2, <2>3
<1>10. Proper(u)
  <2>1. Fit(a, new)
    <3>1. CreatedKind(a) \in KindsAt(a)
      BY <1>3 DEF KindsAt
    <3>2. new.kind = CreatedKind(a) /\ new.text = None /\ \A k \in Keys : new.inline[k] = None
      BY DEF Container, EmptyInline
    <3>3. new.kind # None /\ new.kind # Str /\ None \notin Containers
      BY <1>4, <3>2, NoneIsNoKind
    <3> HIDE DEF new
    <3> QED BY <3>1, <3>2, <3>3 DEF Fit
  <2> SUFFICES ASSUME NEW p \in Paths PROVE Fit(p, u[p])
    BY DEF Proper
  <2>2. Fit(p, t[p])
    BY <1>2 DEF Proper
  <2> HIDE DEF new, t, u
  <2> QED BY <1>5, <2>1, <2>2
<1>11. JobsFit(c2)
  <2>1. ASSUME NEW j \in c2.todo PROVE JobFits(c2, j)
    <3>1. j \in c.todo /\ j.path \in Paths /\ JobFits(c, j)
      BY <1>1, <1>2, <1>3, <2>1 DEF JobsFit
    <3>2. j.path # Aim(c) => Parent(j.path) \in Paths
      <4>1. j.path # Aim(c) => j.path # <<>>
        BY <1>3, <3>1, UnderRoot, UnderBoth DEF JobFits
      <4> QED BY <3>1, <4>1, ParentMeaning
    <3> QED BY <1>1, <1>3, <1>8, <3>1, <3>2 DEF JobFits
  <2> QED BY <1>1, <1>2, <2>1 DEF JobsFit
<1>12. AboveAim(c2)
  <2> SUFFICES ASSUME NEW b \in Paths, Below(b, Aim(c))
               PROVE  IF Has(R, b)
                        THEN /\ u[b].kind = R[b].kind
                             /\ \A k \in Keys : Append(b, k) # Aim(c) => u[b].inline[k] = R[b].inline[k]
                        ELSE IF b \in c2.verify THEN ~Has(u, b)
                             ELSE u[b] = Container(CreatedKind(b), EmptyInline)
    BY <1>1, <1>3 DEF AboveAim
  <2>1. IF Has(R, b)
          THEN /\ t[b].kind = R[b].kind
               /\ \A k \in Keys : Append(b, k) # Aim(c) => t[b].inline[k] = R[b].inline[k]
          ELSE IF b \in c.verify THEN ~Has(t, b)
               ELSE t[b] = Container(CreatedKind(b), EmptyInline)
    BY <1>2 DEF AboveAim
  <2>2. CASE b # a
    <3>1. u[b] = t[b]
      BY <1>5, <2>2
    <3> HIDE DEF t, u
    <3> QED BY <1>1, <2>1, <2>2, <3>1 DEF Has
  <2>3. CASE b = a
    <3> HIDE DEF t, u
    <3> QED BY <1>1, <1>5, <2>1, <2>3 DEF Has
  <2> QED BY <2>2, <2>3
<1>13. Done(c2)
  <2> SUFFICES ASSUME NEW x \in Paths, Under(Aim(c), x)
               PROVE  u[x] = t[x] /\ ValueAt(u, x) = ValueAt(t, x)
    BY <1>1, <1>2, <1>3 DEF Done, Pending
  <2>1. x # a
    BY <1>3, UnderBoth DEF Below
  <2>2. u[x] = t[x]
    BY <1>5, <2>1
  <2>3. InlineAt(u, x) = InlineAt(t, x)
    <3>1. CASE x = <<>>
      BY <3>1 DEF InlineAt
    <3>2. CASE x # <<>> /\ Parent(x) # a
      BY <1>5, <3>2, ParentMeaning DEF InlineAt, IsContainer
    <3>3. CASE x # <<>> /\ Parent(x) = a /\ Has(t, a)
      BY <1>5, <3>3 DEF InlineAt, IsContainer
    <3>4. CASE x # <<>> /\ Parent(x) = a /\ ~Has(t, a)
      <4>1. InlineAt(t, x) = None
        BY <3>4, KindsApart DEF InlineAt
      <4>2. InlineAt(u, x) = None
        BY <1>5, <3>4, ParentMeaning DEF InlineAt, Container, EmptyInline
      <4> QED BY <4>1, <4>2
    <3> QED BY <3>1, <3>2, <3>3, <3>4
  <2> QED BY <2>2, <2>3, ValueMeaning DEF IsContainer
<1> QED BY <1>1, <1>2, <1>3, <1>6, <1>9, <1>10, <1>11, <1>12, <1>13 DEF Midway

----------------------------------------------------------------------------
(* A call begins, its writes reach the backend, it ends. *)

\* A call that has read the records s and restructured nothing yet.
Loading(c, r, s) ==
  /\ c.request = r /\ c.read = s
  /\ c.tree = Loaded(s, r.path)
  /\ c.todo = {[path |-> Target(r), mode |-> Mode(r)]}
  /\ c.verify = {a \in Paths : Below(a, Target(r))}
  /\ c.out = <<>>

\* What a call leaves aside has no record: it is as if it had read all.
LEMMA LoadedMidway ==
  ASSUME SteadyWrites, NEW r \in Writes, NEW s \in Tree, Sane(s),
         NEW c \in Call, OnCourse(c), Loading(c, r, s)
  PROVE  Midway(c, s)
<1>1. /\ c.request = r /\ c.read = s
      /\ c.tree = Loaded(s, r.path)
      /\ c.todo = {[path |-> Target(r), mode |-> Mode(r)]}
      /\ c.verify = {a \in Paths : Below(a, Target(r))}
      /\ c.out = <<>>
  BY DEF Loading
<1>2. /\ r \in Requests /\ r.path \in Paths /\ Target(r) \in Paths
      /\ Aim(c) = Target(r) /\ Data(c) = Content(r)
  BY <1>1, MDEAssumption, TargetAbove DEF Aim, Data
<1>3. ASSUME NEW p \in Paths, OnTrail(p, r.path)
      PROVE  Loaded(s, r.path)[p] = s[p]
  <2> DEFINE inlineChild == r.path # <<>> /\ ~Has(s, r.path) /\ Has(s, Parent(r.path))
  <2>1. Loaded(s, r.path)[p] = IF inlineChild => Below(p, r.path) THEN s[p] ELSE NoRecord
    BY <1>3 DEF Loaded
  <2>2. ASSUME inlineChild, ~Below(p, r.path) PROVE s[p] = NoRecord
    <3>1. Under(r.path, p)
      BY <1>2, <1>3, <2>2, UnderRoot DEF OnTrail, Below
    <3>2. ~Has(s, p)
      <4>1. CASE p = r.path
        BY <2>2, <4>1
      <4>2. CASE p # r.path
        <5>1. ~IsContainer(s, r.path)
          BY <2>2, KindsApart
        <5> QED BY <1>2, <3>1, <4>2, <5>1, NothingBelow DEF Sane, Below
      <4> QED BY <4>1, <4>2
    <3> QED BY <3>2 DEF Sane, Proper, Fit, Has
  <2> QED BY <2>1, <2>2
<1>4. Whole(c) = s
  <2>1. \A p \in Paths : Whole(c)[p] = s[p]
    BY <1>1, <1>3 DEF Whole
  <2>2. Whole(c) \in Tree
    BY WholeType
  <2> QED BY <2>1, <2>2 DEF Tree
<1>5. Tidy(Whole(c), c.verify) /\ Proper(Whole(c))
  BY <1>4 DEF Sane, Tidy
<1>6. JobsFit(c)
  <2>1. Content(r)[Target(r)] # None
    BY <1>2, DataShape, Marks
  <2>2. \A j \in c.todo : j.path = Target(r) /\ j.mode = Mode(r)
    BY <1>1
  <2>3. \A j \in c.todo : JobFits(c, j)
    BY <1>1, <1>2, <2>1, <2>2, UnderRoot DEF JobFits
  <2>4. \A j, k \in c.todo : j = k
    BY <1>1
  <2> QED BY <2>3, <2>4 DEF JobsFit
<1>7. AboveAim(c)
  BY <1>1, <1>2, <1>4 DEF AboveAim
<1>8. Done(c)
  <2>1. \E j \in c.todo : j.path = Target(r)
    BY <1>1
  <2> QED BY <1>1, <1>2, <1>4, <2>1 DEF Done, Pending
<1>9. Carries(c.out, s, Whole(c))
  BY <1>1, <1>4, CarriesNone
<1> QED BY <1>1, <1>2, <1>5, <1>6, <1>7, <1>8, <1>9 DEF Midway

\* The state of a call that Start puts into its slot.
Begun(c, r, s) ==
  LET loaded == Loaded(s, r.path)
      above == {a \in Paths : Below(a, Target(r))}
  IN /\ c.request = r
     /\ c.tree = (IF above = {} THEN loaded ELSE Verified(loaded, <<>>))
     /\ c.todo = {[path |-> Target(r), mode |-> Mode(r)]}
     /\ c.verify = above \ {<<>>}
     /\ c.out = (IF above = {} THEN <<>> ELSE VerifyPuts(loaded, <<>>))

\* And one whose read the backend answered.
Started(c, r, s) == Begun(c, r, s) /\ c.read = s

\* Start leaves a call midway, with the root visited when it is an ancestor.
LEMMA StartMidway ==
  ASSUME SteadyWrites, NEW r \in Writes, NEW s \in Tree, Sane(s),
         NEW c2 \in Call, OnCourse(c2), Started(c2, r, s)
  PROVE  Midway(c2, s)
<1> DEFINE loaded == Loaded(s, r.path)
           above == {a \in Paths : Below(a, Target(r))}
           job == [path |-> Target(r), mode |-> Mode(r)]
           c == [pc |-> "run", request |-> r, tree |-> loaded, todo |-> {job},
                 verify |-> above, out |-> <<>>, read |-> s, overlap |-> {},
                 refused |-> FALSE]
<1>1. /\ c2.request = r /\ c2.read = s
      /\ c2.tree = (IF above = {} THEN loaded ELSE Verified(loaded, <<>>))
      /\ c2.todo = {job}
      /\ c2.verify = above \ {<<>>}
      /\ c2.out = (IF above = {} THEN <<>> ELSE VerifyPuts(loaded, <<>>))
  BY DEF Started, Begun
<1>2. /\ r \in Requests /\ r.path \in Paths /\ Target(r) \in Paths
      /\ Under(Target(r), r.path) /\ Mode(r) \in {"SET", "UPDATE"}
  BY MDEAssumption, TargetAbove
<1>3. loaded \in Tree /\ \A q \in Paths : Has(loaded, q) => OnTrail(q, r.path)
  BY <1>2, LoadedType
<1>4. job \in Job
  BY <1>2 DEF Job
<1>5. /\ above \in SUBSET Paths
      /\ \A a \in above : Under(a, r.path)
  BY <1>2, UnderTransitive DEF Below
<1>6. CASE above = {}
  BY <1>1, <1>6, LoadedMidway DEF Loading
<1>7. CASE above # {}
  <2> HIDE DEF above, loaded, job
  <2>1. c \in Call
    BY <1>3, <1>4, <1>5 DEF Call
  <2>2. /\ c.request = r /\ c.read = s /\ c.tree = loaded /\ c.todo = {job}
        /\ c.verify = above /\ c.out = <<>>
    OBVIOUS
  <2> HIDE DEF c
  <2>3. OnCourse(c)
    <3>1. OnTrail(job.path, r.path)
      BY <1>2 DEF job, OnTrail
    <3> QED BY <1>3, <1>5, <2>2, <3>1 DEF OnCourse
  <2>4. Midway(c, s)
    BY <2>1, <2>2, <2>3, LoadedMidway DEF Loading, loaded, above, job
  <2>5. <<>> \in above
    <3>1. PICK a \in Paths : Below(a, Target(r))
      BY <1>7 DEF above
    <3>2. Target(r) # <<>>
      BY <1>2, <3>1, UnderRoot, UnderBoth DEF Below
    <3> QED BY <1>2, <3>2, UnderRoot DEF above, Below
  <2>6. \A b \in above : Under(<<>>, b)
    BY <1>5, UnderRoot
  <2>7. VerifyDone(c, c2, <<>>)
    <3>1. VerifyPuts(loaded, <<>>) \in Seq(Put)
      BY <1>1, <1>7 DEF Call
    <3>2. <<>> \o VerifyPuts(loaded, <<>>) = VerifyPuts(loaded, <<>>)
      BY <3>1
    <3> QED BY <1>1, <1>7, <2>2, <2>5, <2>6, <3>2 DEF VerifyDone
  <2> QED BY <2>1, <2>3, <2>4, <2>7, VerifyMidway
<1> QED BY <1>6, <1>7

\* A call whose tree and jobs do not change stays midway.
LEMMA StillMidway ==
  ASSUME NEW c \in Call, NEW s, Midway(c, s), NEW c2 \in Call, NEW z,
         c2.request = c.request, c2.read = c.read, c2.tree = c.tree,
         c2.todo = c.todo, c2.verify = c.verify,
         Carries(c2.out, z, Whole(c))
  PROVE  Midway(c2, z)
<1>1. Whole(c2) = Whole(c) /\ Aim(c2) = Aim(c) /\ Data(c2) = Data(c)
  BY DEF Whole, Aim, Data
<1>2. JobsFit(c2)
  BY <1>1 DEF Midway, JobsFit, JobFits
<1>3. AboveAim(c2)
  BY <1>1 DEF Midway, AboveAim
<1>4. Done(c2)
  BY <1>1 DEF Midway, Done, Pending
<1> QED BY <1>1, <1>2, <1>3, <1>4 DEF Midway

\* When all is written the backend holds the restructured tree.
LEMMA Settled ==
  ASSUME NEW c \in Call, NEW s \in Tree, Midway(c, s), c.out = <<>>
  PROVE  /\ s = Whole(c)
         /\ c.verify = {} => Sane(s)
<1>1. \A p \in Paths : s[p] = Whole(c)[p]
  BY CarriesNone DEF Midway
<1>2. Whole(c) \in Tree
  BY WholeType
<1>3. s = Whole(c)
  BY <1>1, <1>2 DEF Tree
<1> QED BY <1>3 DEF Midway, Sane

----------------------------------------------------------------------------
(* The invariant of one call at a time. *)

\* Nothing is stored and no call runs.
LEMMA CourseInit == Init => Course
<1>1. Sane(NoTree)
  <2>1. \A p \in Paths : NoTree[p] = NoRecord
    BY DEF NoTree
  <2>2. \A p \in Paths : ~Has(NoTree, p)
    BY NoTreeType
  <2> QED BY <2>1, <2>2, NoRecordFit DEF Sane, Tidy, Proper
<1>2. Idle.pc = "idle"
  BY DEF Idle
<1> QED BY <1>1, <1>2 DEF Init, Course, Quiet, Busy

\* What is known of the only slot and of its next state.
LEMMA OneSlot ==
  ASSUME OneCaller, Inv, Inv', Course, NEW o \in Ops
  PROVE  /\ op[o] \in Call /\ op'[o] \in Call
         /\ store \in Tree /\ store' \in Tree
         /\ op \in [Ops -> Call]
         /\ Busy(o) => OnCourse(op[o]) /\ Midway(op[o], store)
         /\ ~Busy(o) => Sane(store)
         /\ op'[o].pc # "idle" => OnCourse(op'[o])
<1>1. \A n \in Ops : n = o
  BY DEF OneCaller
<1>2. op[o] \in Call /\ op'[o] \in Call /\ store \in Tree /\ store' \in Tree /\ op \in [Ops -> Call]
  BY DEF Inv, TypeOK
<1>3. Busy(o) => OnCourse(op[o]) /\ Midway(op[o], store)
  BY DEF Inv, Sound, Busy, Course
<1>4. ~Busy(o) => Sane(store)
  BY <1>1 DEF Course, Quiet
<1>5. op'[o].pc # "idle" => OnCourse(op'[o])
  <2>1. Sound(op[o])'
    BY DEF Inv
  <2>2. Sound(op'[o])
    BY <2>1 DEF Sound, OnCourse
  <2> QED BY <2>2 DEF Sound
<1> QED BY <1>2, <1>3, <1>4, <1>5

\* What a step that leaves the call in flight has to show.
LEMMA OnwardCourse ==
  ASSUME OneCaller, NEW o \in Ops, NEW c, NEW s, op'[o] = c, store' = s,
         c.pc # "idle", Midway(c, s), c.pc = "acked" => c.todo = {}
  PROVE  Course'
<1>1. \A n \in Ops : n = o
  BY DEF OneCaller
<1>2. Busy(o)'
  BY DEF Busy
<1>3. ~Quiet'
  BY <1>2 DEF Quiet
<1> QED BY <1>1, <1>3 DEF Course

\* Start: the backend is sane between calls, and so is what is read.
LEMMA StartCourse ==
  ASSUME OneCaller, SteadyWrites, Inv, Inv', Course,
         NEW o \in Ops, NEW r \in Writes, NEW seen \in Seen(r), Start(o, r, seen)
  PROVE  Course'
<1>1. seen = store
  BY DEF OneCaller, Seen
<1>2. ~Busy(o) /\ store' = store
  BY DEF Start
<1>3. op'[o].pc = "run" /\ Started(op'[o], r, store)
  BY <1>1 DEF Start, Started, Begun
<1>4. /\ op'[o] \in Call /\ OnCourse(op'[o]) /\ store \in Tree /\ Sane(store)
  BY <1>2, <1>3, OneSlot
<1>5. Midway(op'[o], store)
  BY <1>3, <1>4, StartMidway
<1> QED BY <1>2, <1>3, <1>5, OnwardCourse

\* VerifyParent: the next ancestor hangs from one visited before.
LEMMA VerifyCourse ==
  ASSUME OneCaller, SteadyWrites, Inv, Inv', Course, NEW o \in Ops, VerifyParent(o)
  PROVE  Course'
<1>1. Busy(o) /\ store' = store
  BY DEF VerifyParent, Busy
<1>2. /\ op[o] \in Call /\ OnCourse(op[o]) /\ Midway(op[o], store)
      /\ op \in [Ops -> Call] /\ op'[o] \in Call
      /\ op'[o].pc # "idle" => OnCourse(op'[o])
  BY <1>1, OneSlot
<1>3. PICK a \in op[o].verify :
        /\ \A b \in op[o].verify : Under(a, b)
        /\ op' = [op EXCEPT ![o].verify = @ \ {a},
                            ![o].tree = Verified(@, a),
                            ![o].out = @ \o VerifyPuts(op[o].tree, a)]
  BY DEF VerifyParent
<1>4. /\ op'[o].pc = op[o].pc /\ op'[o].request = op[o].request /\ op'[o].read = op[o].read
      /\ op'[o].todo = op[o].todo
      /\ op'[o].verify = op[o].verify \ {a}
      /\ op'[o].tree = Verified(op[o].tree, a)
      /\ op'[o].out = op[o].out \o VerifyPuts(op[o].tree, a)
  BY <1>2, <1>3 DEF Call
<1>5. VerifyDone(op[o], op'[o], a)
  BY <1>3, <1>4 DEF VerifyDone
<1>6. op'[o].pc # "idle"
  BY <1>1, <1>4 DEF Busy
<1>7. Midway(op'[o], store)
  BY <1>2, <1>5, <1>6, VerifyMidway
<1>8. op'[o].pc = "acked" => op'[o].todo = {}
  BY <1>4 DEF Course
<1> QED BY <1>1, <1>6, <1>7, <1>8, OnwardCourse

\* Destructure: the effect on the call, one for each kind of data.
LEMMA DestructureDone ==
  ASSUME NEW o \in Ops, op \in [Ops -> Call], OnCourse(op[o]), Destructure(o)
  PROVE  /\ op'[o].pc = "run" /\ op'[o].request = op[o].request /\ op'[o].read = op[o].read
         /\ op'[o].overlap = op[o].overlap /\ op'[o].refused = op[o].refused
         /\ \A n \in Ops : n # o => op'[n] = op[n]
         /\ \E j \in op[o].todo : \E fixed, above, f, record :
              NodeDone(op[o], op'[o], j, fixed, above, f, record) \/ TextDone(op[o], op'[o], j, f)
<1>1. op[o].pc = "run" /\ op[o] \in Call
  BY DEF Destructure
<1>2. PICK j \in op[o].todo : DestructureNode(o, j) \/ DestructureText(o, j)
  BY DEF Destructure
<1>3. j.path \in Paths /\ op[o].tree \in Tree
  BY <1>1, <1>2, CallShape
<1>4. CASE DestructureNode(o, j)
  <2> DEFINE r == op[o].request
             w == Content(r)
             q == j.path
             t == op[o].tree
             fixed == IF Wrapped(r, q) THEN t ELSE ParentFixed(t, q)
             above == IF Wrapped(r, q) THEN <<>> ELSE ParentPuts(t, q)
             dropped == Dropped(fixed, j.mode, q, w)
             record == Container(w[q], NewInline(fixed, j.mode, q, w))
             nested == [path : Dedicated(w, q), mode : {ModeAt(t, j.mode, q, w)}]
  <2>1. w[q] \in Containers
    BY <1>4 DEF DestructureNode
  <2>2. PICK f \in Descents(dropped) :
          op' = [op EXCEPT
                   ![o].tree = [Cleared(fixed, dropped) EXCEPT ![q] = record],
                   ![o].out = @ \o above \o RemovePuts(f) \o Emitted(fixed, q, record),
                   ![o].todo = (@ \ {j}) \cup nested]
    BY <1>4 DEF DestructureNode
  <2>3. fixed \in Tree
    BY <1>3, ParentFixedType
  <2>4. \/ fixed = t /\ above = <<>>
        \/ fixed = ParentFixed(t, q) /\ above = ParentPuts(t, q)
    OBVIOUS
  <2> HIDE DEF fixed, above
  <2>5. /\ op'[o].pc = "run" /\ op'[o].request = r /\ op'[o].read = op[o].read
        /\ op'[o].overlap = op[o].overlap /\ op'[o].refused = op[o].refused
        /\ op'[o].verify = op[o].verify
        /\ op'[o].tree = [Cleared(fixed, dropped) EXCEPT ![q] = record]
        /\ op'[o].out = ((op[o].out \o above) \o RemovePuts(f)) \o Emitted(fixed, q, record)
        /\ op'[o].todo = (op[o].todo \ {j}) \cup nested
        /\ \A n \in Ops : n # o => op'[n] = op[n]
    <3> HIDE DEF dropped, record, nested, w, q, r, t
    <3> QED BY <1>1, <2>2 DEF Call, r
  <2>6. Data(op[o]) = w
    BY DEF Data
  <2>7. NodeDone(op[o], op'[o], j, fixed, above, f, record)
    BY <2>1, <2>2, <2>3, <2>4, <2>5, <2>6 DEF NodeDone
  <2> HIDE DEF record
  <2> QED BY <1>2, <2>5, <2>7
<1>5. CASE DestructureText(o, j)
  <2> DEFINE q == j.path
             t == op[o].tree
             record == Text(Content(op[o].request)[q])
             dropped == DroppedByText(t, q)
  <2>1. Content(op[o].request)[q] \in Long
    BY <1>5 DEF DestructureText, Text
  <2>2. PICK f \in Descents(dropped) :
          op' = [op EXCEPT
                   ![o].tree = [Cleared(t, dropped) EXCEPT ![q] = record],
                   ![o].out = @ \o RemovePuts(f) \o Emitted(t, q, record),
                   ![o].todo = @ \ {j}]
    BY <1>5 DEF DestructureText
  <2>3. /\ op'[o].pc = "run" /\ op'[o].request = op[o].request /\ op'[o].read = op[o].read
        /\ op'[o].overlap = op[o].overlap /\ op'[o].refused = op[o].refused
        /\ op'[o].verify = op[o].verify
        /\ op'[o].tree = [Cleared(t, dropped) EXCEPT ![q] = record]
        /\ op'[o].out = (op[o].out \o RemovePuts(f)) \o Emitted(t, q, record)
        /\ op'[o].todo = op[o].todo \ {j}
        /\ \A n \in Ops : n # o => op'[n] = op[n]
    <3> HIDE DEF dropped, record, q, t
    <3> QED BY <1>1, <2>2 DEF Call
  <2>4. TextDone(op[o], op'[o], j, f)
    BY <2>1, <2>2, <2>3 DEF TextDone, Data
  <2> QED BY <1>2, <2>3, <2>4
<1> QED BY <1>2, <1>4, <1>5

\* Destructure: one job less, its children added to the jobs.
LEMMA DestructureCall ==
  ASSUME OneCaller, SteadyWrites, Inv, Inv', Course, NEW o \in Ops, Destructure(o)
  PROVE  /\ op'[o].pc = "run" /\ op'[o].read = op[o].read
         /\ Midway(op'[o], store)
<1>1. Busy(o) /\ op[o].pc = "run"
  BY DEF Destructure, Busy
<1>2. /\ op[o] \in Call /\ OnCourse(op[o]) /\ Midway(op[o], store)
      /\ op \in [Ops -> Call] /\ op'[o] \in Call
      /\ op'[o].pc # "idle" => OnCourse(op'[o])
  BY <1>1, OneSlot
<1>3. op'[o].pc = "run" /\ op'[o].read = op[o].read
  BY <1>2, DestructureDone
<1>4. PICK j \in op[o].todo :
        \E fixed, above, f, record :
          NodeDone(op[o], op'[o], j, fixed, above, f, record) \/ TextDone(op[o], op'[o], j, f)
  BY <1>2, DestructureDone
<1>5. OnCourse(op'[o])
  BY <1>2, <1>3
<1> QED BY <1>2, <1>3, <1>4, <1>5, NodeMidway, TextMidway

\* Destructure keeps the invariant.
LEMMA DestructureCourse ==
  ASSUME OneCaller, SteadyWrites, Inv, Inv', Course, NEW o \in Ops, Destructure(o)
  PROVE  Course'
<1>1. store' = store
  BY DEF Destructure
<1> QED BY <1>1, DestructureCall, OnwardCourse

\* Apply: the backend comes one write closer to the tree of the call.
LEMMA ApplyCourse ==
  ASSUME OneCaller, Inv, Inv', Course, NEW o \in Ops, Apply(o)
  PROVE  Course'
<1>1. /\ op[o].out # <<>>
      /\ store' = [store EXCEPT ![Head(op[o].out).path] = Head(op[o].out).record]
      /\ op' = [op EXCEPT ![o].out = Tail(@)]
  BY DEF Apply
<1>2. Busy(o)
  BY <1>1 DEF Inv, Sound, Busy
<1>3. /\ op[o] \in Call /\ OnCourse(op[o]) /\ Midway(op[o], store) /\ store \in Tree
      /\ op \in [Ops -> Call] /\ op'[o] \in Call
  BY <1>2, OneSlot
<1>4. /\ op'[o].pc = op[o].pc /\ op'[o].request = op[o].request /\ op'[o].read = op[o].read
      /\ op'[o].tree = op[o].tree /\ op'[o].todo = op[o].todo
      /\ op'[o].verify = op[o].verify /\ op'[o].out = Tail(op[o].out)
  BY <1>1, <1>3 DEF Call
<1>5. op[o].out \in Seq(Put) /\ Carries(op[o].out, store, Whole(op[o]))
  BY <1>3 DEF Call, Midway
<1>6. Carries(op'[o].out, store', Whole(op[o]))
  BY <1>1, <1>3, <1>4, <1>5, CarriesRest
<1>7. Midway(op'[o], store')
  BY <1>3, <1>4, <1>6, StillMidway
<1>8. op'[o].pc # "idle" /\ (op'[o].pc = "acked" => op'[o].todo = {})
  BY <1>2, <1>4 DEF Busy, Course
<1> QED BY <1>7, <1>8, OnwardCourse

\* Ack changes neither tree nor jobs.
LEMMA AckCourse ==
  ASSUME OneCaller, Inv, Inv', Course, NEW o \in Ops, Ack(o)
  PROVE  Course'
<1>1. Busy(o) /\ op[o].todo = {} /\ store' = store /\ op' = [op EXCEPT ![o].pc = "acked"]
  BY DEF Ack, Busy
<1>2. /\ op[o] \in Call /\ OnCourse(op[o]) /\ Midway(op[o], store)
      /\ op \in [Ops -> Call] /\ op'[o] \in Call
  BY <1>1, OneSlot
<1>3. /\ op'[o].pc = "acked" /\ op'[o].request = op[o].request /\ op'[o].read = op[o].read
      /\ op'[o].tree = op[o].tree /\ op'[o].todo = op[o].todo
      /\ op'[o].verify = op[o].verify /\ op'[o].out = op[o].out
  BY <1>1, <1>2 DEF Call
<1>4. Carries(op'[o].out, store, Whole(op[o]))
  BY <1>2, <1>3 DEF Midway
<1>5. Midway(op'[o], store)
  BY <1>2, <1>3, <1>4, StillMidway
<1> QED BY <1>1, <1>3, <1>5, OnwardCourse

\* End: nothing is left to do, so the backend is the tidy tree of the call.
LEMMA EndCourse ==
  ASSUME OneCaller, Inv, Inv', Course, NEW o \in Ops, End(o)
  PROVE  Course'
<1>1. /\ Busy(o) /\ op[o].verify = {} /\ op[o].out = <<>>
      /\ op' = [op EXCEPT ![o] = Idle] /\ store' = store
  BY DEF End, Busy
<1>2. /\ op[o] \in Call /\ Midway(op[o], store) /\ store \in Tree /\ op \in [Ops -> Call]
  BY <1>1, OneSlot
<1>3. Sane(store)
  BY <1>1, <1>2, Settled
<1>4. op'[o] = Idle /\ \A n \in Ops : n = o
  BY <1>1, <1>2 DEF OneCaller
<1>5. \A n \in Ops : op'[n].pc = "idle"
  BY <1>4 DEF Idle
<1>6. \A n \in Ops : ~Busy(n)'
  BY <1>5 DEF Busy
<1>7. Sane(store')
  BY <1>1, <1>3
<1> QED BY <1>5, <1>6, <1>7 DEF Course

\* Every step of one caller keeps the invariant.
LEMMA CourseNext ==
  ASSUME OneCaller, SteadyWrites, Inv, Inv', Course, [Next]_vars
  PROVE  Course'
<1>1. CASE UNCHANGED vars
  BY <1>1 DEF vars, Course, Quiet, Busy
<1>2. CASE Next
  <2>1. PICK o \in Ops :
          \/ \E r \in Writes : \E seen \in Seen(r) : Start(o, r, seen)
          \/ VerifyParent(o)
          \/ Destructure(o)
          \/ Apply(o)
          \/ Reject(o)
          \/ Ack(o)
          \/ End(o)
    BY <1>2 DEF Next
  <2>2. ~Reject(o)
    BY DEF Reject, OneCaller
  <2> QED BY <2>1, <2>2, StartCourse, VerifyCourse, DestructureCourse, ApplyCourse, AckCourse, EndCourse
<1> QED BY <1>1, <1>2

----------------------------------------------------------------------------
(***************************************************************************)
(* With one caller and writes that agree on the kinds, no call leaves a    *)
(* record behind that hangs from nothing.                                  *)
(***************************************************************************)
THEOREM NoOrphansHold == ASSUME OneCaller, SteadyWrites PROVE Spec => []NoOrphans
<1>1. Course => NoOrphans
  BY DEF Course, Sane, Tidy, NoOrphans
<1>2. Inv /\ Course /\ [Next]_vars => (Inv /\ Course)'
  BY InvNext, CourseNext
<1>3. Init => Inv /\ Course
  BY InvInit, CourseInit
<1> QED BY <1>1, <1>2, <1>3, PTL DEF Spec

----------------------------------------------------------------------------
(* The records implement the document. *)

\* Of records that hang together a get of the root returns every value.
LEMMA GetAll ==
  ASSUME NEW t \in Tree, Sane(t)
  PROVE  Holds(t, <<>>) = Values(t)
<1>1. ASSUME NEW q \in Paths PROVE Holds(t, <<>>)[q] = ValueAt(t, q)
  <2>1. Under(<<>>, q)
    BY UnderRoot
  <2>2. CASE Reached(t, <<>>, q)
    BY <2>1, <2>2 DEF Holds
  <2>3. CASE ~Reached(t, <<>>, q)
    <3>1. PICK a \in Paths : Below(a, q) /\ ~IsContainer(t, a)
      BY <2>3 DEF Reached
    <3>2. ValueAt(t, q) = None
      BY <3>1, NothingBelow DEF Sane
    <3> QED BY <2>3, <3>2 DEF Holds
  <2> QED BY <2>2, <2>3
<1> QED BY <1>1 DEF Holds, Values

\* When nothing is left to do the tree holds what the write promises: below
\* the target by the jobs done, above it by the ancestors visited, elsewhere
\* because nothing changed.
LEMMA Fulfilled ==
  ASSUME SteadyWrites, NEW c \in Call, OnCourse(c), NEW s, Midway(c, s),
         c.todo = {}, c.verify = {}
  PROVE  Values(Whole(c)) = Effect(Values(c.read), c.request)
<1> DEFINE r == c.request
           R == c.read
           t == Whole(c)
           at == Target(r)
           goal == Effect(Values(R), r)
<1>1. /\ r \in Writes /\ r \in Requests /\ r.path \in Paths /\ at \in Paths
      /\ Under(at, r.path) /\ Aim(c) = at
      /\ R \in Tree /\ t \in Tree /\ Sane(R) /\ AboveAim(c) /\ Done(c)
  BY CallShape, WholeType, TargetAbove DEF Aim, Midway
<1>2. ASSUME NEW x \in Paths PROVE ValueAt(t, x) = goal[x]
  <2>1. CASE Under(at, x)
    BY <1>1, <2>1 DEF Done, Pending
  <2>2. CASE Below(x, at)
    <3>1. ~Under(at, x)
      BY <1>1, <2>2, UnderBoth DEF Below
    <3>2. goal[x] = IF ValueAt(R, x) \in Containers THEN ValueAt(R, x) ELSE CreatedKind(x)
      BY <2>2, <3>1 DEF Effect, After, Values
    <3>3. IF Has(R, x)
            THEN t[x].kind = R[x].kind
            ELSE t[x] = Container(CreatedKind(x), EmptyInline)
      BY <1>1, <2>2 DEF AboveAim
    <3>4. CASE Has(R, x)
      <4>1. IsContainer(R, x)
        BY <1>1, <2>2, <3>4, SteadyAbove DEF Sane
      <4>2. IsContainer(t, x)
        BY <3>3, <3>4, <4>1 DEF IsContainer
      <4> QED BY <3>2, <3>3, <3>4, <4>1, <4>2, ValueMeaning DEF IsContainer
    <3>5. CASE ~Has(R, x)
      <4>1. CreatedKind(x) \in Containers
        BY DEF CreatedKind, KindOfKey, Containers
      <4>2. ValueAt(t, x) = CreatedKind(x)
        <5>1. t[x].kind = CreatedKind(x)
          BY <3>3, <3>5 DEF Container
        <5> QED BY <4>1, <5>1, ValueMeaning DEF IsContainer
      <4>3. ASSUME ValueAt(R, x) \in Containers PROVE ValueAt(R, x) = CreatedKind(x)
        <5>1. InlineAt(R, x) \in Containers /\ ValueAt(R, x) = InlineAt(R, x)
          BY <1>1, <3>5, <4>3, ValueMeaning
        <5>2. x # <<>> /\ IsContainer(R, Parent(x)) /\ InlineAt(R, x) = R[Parent(x)].inline[Last(x)]
          BY <5>1, Marks DEF InlineAt
        <5>3. Parent(x) \in Paths /\ Last(x) \in Keys /\ Append(Parent(x), Last(x)) = x
          BY <5>2, ParentMeaning
        <5>4. Fit(Parent(x), R[Parent(x)])
          BY <1>1, <5>3 DEF Sane, Proper
        <5>5. InlineAt(R, x) \in KindsAt(x)
          BY <5>1, <5>2, <5>3, <5>4 DEF Fit
        <5>6. CreatedKind(x) \in KindsAt(x)
          BY <1>1, <2>2 DEF KindsAt
        <5> QED BY <5>1, <5>5, <5>6 DEF SteadyWrites
      <4> QED BY <3>2, <4>2, <4>3
    <3> QED BY <3>4, <3>5
  <2>3. CASE ~OnTrail(x, at)
    <3>1. goal[x] = ValueAt(R, x)
      BY <2>3 DEF Effect, After, Values, OnTrail, Below
    <3>2. ASSUME NEW y \in Paths, Under(y, x), OnTrail(y, r.path) PROVE Below(y, at)
      <4>1. ~Under(at, y)
        BY <1>1, <2>3, <3>2, UnderTransitive DEF OnTrail
      <4>2. ~Under(r.path, y)
        BY <1>1, <4>1, <3>2, UnderTransitive
      <4>3. OnTrail(y, at)
        BY <1>1, <3>2, <4>2, UnderLinear DEF OnTrail
      <4> QED BY <1>1, <4>1, <4>3, UnderRoot DEF OnTrail, Below
    <3>3. t[x] = R[x]
      <4>1. ~OnTrail(x, r.path)
        BY <2>3, <3>2, UnderRoot DEF Below, OnTrail
      <4> QED BY <1>1, <4>1, OwnTree
    <3>4. InlineAt(t, x) = InlineAt(R, x)
      <4>1. CASE x = <<>>
        BY <4>1 DEF InlineAt
      <4>2. CASE x # <<>>
        <5> DEFINE p == Parent(x)
        <5>1. p \in Paths /\ Last(x) \in Keys /\ Append(p, Last(x)) = x /\ Under(p, x) /\ x # at
          BY <1>1, <2>3, <4>2, ParentMeaning, UnderRoot DEF Below, OnTrail
        <5>2. CASE ~OnTrail(p, r.path)
          <6>1. t[p] = R[p]
            BY <1>1, <5>1, <5>2, OwnTree
          <6> QED BY <6>1 DEF InlineAt, IsContainer
        <5>3. CASE OnTrail(p, r.path)
          <6>1. Below(p, at)
            BY <3>2, <5>1, <5>3
          <6>2. IF Has(R, p)
                  THEN /\ t[p].kind = R[p].kind
                       /\ \A k \in Keys : Append(p, k) # at => t[p].inline[k] = R[p].inline[k]
                  ELSE t[p] = Container(CreatedKind(p), EmptyInline)
            BY <1>1, <5>1, <6>1 DEF AboveAim
          <6>3. CASE Has(R, p)
            BY <5>1, <6>2, <6>3 DEF InlineAt, IsContainer
          <6>4. CASE ~Has(R, p)
            <7>1. InlineAt(R, x) = None
              BY <6>4, KindsApart DEF InlineAt
            <7>2. t[p].inline[Last(x)] = None
              BY <5>1, <6>2, <6>4 DEF Container, EmptyInline
            <7> QED BY <7>1, <7>2 DEF InlineAt
          <6> QED BY <6>3, <6>4
        <5> QED BY <5>2, <5>3
      <4> QED BY <4>1, <4>2
    <3> QED BY <3>1, <3>3, <3>4, ValueMeaning DEF IsContainer
  <2> QED BY <1>1, <2>1, <2>2, <2>3 DEF OnTrail, Below
<1>3. goal = [x \in Paths |-> goal[x]]
  BY DEF Effect, After
<1> QED BY <1>2, <1>3 DEF Values

\* The document with one slot, now and in the next state.
LEMMA DocumentMeaning ==
  ASSUME OneCaller, NEW o \in Ops
  PROVE  /\ Document = IF Busy(o) THEN Holds(op[o].read, <<>>) ELSE Holds(store, <<>>)
         /\ Document' = IF op'[o].pc # "idle" THEN Holds(op'[o].read, <<>>) ELSE Holds(store', <<>>)
<1>1. \A n \in Ops : n = o
  BY DEF OneCaller
<1>2. (CHOOSE n \in Ops : Busy(n)) = o \/ ~Busy(o)
  BY <1>1
<1>3. (CHOOSE n \in Ops : Busy(n)') = o \/ ~Busy(o)'
  BY <1>1
<1>4. Quiet <=> ~Busy(o)
  BY <1>1 DEF Quiet
<1>5. Quiet' <=> op'[o].pc = "idle"
  BY <1>1 DEF Quiet, Busy
<1>6. Document = IF Busy(o) THEN Holds(op[o].read, <<>>) ELSE Holds(store, <<>>)
  BY <1>2, <1>4 DEF Document
<1>7. Document' = IF op'[o].pc # "idle" THEN Holds(op'[o].read, <<>>) ELSE Holds(store', <<>>)
  <2>1. Document' = IF Quiet' THEN Holds(store', <<>>)
                    ELSE Holds(op'[CHOOSE n \in Ops : Busy(n)'].read, <<>>)
    BY DEF Document
  <2> QED BY <1>3, <1>5, <2>1 DEF Busy
<1> QED BY <1>6, <1>7

\* The abstract document is written the way a request says.
LEMMA SameWritten ==
  ASSUME NEW d, NEW r
  PROVE  JD!Written(d, r) = Written(d, r)
<1>1. /\ JD!Containers = Containers /\ JD!None = None /\ JD!Null = Null
  BY DEF Containers, JD!Containers, Obj, JD!Obj, Arr, JD!Arr, None, JD!None, Null, JD!Null
<1>2. /\ \A p, q : JD!Under(p, q) = Under(p, q)
      /\ \A p : JD!Parent(p) = Parent(p) /\ JD!KindOfKey(p) = KindOfKey(p)
      /\ \A p, q : JD!Toward(p, q) = Toward(p, q)
      /\ \A p : JD!KindAbove(p) = KindAbove(p) /\ JD!CreatedKind(p) = CreatedKind(p)
  <2>1. \A p, q : JD!Under(p, q) = Under(p, q)
    BY DEF Under, JD!Under, IsPrefix, JD!IsPrefix
  <2>2. \A p : JD!Parent(p) = Parent(p)
    BY DEF Parent, JD!Parent, Front, JD!Front
  <2>3. \A k : JD!KindOfKey(k) = KindOfKey(k)
    BY DEF KindOfKey, JD!KindOfKey, Arr, JD!Arr, Obj, JD!Obj
  <2>4. \A p, q : JD!Toward(p, q) = Toward(p, q)
    BY DEF Toward, JD!Toward
  <2>5. \A p : JD!Last(p) = Last(p)
    BY DEF Last, JD!Last
  <2>6. \A p : JD!KindAbove(p) = KindAbove(p) /\ JD!CreatedKind(p) = CreatedKind(p)
    BY <2>3, <2>5 DEF KindAbove, JD!KindAbove, CreatedKind, JD!CreatedKind, Obj, JD!Obj
  <2> QED BY <2>1, <2>2, <2>3, <2>4, <2>6
<1>3. /\ \A p, q : JD!Below(p, q) = Below(p, q)
      /\ \A p, q : JD!Between(p, q) = Between(p, q)
      /\ \A p : JD!Children(p) = Children(p)
  BY <1>2 DEF Below, JD!Below, Between, JD!Between, Children, JD!Children
<1>4. \A v, q : JD!FitsInline(v, q) <=> FitsInline(v, q)
  BY <1>1, <1>3 DEF FitsInline, JD!FitsInline
<1>5. JD!Target(r) = Target(r) /\ JD!Mode(r) = Mode(r) /\ JD!Asked(r) = Asked(r)
  BY <1>1, <1>2 DEF Target, JD!Target, Mode, JD!Mode, Asked, JD!Asked
<1>6. \A w, c : JD!Merges(d, r, w, c) <=> Merges(d, r, w, c)
  BY <1>3, <1>4, <1>5 DEF Merges, JD!Merges
<1>7. \A w : JD!After(d, r, w) = After(d, r, w)
  BY <1>1, <1>2, <1>3, <1>5, <1>6 DEF After, JD!After
<1> QED BY <1>5, <1>7 DEF Written, JD!Written

\* What the code makes of such a request is what the client is promised.
LEMMA AsAsked ==
  ASSUME SteadyWrites, NEW r \in Writes, NEW d
  PROVE  Effect(d, r) = Written(d, r)
BY DEF SteadyWrites, Effect, Written

\* An empty backend stands for an empty document.
LEMMA DocumentInit == Init => JD!Init
<1> SUFFICES ASSUME Init PROVE JD!Init
  OBVIOUS
<1>1. Quiet /\ store = NoTree
  BY DEF Init, Quiet, Busy, Idle
<1>2. Document = Holds(NoTree, <<>>)
  BY <1>1 DEF Document
<1>3. ASSUME NEW q \in Paths PROVE Holds(NoTree, <<>>)[q] = None
  <2>1. ValueAt(NoTree, q) = None
    <3>1. \A p \in Paths : ~IsContainer(NoTree, p)
      BY NoTreeType, KindsApart
    <3>2. InlineAt(NoTree, q) = None
      BY <3>1, ParentMeaning DEF InlineAt
    <3> QED BY <3>2, NoTreeType, ValueMeaning
  <2> QED BY <2>1 DEF Holds
<1>4. Holds(NoTree, <<>>) = [p \in Paths |-> None]
  BY <1>3 DEF Holds
<1> QED BY <1>2, <1>4 DEF JD!Init, None, JD!None

\* A call writes the document when it ends, and at no other step.
LEMMA DocumentNext ==
  ASSUME OneCaller, SteadyWrites, Inv, Inv', Course, [Next]_vars
  PROVE  [JD!Next]_Document
<1>1. CASE UNCHANGED vars
  <2>1. Document' = Document
    BY <1>1 DEF vars, Document, Quiet, Busy
  <2> QED BY <2>1
<1>2. CASE Next
  <2>1. PICK o \in Ops :
          \/ \E r \in Writes : \E seen \in Seen(r) : Start(o, r, seen)
          \/ VerifyParent(o)
          \/ Destructure(o)
          \/ Apply(o)
          \/ Reject(o)
          \/ Ack(o)
          \/ End(o)
    BY <1>2 DEF Next
  <2>2. /\ op[o] \in Call /\ op'[o] \in Call /\ op \in [Ops -> Call]
        /\ store \in Tree /\ store' \in Tree
        /\ Busy(o) => OnCourse(op[o]) /\ Midway(op[o], store)
    BY OneSlot
  <2>3. ASSUME NEW r \in Writes, NEW seen \in Seen(r), Start(o, r, seen)
        PROVE  Document' = Document
    <3>1. ~Busy(o) /\ op'[o].pc = "run" /\ op'[o].read = store
      BY <2>3 DEF Start
    <3> QED BY <3>1, DocumentMeaning
  <2>4. ASSUME VerifyParent(o) \/ Destructure(o) \/ Apply(o) \/ Ack(o)
        PROVE  Document' = Document
    <3>1. Busy(o)
      BY <2>4 DEF VerifyParent, Destructure, Apply, Ack, Busy, Inv, Sound
    <3>2. op'[o].read = op[o].read /\ op'[o].pc # "idle"
      <4>1. CASE VerifyParent(o)
        BY <2>2, <4>1 DEF VerifyParent, Call
      <4>2. CASE Destructure(o)
        BY <4>2, DestructureCall
      <4>3. CASE Apply(o)
        BY <2>2, <3>1, <4>3 DEF Apply, Call, Busy
      <4>4. CASE Ack(o)
        BY <2>2, <4>4 DEF Ack, Call
      <4> QED BY <2>4, <4>1, <4>2, <4>3, <4>4
    <3> QED BY <3>1, <3>2, DocumentMeaning
  <2>5. ASSUME End(o)
        PROVE  JD!Next
    <3>1. /\ Busy(o) /\ op[o].todo = {} /\ op[o].verify = {} /\ op[o].out = <<>>
          /\ op' = [op EXCEPT ![o] = Idle] /\ store' = store
      BY <2>5 DEF End, Busy, Course
    <3>2. OnCourse(op[o]) /\ Midway(op[o], store) /\ op[o].request \in Writes
      BY <2>2, <3>1 DEF OnCourse
    <3>3. store = Whole(op[o]) /\ Sane(store)
      BY <2>2, <3>1, <3>2, Settled
    <3>4. op[o].read \in Tree /\ Sane(op[o].read)
      BY <2>2, <3>2, WholeType DEF Midway
    <3>5. Document = Values(op[o].read)
      BY <3>1, <3>4, DocumentMeaning, GetAll
    <3>6. Document' = Values(store)
      <4>1. op'[o].pc = "idle"
        BY <2>2, <3>1 DEF Idle
      <4>2. Document' = Holds(store', <<>>)
        BY <4>1, DocumentMeaning
      <4> QED BY <2>2, <3>1, <3>3, <4>2, GetAll
    <3>7. Values(store) = Effect(Values(op[o].read), op[o].request)
      BY <2>2, <3>1, <3>2, <3>3, Fulfilled
    <3> QED BY <3>2, <3>5, <3>6, <3>7, SameWritten, AsAsked DEF JD!Next, JD!Write
  <2>6. ~Reject(o)
    BY DEF Reject, OneCaller
  <2> QED BY <2>1, <2>3, <2>4, <2>5, <2>6
<1> QED BY <1>1, <1>2

(***************************************************************************)
(* Under the same conditions the records implement the document: each call *)
(* changes what a client can read exactly as its set or update promises.   *)
(***************************************************************************)
THEOREM ImplementsDocument == ASSUME OneCaller, SteadyWrites PROVE Spec => Implements
<1>1. Inv /\ Course /\ [Next]_vars => (Inv /\ Course)'
  BY InvNext, CourseNext
<1>2. Init => Inv /\ Course
  BY InvInit, CourseInit
<1>3. Inv /\ Inv' /\ Course /\ [Next]_vars => [JD!Next]_Document
  BY DocumentNext
<1> QED BY <1>1, <1>2, <1>3, DocumentInit, PTL DEF Spec, Implements, JD!Spec

----------------------------------------------------------------------------
(***************************************************************************)
(* Many calls at a time.  Every record, in the backend, in a private tree  *)
(* or on its way, is one that some write leaves at its path.               *)
(***************************************************************************)
AllFit(puts) == \A i \in 1..Len(puts) : Fit(puts[i].path, puts[i].record)

\* A call works at its target and below it, verifies above it, and its
\* target has a record unless it is still to be restructured.
Fitting(c) ==
  /\ Proper(c.tree)
  /\ AllFit(c.out)
  /\ \A a \in c.verify : Below(a, Aim(c))
  /\ \A j \in c.todo : Under(Aim(c), j.path)
  /\ (\A j \in c.todo : j.path # Aim(c)) => IsContainer(c.tree, Aim(c))

\* Fitting writes after fitting writes.
LEMMA BothFit ==
  ASSUME NEW a \in Seq(Put), NEW b \in Seq(Put), AllFit(a), AllFit(b)
  PROVE  a \o b \in Seq(Put) /\ AllFit(a \o b)
<1> DEFINE ab == a \o b
<1>1. ab \in Seq(Put)
  OBVIOUS
<1>2. ASSUME NEW i \in 1..Len(ab)
      PROVE  (i \in 1..Len(a) /\ ab[i] = a[i]) \/ (i - Len(a) \in 1..Len(b) /\ ab[i] = b[i - Len(a)])
  OBVIOUS
<1>3. AllFit(ab)
  <2> HIDE DEF ab
  <2> QED BY <1>2 DEF AllFit
<1> QED BY <1>1, <1>3

\* One fitting write.
LEMMA OneFits ==
  ASSUME NEW p \in Paths, NEW rec \in Record, Fit(p, rec)
  PROVE  /\ <<[path |-> p, record |-> rec]>> \in Seq(Put)
         /\ AllFit(<<[path |-> p, record |-> rec]>>)
<1> DEFINE put == [path |-> p, record |-> rec]
<1>1. put \in Put /\ put.path = p /\ put.record = rec
  BY DEF Put
<1> HIDE DEF put
<1>2. <<put>> \in Seq(Put) /\ \A i \in 1..Len(<<put>>) : <<put>>[i] = put
  BY <1>1
<1>3. AllFit(<<put>>)
  BY <1>1, <1>2 DEF AllFit
<1> QED BY <1>2, <1>3 DEF put

\* No write at all.
LEMMA NoneFits == <<>> \in Seq(Put) /\ AllFit(<<>>)
BY DEF AllFit

\* Removals fit.
LEMMA RemovalsFit ==
  ASSUME NEW G, G \subseteq Paths, NEW f \in Descents(G)
  PROVE  RemovePuts(f) \in Seq(Put) /\ AllFit(RemovePuts(f))
<1>1. RemovePuts(f) \in Seq(Put) /\ \A i \in 1..Len(RemovePuts(f)) : RemovePuts(f)[i].path \in G
  BY RemovePutsType
<1>2. f \in [1..Cardinality(G) -> G]
  BY DEF Descents
<1>3. DOMAIN RemovePuts(f) = DOMAIN f
  BY DEF RemovePuts
<1>4. \A i \in 1..Len(RemovePuts(f)) : i \in DOMAIN f
  BY <1>1, <1>3
<1>5. \A i \in 1..Len(RemovePuts(f)) : RemovePuts(f)[i].record = NoRecord
  BY <1>4 DEF RemovePuts
<1> QED BY <1>1, <1>5, NoRecordFit DEF AllFit

\* The container that verifyParents creates.
LEMMA CreatedFits ==
  ASSUME NEW r \in Writes, NEW a \in Paths, Below(a, Target(r))
  PROVE  /\ Container(CreatedKind(a), EmptyInline) \in Record
         /\ Fit(a, Container(CreatedKind(a), EmptyInline))
<1> DEFINE new == Container(CreatedKind(a), EmptyInline)
<1>1. CreatedKind(a) \in Containers
  BY DEF CreatedKind, KindOfKey, Containers
<1>2. EmptyInline \in [Keys -> InlineValues]
  BY DEF EmptyInline, InlineValues
<1>3. new \in Record
  BY <1>1, <1>2, ContainerType
<1>4. CreatedKind(a) \in KindsAt(a)
  BY DEF KindsAt
<1>5. new.kind = CreatedKind(a) /\ new.text = None /\ \A k \in Keys : new.inline[k] = None
  BY DEF Container, EmptyInline
<1>6. new.kind # None /\ new.kind # Str /\ None \notin Containers
  BY <1>1, <1>5, NoneIsNoKind
<1> HIDE DEF new
<1>7. Fit(a, new)
  BY <1>4, <1>5, <1>6 DEF Fit
<1> QED BY <1>3, <1>7 DEF new

\* The record destructure makes of an object or an array.
LEMMA RebuiltFits ==
  ASSUME NEW r \in Writes, NEW t \in Tree, Proper(t), NEW q \in Paths, NEW mode,
         Content(r)[q] \in Containers
  PROVE  /\ Container(Content(r)[q], NewInline(t, mode, q, Content(r))) \in Record
         /\ Fit(q, Container(Content(r)[q], NewInline(t, mode, q, Content(r))))
<1> DEFINE w == Content(r)
           inline == NewInline(t, mode, q, w)
           new == Container(w[q], inline)
<1>1. w \in [Paths -> JsonValues] /\ inline \in [Keys -> InlineValues]
  BY MDEAssumption, ContentType, NewInlineType
<1>2. new \in Record /\ new.kind = w[q] /\ new.text = None /\ new.inline = inline
  BY <1>1, ContainerType DEF Container
<1>3. new.kind \in KindsAt(q)
  BY <1>2 DEF KindsAt
<1>4. new.kind # None /\ new.kind # Str
  BY <1>2, NoneIsNoKind
<1>5. ASSUME NEW k \in Keys, Append(q, k) \in Paths, inline[k] \in Containers
      PROVE  inline[k] \in KindsAt(Append(q, k))
  <2> DEFINE d == Append(q, k)
  <2>1. inline[k] # None
    BY <1>5, Marks
  <2>2. inline[k] = w[d] \/ inline[k] = t[q].inline[k]
    BY <1>5, <2>1 DEF NewInline, EmptyInline
  <2>3. CASE inline[k] = w[d]
    BY <1>5, <2>3 DEF KindsAt
  <2>4. CASE inline[k] = t[q].inline[k]
    BY <1>5, <2>4 DEF Proper, Fit
  <2> QED BY <2>2, <2>3, <2>4
<1> HIDE DEF new, inline, w
<1>6. Fit(q, new)
  BY <1>2, <1>3, <1>4, <1>5 DEF Fit
<1> QED BY <1>2, <1>6 DEF new, inline, w

\* The record of a long string.
LEMMA TextFits ==
  ASSUME NEW r \in Writes, NEW q \in Paths, Content(r)[q] \in Long
  PROVE  Text(Content(r)[q]) \in Record /\ Fit(q, Text(Content(r)[q]))
<1> DEFINE new == Text(Content(r)[q])
<1>1. r \in Requests /\ Content(r)[q] \notin Containers /\ Content(r)[q] # None
  BY MDEAssumption, Marks, ValuesAssumption DEF Containers
<1>2. q # Target(r)
  BY <1>1, DataShape
<1>3. r.value[q] = Content(r)[q]
  <2>1. r.value \in [Paths -> JsonValues] /\ Content(r)[q] # Null
    BY <1>1, Marks DEF Requests
  <2> QED BY <1>2, <2>1 DEF Content, Asked, Target
<1>4. TextAt(q)
  BY <1>3 DEF TextAt
<1>5. new \in Record /\ new.kind = Str /\ new.text \in Long /\ \A k \in Keys : new.inline[k] = None
  BY TextType DEF Text, EmptyInline
<1> HIDE DEF new
<1>6. Fit(q, new)
  BY <1>4, <1>5, Marks, NoneIsNoKind DEF Fit
<1> QED BY <1>5, <1>6 DEF new

\* A parent that gave up an inline value still fits.
LEMMA ParentFixedFits ==
  ASSUME NEW t \in Tree, Proper(t), NEW q \in Paths
  PROVE  /\ ParentFixed(t, q) \in Tree /\ Proper(ParentFixed(t, q))
         /\ ParentPuts(t, q) \in Seq(Put) /\ AllFit(ParentPuts(t, q))
<1> DEFINE u == ParentFixed(t, q)
<1>1. u \in Tree /\ ParentPuts(t, q) \in Seq(Put)
  BY ParentFixedType
<1>2. Grafts(t, u, q, {}) \/ u = t
  <2>1. CASE q = <<>>
    <3>1. u = t
      BY <2>1 DEF ParentFixed, InlineAt
    <3> QED BY <3>1
  <2>2. CASE q # <<>>
    BY <2>2, ParentFixedMeaning DEF Grafts
  <2> QED BY <2>1, <2>2
<1>3. u[q] = t[q]
  <2>1. q = <<>> \/ q # Parent(q)
    BY ParentMeaning DEF Below
  <2> QED BY <2>1, ParentFixedMeaning
<1>4. Fit(q, u[q])
  BY <1>3 DEF Proper
<1>5. Proper(u)
  BY <1>1, <1>2, <1>4, GraftProper
<1>6. AllFit(ParentPuts(t, q))
  <2>1. CASE InlineAt(t, q) = None
    BY <2>1, NoneFits DEF ParentPuts
  <2>2. CASE InlineAt(t, q) # None
    <3>1. Parent(q) \in Paths
      BY <2>2, ParentAbove DEF InlineAt
    <3>2. u[Parent(q)] \in Record /\ Fit(Parent(q), u[Parent(q)])
      BY <1>1, <1>5, <3>1 DEF Tree, Proper
    <3>3. ParentPuts(t, q) = <<[path |-> Parent(q), record |-> u[Parent(q)]]>>
      BY <2>2 DEF ParentPuts
    <3> HIDE DEF u
    <3> QED BY <3>1, <3>2, <3>3, OneFits
  <2> QED BY <2>1, <2>2
<1> QED BY <1>1, <1>5, <1>6

\* A tree with a fitting record at q and others removed fits.
LEMMA RebuiltProper ==
  ASSUME NEW t \in Tree, Proper(t), NEW G, NEW q \in Paths, NEW rec \in Record, Fit(q, rec)
  PROVE  Proper([Cleared(t, G) EXCEPT ![q] = rec])
<1> DEFINE u == [Cleared(t, G) EXCEPT ![q] = rec]
<1>1. \A p \in Paths : u[p] = IF p = q THEN rec ELSE IF p \in G THEN NoRecord ELSE t[p]
  BY DEF Cleared
<1> HIDE DEF u
<1>2. Proper(u)
  BY <1>1, NoRecordFit DEF Proper
<1> QED BY <1>2 DEF u

\* What emit sends.
LEMMA EmittedFits ==
  ASSUME NEW t, NEW q \in Paths, NEW rec \in Record, Fit(q, rec)
  PROVE  Emitted(t, q, rec) \in Seq(Put) /\ AllFit(Emitted(t, q, rec))
BY OneFits, NoneFits DEF Emitted

\* Start: what is read fits, and so does the first ancestor.
LEMMA StartFits ==
  ASSUME NEW r \in Writes, NEW s \in Tree, Proper(s), NEW c \in Call, Begun(c, r, s)
  PROVE  Fitting(c)
<1> DEFINE loaded == Loaded(s, r.path)
           above == {a \in Paths : Below(a, Target(r))}
           new == Container(CreatedKind(<<>>), EmptyInline)
<1>1. /\ c.request = r
      /\ c.tree = (IF above = {} THEN loaded ELSE Verified(loaded, <<>>))
      /\ c.todo = {[path |-> Target(r), mode |-> Mode(r)]}
      /\ c.verify = above \ {<<>>}
      /\ c.out = (IF above = {} THEN <<>> ELSE VerifyPuts(loaded, <<>>))
  BY DEF Begun
<1>2. r \in Requests /\ r.path \in Paths /\ Target(r) \in Paths /\ Aim(c) = Target(r) /\ <<>> \in Paths
  BY <1>1, MDEAssumption, TargetAbove, UnderRoot DEF Aim
<1>3. loaded \in Tree /\ Proper(loaded)
  BY <1>2, LoadedType, NoRecordFit DEF Loaded, Proper
<1> HIDE DEF loaded
<1>4. Proper(c.tree) /\ AllFit(c.out)
  <2>1. CASE above = {}
    BY <1>1, <1>3, <2>1, NoneFits
  <2>2. CASE above # {}
    <3>1. PICK a \in Paths : Below(a, Target(r))
      BY <2>2
    <3>2. Below(<<>>, Target(r))
      BY <1>2, <3>1, UnderRoot, UnderBoth DEF Below
    <3>3. new \in Record /\ Fit(<<>>, new)
      BY <1>2, <3>2, CreatedFits
    <3> HIDE DEF new, above
    <3>4. Proper(Verified(loaded, <<>>))
      BY <1>2, <1>3, <3>3 DEF Verified, Proper, Tree, new
    <3>5. AllFit(VerifyPuts(loaded, <<>>))
      <4>1. CASE Has(loaded, <<>>)
        BY <4>1, NoneFits DEF VerifyPuts
      <4>2. CASE ~Has(loaded, <<>>)
        <5>1. VerifyPuts(loaded, <<>>) = <<[path |-> <<>>, record |-> new]>>
          BY <1>2, <1>3, <4>2 DEF VerifyPuts, Verified, Tree, new
        <5> QED BY <1>2, <3>3, <5>1, OneFits
      <4> QED BY <4>1, <4>2
    <3> QED BY <1>1, <2>2, <3>4, <3>5
  <2> QED BY <2>1, <2>2
<1>5. \A j \in c.todo : j.path = Aim(c)
  BY <1>1, <1>2
<1>6. c.todo # {}
  BY <1>1
<1>7. \A a \in c.verify : Below(a, Aim(c))
  BY <1>1, <1>2
<1> QED BY <1>2, <1>4, <1>5, <1>6, <1>7, UnderRoot DEF Fitting

\* VerifyParent: the ancestor that is created fits.
LEMMA VerifyFits ==
  ASSUME NEW c \in Call, OnCourse(c), Fitting(c), NEW c2 \in Call, NEW a, VerifyDone(c, c2, a)
  PROVE  Fitting(c2)
<1> DEFINE r == c.request
           t == c.tree
           new == Container(CreatedKind(a), EmptyInline)
<1>1. /\ a \in c.verify
      /\ c2.request = r /\ c2.todo = c.todo /\ c2.verify = c.verify \ {a}
      /\ c2.tree = Verified(t, a)
      /\ c2.out = c.out \o VerifyPuts(t, a)
  BY DEF VerifyDone
<1>2. r \in Writes /\ a \in Paths /\ Below(a, Target(r)) /\ t \in Tree /\ c.out \in Seq(Put)
  BY <1>1, CallShape DEF Fitting, Aim
<1>3. new \in Record /\ Fit(a, new)
  BY <1>2, CreatedFits
<1>4. Aim(c2) = Aim(c) /\ Aim(c) \in Paths
  BY <1>1, CallShape DEF Aim
<1>5. Proper(t) /\ AllFit(c.out)
  BY DEF Fitting
<1>6. \A p \in Paths : Verified(t, a)[p] = IF p = a /\ ~Has(t, a) THEN new ELSE t[p]
  BY <1>2 DEF Verified, Tree
<1> HIDE DEF new
<1>7. Proper(c2.tree)
  BY <1>1, <1>3, <1>5, <1>6 DEF Proper
<1>8. VerifyPuts(t, a) \in Seq(Put) /\ AllFit(VerifyPuts(t, a))
  <2>1. CASE Has(t, a)
    BY <2>1, NoneFits DEF VerifyPuts
  <2>2. CASE ~Has(t, a)
    <3>1. VerifyPuts(t, a) = <<[path |-> a, record |-> new]>>
      BY <1>2, <1>6, <2>2 DEF VerifyPuts
    <3> QED BY <1>2, <1>3, <3>1, OneFits
  <2> QED BY <2>1, <2>2
<1>9. AllFit(c2.out)
  BY <1>1, <1>2, <1>5, <1>8, BothFit
<1>10. IsContainer(t, Aim(c)) => IsContainer(c2.tree, Aim(c))
  <2>1. Aim(c) # a
    BY <1>2 DEF Below, Aim
  <2> QED BY <1>1, <1>4, <1>6, <2>1 DEF IsContainer
<1> QED BY <1>1, <1>4, <1>7, <1>9, <1>10 DEF Fitting

\* What destructure takes away lies below the node.
LEMMA DroppedBelow ==
  ASSUME NEW t, NEW q \in Paths, NEW w, NEW mode
  PROVE  /\ Dropped(t, mode, q, w) \subseteq Paths /\ q \notin Dropped(t, mode, q, w)
         /\ DroppedByText(t, q) \subseteq Paths /\ q \notin DroppedByText(t, q)
         /\ \A p \in Dropped(t, mode, q, w) \cup DroppedByText(t, q) : Below(q, p)
<1>1. ASSUME NEW d \in Children(q), NEW p \in RemovedWith(t, d)
      PROVE  p \in Paths /\ Below(q, p)
  <2>1. p \in Paths /\ Under(d, p)
    BY <1>1 DEF RemovedWith
  <2>2. d \in Paths /\ Below(q, d)
    BY ParentMeaning DEF Children
  <2>3. Under(q, p)
    BY <2>1, <2>2, UnderTransitive DEF Below
  <2>4. p # q
    BY <2>1, <2>2, UnderBoth DEF Below
  <2> QED BY <2>1, <2>3, <2>4 DEF Below
<1>2. \A p \in Dropped(t, mode, q, w) : p \in Paths /\ Below(q, p)
  BY <1>1 DEF Dropped
<1>3. \A p \in DroppedByText(t, q) : p \in Paths /\ Below(q, p)
  BY <1>1 DEF DroppedByText
<1> QED BY <1>2, <1>3 DEF Below

\* Destructure of an object or array: the new record fits.
LEMMA NodeFits ==
  ASSUME NEW c \in Call, OnCourse(c), Fitting(c), NEW c2 \in Call, NEW j \in c.todo,
         NEW fixed, NEW above, NEW f, NEW record,
         NodeDone(c, c2, j, fixed, above, f, record)
  PROVE  Fitting(c2)
<1> DEFINE q == j.path
           w == Data(c)
           G == Dropped(fixed, j.mode, q, w)
           N == [path : Dedicated(w, q), mode : {ModeAt(c.tree, j.mode, q, w)}]
<1>1. /\ w[q] \in Containers
      /\ fixed \in Tree
      /\ \/ fixed = c.tree /\ above = <<>>
         \/ fixed = ParentFixed(c.tree, q) /\ above = ParentPuts(c.tree, q)
      /\ f \in Descents(G)
      /\ record = Container(w[q], NewInline(fixed, j.mode, q, w))
      /\ c2.request = c.request /\ c2.verify = c.verify
  BY DEF NodeDone
<1>2. /\ c2.tree = [Cleared(fixed, G) EXCEPT ![q] = record]
      /\ c2.out = ((c.out \o above) \o RemovePuts(f)) \o Emitted(fixed, q, record)
      /\ c2.todo = (c.todo \ {j}) \cup N
  BY DEF NodeDone
<1>3. /\ c.request \in Writes /\ q \in Paths /\ Aim(c) \in Paths /\ w = Content(c.request)
      /\ c.tree \in Tree /\ c.out \in Seq(Put)
  BY CallShape DEF Data
<1>4. Proper(c.tree) /\ AllFit(c.out) /\ Under(Aim(c), q)
  BY DEF Fitting
<1>5. Proper(fixed) /\ above \in Seq(Put) /\ AllFit(above)
  BY <1>1, <1>3, <1>4, ParentFixedFits, NoneFits
<1>6. record \in Record /\ Fit(q, record) /\ record.kind = w[q]
  <2>1. record \in Record /\ Fit(q, record)
    BY <1>1, <1>3, <1>5, RebuiltFits
  <2> QED BY <1>1, <2>1 DEF Container
<1>7. G \subseteq Paths /\ \A p \in G : Below(q, p)
  BY <1>3, DroppedBelow
<1>8. Aim(c2) = Aim(c)
  BY <1>1 DEF Aim
<1>9. \A k \in N : k.path \in Children(q)
  BY DEF Dedicated
<1> HIDE DEF G, N, w
<1>10. Proper(c2.tree)
  <2> HIDE DEF q
  <2>1. Proper([Cleared(fixed, G) EXCEPT ![q] = record])
    BY <1>1, <1>3, <1>5, <1>6, RebuiltProper
  <2> QED BY <1>2, <2>1
<1>11. AllFit(c2.out)
  <2> HIDE DEF q
  <2>1. RemovePuts(f) \in Seq(Put) /\ AllFit(RemovePuts(f))
    BY <1>1, <1>7, RemovalsFit
  <2>2. Emitted(fixed, q, record) \in Seq(Put) /\ AllFit(Emitted(fixed, q, record))
    BY <1>3, <1>6, EmittedFits
  <2>3. c.out \o above \in Seq(Put) /\ AllFit(c.out \o above)
    BY <1>3, <1>4, <1>5, BothFit
  <2>4. (c.out \o above) \o RemovePuts(f) \in Seq(Put) /\ AllFit((c.out \o above) \o RemovePuts(f))
    BY <2>1, <2>3, BothFit
  <2>5. AllFit(((c.out \o above) \o RemovePuts(f)) \o Emitted(fixed, q, record))
    BY <2>2, <2>4, BothFit
  <2> QED BY <1>2, <2>5
<1>12. ASSUME NEW k \in c2.todo PROVE Under(Aim(c), k.path)
  <2>1. CASE k \in c.todo
    BY <2>1 DEF Fitting
  <2>2. CASE k \in N
    <3>1. k.path \in Paths /\ Below(q, k.path)
      BY <1>9, <2>2, ParentMeaning DEF Children
    <3> QED BY <1>3, <1>4, <3>1, UnderTransitive DEF Below
  <2> QED BY <1>2, <1>12, <2>1, <2>2
<1>13. ASSUME \A k \in c2.todo : k.path # Aim(c)
       PROVE  IsContainer(c2.tree, Aim(c))
  <2>1. \A p \in Paths : c2.tree[p] = IF p = q THEN record ELSE IF p \in G THEN NoRecord ELSE fixed[p]
    BY <1>2 DEF Cleared
  <2>2. CASE Aim(c) = q
    BY <1>1, <1>3, <1>6, <2>1, <2>2 DEF IsContainer
  <2>3. CASE Aim(c) # q
    <3>1. \A k \in c.todo : k.path # Aim(c)
      BY <1>2, <1>13, <2>3
    <3>2. IsContainer(c.tree, Aim(c))
      BY <3>1 DEF Fitting
    <3>3. fixed[Aim(c)].kind = c.tree[Aim(c)].kind
      BY <1>1, <1>3, ParentFixedMeaning
    <3>4. Aim(c) \notin G
      BY <1>3, <1>4, <1>7, <2>3, UnderBoth DEF Below
    <3> QED BY <1>3, <2>1, <2>3, <3>2, <3>3, <3>4 DEF IsContainer
  <2> QED BY <2>2, <2>3
<1> QED BY <1>1, <1>8, <1>10, <1>11, <1>12, <1>13 DEF Fitting

\* Destructure of a long string: its record fits.
LEMMA LongFits ==
  ASSUME NEW c \in Call, OnCourse(c), Fitting(c), NEW c2 \in Call, NEW j \in c.todo,
         NEW f, TextDone(c, c2, j, f)
  PROVE  Fitting(c2)
<1> DEFINE q == j.path
           record == Text(Data(c)[q])
           G == DroppedByText(c.tree, q)
<1>1. /\ Data(c)[q] \in Long
      /\ f \in Descents(G)
      /\ c2.request = c.request /\ c2.verify = c.verify
      /\ c2.tree = [Cleared(c.tree, G) EXCEPT ![q] = record]
      /\ c2.out = (c.out \o RemovePuts(f)) \o Emitted(c.tree, q, record)
      /\ c2.todo = c.todo \ {j}
  BY DEF TextDone
<1>2. /\ c.request \in Writes /\ c.request \in Requests /\ q \in Paths /\ Aim(c) \in Paths
      /\ Data(c) = Content(c.request) /\ Aim(c) = Target(c.request)
      /\ c.tree \in Tree /\ c.out \in Seq(Put)
  BY CallShape DEF Data, Aim
<1>3. Proper(c.tree) /\ AllFit(c.out) /\ Under(Aim(c), q)
  BY DEF Fitting
<1>4. record \in Record /\ Fit(q, record)
  BY <1>1, <1>2, TextFits
<1>5. G \subseteq Paths /\ \A p \in G : Below(q, p)
  BY <1>2, DroppedBelow
<1>6. Aim(c2) = Aim(c)
  BY <1>1 DEF Aim
<1>7. q # Aim(c)
  <2>1. Data(c)[Aim(c)] \in Containers
    BY <1>2, DataShape
  <2> QED BY <1>1, <2>1, ValuesAssumption DEF Containers
<1> HIDE DEF G, record
<1>8. Proper(c2.tree)
  BY <1>1, <1>2, <1>3, <1>4, RebuiltProper
<1>9. AllFit(c2.out)
  <2> HIDE DEF q
  <2>1. RemovePuts(f) \in Seq(Put) /\ AllFit(RemovePuts(f))
    BY <1>1, <1>5, RemovalsFit
  <2>2. Emitted(c.tree, q, record) \in Seq(Put) /\ AllFit(Emitted(c.tree, q, record))
    BY <1>2, <1>4, EmittedFits
  <2>3. c.out \o RemovePuts(f) \in Seq(Put) /\ AllFit(c.out \o RemovePuts(f))
    BY <1>2, <1>3, <2>1, BothFit
  <2>4. AllFit((c.out \o RemovePuts(f)) \o Emitted(c.tree, q, record))
    BY <2>2, <2>3, BothFit
  <2> QED BY <1>1, <2>4
<1>10. \A k \in c2.todo : Under(Aim(c), k.path)
  BY <1>1 DEF Fitting
<1>11. ASSUME \A k \in c2.todo : k.path # Aim(c)
       PROVE  IsContainer(c2.tree, Aim(c))
  <2>1. \A k \in c.todo : k.path # Aim(c)
    BY <1>1, <1>7, <1>11
  <2>2. IsContainer(c.tree, Aim(c))
    BY <2>1 DEF Fitting
  <2>3. Aim(c) \notin G
    BY <1>2, <1>3, <1>5, <1>7, UnderBoth DEF Below
  <2> QED BY <1>1, <1>2, <1>7, <2>2, <2>3 DEF IsContainer, Cleared
<1> QED BY <1>1, <1>6, <1>8, <1>9, <1>10, <1>11 DEF Fitting

----------------------------------------------------------------------------
(***************************************************************************)
(* A call whose branch nobody else writes: seen from there it is a call    *)
(* that runs alone, over a backend of its own.                             *)
(***************************************************************************)
\* The records on the trail of p.
View(t, p) == [q \in Paths |-> IF OnTrail(q, p) THEN t[q] ELSE NoRecord]

\* The call as if there had been nothing off the trail of its target.
Own(c) == [c EXCEPT !.read = View(c.read, Aim(c))]

\* The backend holds what it would hold from the target down if the call
\* ran alone.
Unhurt(c, s) ==
  \E z \in Tree : /\ Midway(Own(c), z)
                  /\ \A p \in Paths : Under(Aim(c), p) => z[p] = s[p]

\* Of a call only what it read is replaced.
LEMMA OwnShape ==
  ASSUME NEW c \in Call, OnCourse(c)
  PROVE  /\ Own(c) \in Call /\ OnCourse(Own(c))
         /\ Own(c).pc = c.pc /\ Own(c).request = c.request /\ Own(c).tree = c.tree
         /\ Own(c).todo = c.todo /\ Own(c).verify = c.verify /\ Own(c).out = c.out
         /\ Own(c).read = View(c.read, Aim(c))
         /\ Aim(Own(c)) = Aim(c) /\ Data(Own(c)) = Data(c)
<1>1. c.read \in Tree
  BY DEF Call
<1>2. View(c.read, Aim(c)) \in Tree
  BY <1>1, NoTreeType DEF View, Tree
<1>3. /\ Own(c) \in Call
      /\ Own(c).pc = c.pc /\ Own(c).request = c.request /\ Own(c).tree = c.tree
      /\ Own(c).todo = c.todo /\ Own(c).verify = c.verify /\ Own(c).out = c.out
      /\ Own(c).read = View(c.read, Aim(c))
  <2> DEFINE v == View(c.read, Aim(c))
  <2>1. Own(c) = [c EXCEPT !.read = v]
    BY DEF Own
  <2> HIDE DEF v
  <2>2. v \in Tree
    BY <1>2 DEF v
  <2>3. /\ Own(c) \in Call
        /\ Own(c).pc = c.pc /\ Own(c).request = c.request /\ Own(c).tree = c.tree
        /\ Own(c).todo = c.todo /\ Own(c).verify = c.verify /\ Own(c).out = c.out
        /\ Own(c).read = v
    BY <2>1, <2>2 DEF Call
  <2> QED BY <2>3 DEF v
<1>4. OnCourse(Own(c))
  BY <1>3 DEF OnCourse
<1> QED BY <1>3, <1>4 DEF Aim, Data

\* The steps of the call itself keep it unhurt.
LEMMA OnwardUnhurt ==
  ASSUME SteadyWrites, NEW c \in Call, OnCourse(c), NEW c2 \in Call, OnCourse(c2),
         NEW s, Unhurt(c, s), NEW j \in c.todo, NEW fixed, NEW above, NEW f, NEW record,
         NodeDone(c, c2, j, fixed, above, f, record) \/ TextDone(c, c2, j, f)
  PROVE  Unhurt(c2, s)
<1>1. PICK z \in Tree : /\ Midway(Own(c), z)
                        /\ \A p \in Paths : Under(Aim(c), p) => z[p] = s[p]
  BY DEF Unhurt
<1>2. c2.request = c.request /\ c2.read = c.read
  BY DEF NodeDone, TextDone
<1>3. Aim(c2) = Aim(c) /\ Own(c2).read = Own(c).read
  BY <1>2, OwnShape DEF Aim
<1>4. CASE NodeDone(c, c2, j, fixed, above, f, record)
  <2>1. NodeDone(Own(c), Own(c2), j, fixed, above, f, record)
    BY <1>2, <1>3, <1>4, OwnShape DEF NodeDone
  <2>2. Midway(Own(c2), z)
    BY <1>1, <2>1, OwnShape, NodeMidway
  <2> QED BY <1>1, <1>3, <2>2 DEF Unhurt
<1>5. CASE TextDone(c, c2, j, f)
  <2>1. TextDone(Own(c), Own(c2), j, f)
    BY <1>2, <1>3, <1>5, OwnShape DEF TextDone
  <2>2. Midway(Own(c2), z)
    BY <1>1, <2>1, OwnShape, TextMidway
  <2> QED BY <1>1, <1>3, <2>2 DEF Unhurt
<1> QED BY <1>4, <1>5

\* So does the check of an ancestor.
LEMMA VerifyUnhurt ==
  ASSUME SteadyWrites, NEW c \in Call, OnCourse(c), NEW c2 \in Call, OnCourse(c2),
         NEW s, Unhurt(c, s), NEW a, VerifyDone(c, c2, a)
  PROVE  Unhurt(c2, s)
<1>1. PICK z \in Tree : /\ Midway(Own(c), z)
                        /\ \A p \in Paths : Under(Aim(c), p) => z[p] = s[p]
  BY DEF Unhurt
<1>2. c2.request = c.request /\ c2.read = c.read
  BY DEF VerifyDone
<1>3. Aim(c2) = Aim(c) /\ Own(c2).read = Own(c).read
  BY <1>2, OwnShape DEF Aim
<1>4. VerifyDone(Own(c), Own(c2), a)
  BY <1>2, <1>3, OwnShape DEF VerifyDone
<1>5. Midway(Own(c2), z)
  BY <1>1, <1>4, OwnShape, VerifyMidway
<1> QED BY <1>1, <1>3, <1>5 DEF Unhurt

\* A call whose own state stays is unhurt over any backend that is the same
\* from its target down.
LEMMA StillUnhurt ==
  ASSUME NEW c \in Call, OnCourse(c), NEW c2 \in Call, OnCourse(c2),
         c2.request = c.request, c2.read = c.read, c2.tree = c.tree,
         c2.todo = c.todo, c2.verify = c.verify, c2.out = c.out,
         NEW s, NEW s2, Unhurt(c, s), \A p \in Paths : Under(Aim(c), p) => s2[p] = s[p]
  PROVE  Unhurt(c2, s2)
<1>1. PICK z \in Tree : /\ Midway(Own(c), z)
                        /\ \A p \in Paths : Under(Aim(c), p) => z[p] = s[p]
  BY DEF Unhurt
<1>2. Aim(c2) = Aim(c) /\ Own(c2).read = Own(c).read
  BY OwnShape DEF Aim
<1>3. Carries(Own(c2).out, z, Whole(Own(c)))
  BY <1>1, OwnShape DEF Midway
<1>4. Midway(Own(c2), z)
  BY <1>1, <1>2, <1>3, OwnShape, StillMidway
<1> QED BY <1>1, <1>2, <1>4 DEF Unhurt

\* A write of the call reaches the backend.
LEMMA ApplyUnhurt ==
  ASSUME NEW c \in Call, OnCourse(c), NEW c2 \in Call, OnCourse(c2), c.out # <<>>,
         c2.request = c.request, c2.read = c.read, c2.tree = c.tree,
         c2.todo = c.todo, c2.verify = c.verify, c2.out = Tail(c.out),
         NEW s \in Tree, Unhurt(c, s)
  PROVE  Unhurt(c2, [s EXCEPT ![Head(c.out).path] = Head(c.out).record])
<1> DEFINE put == Head(c.out)
           s2 == [s EXCEPT ![put.path] = put.record]
<1>1. PICK z \in Tree : /\ Midway(Own(c), z)
                        /\ \A p \in Paths : Under(Aim(c), p) => z[p] = s[p]
  BY DEF Unhurt
<1>2. Aim(c2) = Aim(c) /\ Own(c2).read = Own(c).read
  BY OwnShape DEF Aim
<1>3. c.out \in Seq(Put)
  BY CallShape
<1>4. put.path \in Paths /\ put.record \in Record
  <2>1. put \in Put
    BY <1>3
  <2> QED BY <2>1 DEF Put
<1> DEFINE z2 == [z EXCEPT ![put.path] = put.record]
<1>5. z2 \in Tree
  BY <1>4 DEF Tree
<1>6. Carries(c.out, z, Whole(Own(c)))
  BY <1>1, OwnShape DEF Midway
<1>7. Carries(Tail(c.out), z2, Whole(Own(c)))
  BY <1>3, <1>6, CarriesRest
<1>8. \A p \in Paths : Under(Aim(c), p) => z2[p] = s2[p]
  BY <1>1, <1>4 DEF Tree
<1> HIDE DEF put, z2, s2
<1>9. Midway(Own(c2), z2)
  BY <1>1, <1>2, <1>7, OwnShape, StillMidway
<1>10. Unhurt(c2, s2)
  BY <1>2, <1>5, <1>8, <1>9 DEF Unhurt
<1> QED BY <1>10 DEF s2, put

\* A call that starts over records that hang together on its trail.
LEMMA StartUnhurt ==
  ASSUME SteadyWrites, NEW r \in Writes, NEW s \in Tree, Proper(s), Intact(s, Target(r)),
         NEW c \in Call, OnCourse(c), Started(c, r, s)
  PROVE  Unhurt(c, s)
<1> DEFINE at == Target(r)
           v == View(s, at)
<1>1. /\ r \in Requests /\ r.path \in Paths /\ at \in Paths /\ Under(at, r.path)
      /\ c.request = r /\ c.read = s /\ Aim(c) = at
  BY MDEAssumption, TargetAbove DEF Started, Begun, Aim
<1>2. v \in Tree /\ \A q \in Paths : v[q] = IF OnTrail(q, at) THEN s[q] ELSE NoRecord
  BY NoTreeType DEF View, Tree
<1>3. \A q \in Paths : OnTrail(q, r.path) => OnTrail(q, at)
  BY <1>1, UnderTransitive, UnderLinear DEF OnTrail
<1>4. \A q \in Paths : Under(q, r.path) => OnTrail(q, at)
  BY <1>3 DEF OnTrail
<1> HIDE DEF v
<1>5. Sane(v)
  <2>1. ASSUME NEW p \in Paths \ {<<>>}, Has(v, p) PROVE IsContainer(v, Parent(p))
    <3>1. OnTrail(p, at) /\ v[p] = s[p]
      BY <1>2, <2>1, NoTreeType DEF Has, NoRecord
    <3>2. IsContainer(s, Parent(p))
      BY <2>1, <3>1 DEF Intact, Has
    <3>3. Parent(p) \in Paths /\ Under(Parent(p), p)
      BY ParentAbove
    <3>4. OnTrail(Parent(p), at)
      BY <1>1, <3>1, <3>3, TrailAbove
    <3> QED BY <1>2, <3>2, <3>3, <3>4 DEF IsContainer
  <2>2. Proper(v)
    BY <1>2, NoRecordFit DEF Proper
  <2> QED BY <2>1, <2>2 DEF Sane, Tidy
<1>6. Loaded(v, r.path) = Loaded(s, r.path)
  <2>1. \A q \in Paths : OnTrail(q, r.path) => v[q] = s[q]
    BY <1>2, <1>3
  <2>2. v[r.path] = s[r.path]
    BY <1>1, <2>1, UnderRoot DEF OnTrail
  <2>3. r.path # <<>> => v[Parent(r.path)] = s[Parent(r.path)]
    BY <1>1, <2>1, ParentAbove DEF OnTrail
  <2> QED BY <2>1, <2>2, <2>3 DEF Loaded, Has
<1>7. Own(c).read = v
  BY <1>1, OwnShape DEF v
<1>8. Started(Own(c), r, v)
  BY <1>6, <1>7, OwnShape DEF Started, Begun
<1>9. Midway(Own(c), v)
  BY <1>2, <1>5, <1>8, OwnShape, StartMidway
<1> QED BY <1>1, <1>2, <1>9 DEF Unhurt, OnTrail

----------------------------------------------------------------------------
(* What the caller gets. *)

\* What a write promises from its target down depends on what was there.
LEMMA WrittenLocal ==
  ASSUME NEW r \in Requests, NEW d, NEW e,
         \A x \in Paths : Under(Target(r), x) => d[x] = e[x],
         NEW q \in Paths, Under(Target(r), q)
  PROVE  Effect(d, r)[q] = Effect(e, r)[q]
<1>1. \A c \in Paths : Keeps(d, r, c) <=> Keeps(e, r, c)
  BY DEF Keeps, Merges, Between
<1> QED BY <1>1 DEF Effect, After, Keeps

\* A get depends on the records from its path down, and on the one above
\* if its path has none.
LEMMA SameGet ==
  ASSUME NEW s \in Tree, NEW t \in Tree, NEW at \in Paths,
         \A p \in Paths : Under(at, p) => s[p] = t[p],
         IsContainer(t, at) \/ at = <<>> \/ s[Parent(at)] = t[Parent(at)],
         NEW q \in Paths, Under(at, q)
  PROVE  Holds(s, at)[q] = Holds(t, at)[q]
<1>1. Reached(s, at, q) <=> Reached(t, at, q)
  BY DEF Reached, IsContainer
<1>2. s[q] = t[q]
  OBVIOUS
<1>3. ValueAt(s, q) = ValueAt(t, q)
  <2>1. CASE IsContainer(t, q)
    BY <1>2, <2>1, ValueMeaning DEF IsContainer
  <2>2. CASE ~IsContainer(t, q)
    <3>1. q = <<>> \/ s[Parent(q)] = t[Parent(q)]
      <4>1. CASE q = at
        BY <2>2, <4>1
      <4>2. CASE q # at
        BY <4>2, AboveParent DEF Below
      <4> QED BY <4>1, <4>2
    <3>2. InlineAt(s, q) = InlineAt(t, q)
      BY <3>1 DEF InlineAt, IsContainer
    <3> QED BY <1>2, <3>2 DEF ValueAt
  <2> QED BY <2>1, <2>2
<1> QED BY <1>1, <1>3 DEF Holds

\* Of records that hang together a get returns every value.
LEMMA GetBelow ==
  ASSUME NEW t, NEW open, Tidy(t, open), NEW at \in Paths,
         \A x \in Paths : Under(at, x) => \A a \in open : ~Under(x, a),
         NEW q \in Paths, Under(at, q)
  PROVE  Holds(t, at)[q] = ValueAt(t, q)
<1>1. CASE Reached(t, at, q)
  BY <1>1 DEF Holds
<1>2. CASE ~Reached(t, at, q)
  <2>1. PICK a \in Paths : Under(at, a) /\ Below(a, q) /\ ~IsContainer(t, a)
    BY <1>2 DEF Reached
  <2>2. ValueAt(t, q) = None
    BY <2>1, NothingBelow
  <2> QED BY <1>2, <2>2 DEF Holds
<1> QED BY <1>1, <1>2

\* The i-th inline entry of an array without gaps is the one at i: as many
\* come before it as there are indexes below i.
LEMMA PackedEntry ==
  ASSUME NEW t \in Tree, NEW a \in Paths, t[a].kind = Arr, InPlace(t, a), NEW i \in Indexes
  PROVE  EntryAt(t, a, i) = t[a].inline[i]
<1> DEFINE filled == Filled(t, a)
           at == {k \in filled : Cardinality({l \in filled : l < k}) = i}
<1>1. filled \subseteq Indexes /\ Indexes \subseteq Nat /\ Indexes \subseteq Keys
  BY KeysAssumption DEF Filled, Keys
<1>2. \A k \in filled, j \in Indexes : j < k => j \in filled
  BY <1>1 DEF InPlace, Filled
<1>3. ASSUME NEW k \in filled PROVE Cardinality({l \in filled : l < k}) = k
  <2>1. k \in Nat /\ 0..k \subseteq Indexes
    BY <1>1, KeysAssumption
  <2>2. {l \in filled : l < k} = 0..(k - 1)
    <3>1. ASSUME NEW l \in 0..(k - 1) PROVE l \in filled /\ l < k
      <4>1. l \in 0..k /\ l < k
        BY <2>1
      <4>2. l \in Indexes
        BY <2>1, <4>1
      <4> QED BY <1>2, <4>1, <4>2
    <3>2. ASSUME NEW l \in filled, l < k PROVE l \in 0..(k - 1)
      <4>1. l \in Nat
        BY <1>1
      <4> QED BY <2>1, <3>2, <4>1
    <3> HIDE DEF filled
    <3> QED BY <3>1, <3>2
  <2>3. 0 \in Int /\ k - 1 \in Int
    BY <2>1
  <2>4. Cardinality(0..(k - 1)) = IF 0 > k - 1 THEN 0 ELSE k - 1 - 0 + 1
    BY <2>3, FS_Interval
  <2>5. (IF 0 > k - 1 THEN 0 ELSE k - 1 - 0 + 1) = k
    BY <2>1
  <2>6. Cardinality(0..(k - 1)) = k
    <3> HIDE DEF filled, at
    <3> QED BY <2>4, <2>5
  <2> HIDE DEF filled
  <2> QED BY <2>2, <2>6, Zenon
<1>4. at = {k \in filled : k = i}
  BY <1>3
<1>5. EntryAt(t, a, i) = IF at = {} THEN None ELSE t[a].inline[CHOOSE k \in at : TRUE]
  BY DEF EntryAt
<1>6. i \in filled <=> t[a].inline[i] # None
  BY DEF Filled
<1> HIDE DEF filled, at
<1>7. CASE i \in filled
  <2>1. at = {i}
    BY <1>4, <1>7
  <2>2. (CHOOSE k \in at : TRUE) = i
    BY <2>1
  <2> QED BY <1>5, <2>1, <2>2
<1>8. CASE i \notin filled
  <2>1. at = {}
    BY <1>4, <1>8
  <2> QED BY <1>5, <1>6, <1>8, <2>1
<1> QED BY <1>7, <1>8

\* Where arrays are in place a get returns what the records hold.
LEMMA LegibleRead ==
  ASSUME NEW t \in Tree, NEW from \in Paths, NEW q \in Paths, Under(from, q), Legible(t, from, q)
  PROVE  Get(t, from)[q] = Holds(t, from)[q]
<1>1. CASE ~Reached(t, from, q)
  <2>1. Get(t, from)[q] = None
    BY <1>1 DEF Get
  <2> QED BY <1>1, <2>1 DEF Holds
<1>2. CASE Reached(t, from, q) /\ Has(t, q)
  <2>1. Get(t, from)[q] = ValueAt(t, q)
    BY <1>2 DEF Get
  <2> QED BY <1>2, <2>1 DEF Holds
<1>3. CASE Reached(t, from, q) /\ ~Has(t, q)
  <2>1. Holds(t, from)[q] = InlineAt(t, q)
    <3>1. t[q].kind = None
      BY <1>3 DEF Has
    <3> QED BY <1>3, <3>1, NoneIsNoKind DEF Holds, ValueAt
  <2>2. CASE q = from
    <3>1. Get(t, from)[q] = LookedUp(t, q)
      BY <1>3, <2>2 DEF Get
    <3> QED BY <1>3, <2>1, <2>2, <3>1 DEF Legible, LookedUp
  <2>3. CASE q # from
    <3> DEFINE a == Parent(q)
    <3>1. Get(t, from)[q] = InlineRead(t, q)
      BY <1>3, <2>3 DEF Get
    <3>2. /\ q # <<>> /\ a \in Paths /\ Last(q) \in Keys /\ Under(from, a) /\ Below(a, q)
          /\ q \in Children(a)
      BY <2>3, UnderRoot, AboveParent, ParentMeaning, ParentAbove DEF Below, Children
    <3>3. IsContainer(t, a) /\ InPlace(t, a)
      BY <1>3, <3>2 DEF Reached, Legible
    <3>4. InlineAt(t, q) = t[a].inline[Last(q)]
      BY <3>2, <3>3 DEF InlineAt
    <3>5. CASE InTree(t, q)
      BY <1>3, <2>1, <3>1, <3>2, <3>3, <3>5 DEF InlineRead, LookedUp, InPlace
    <3>6. CASE ~InTree(t, q) /\ t[a].kind = Arr
      <4>1. CASE Last(q) \in Indexes
        <5>1. EntryAt(t, a, Last(q)) = t[a].inline[Last(q)]
          BY <3>2, <3>3, <3>6, <4>1, PackedEntry
        <5> QED BY <2>1, <3>1, <3>4, <3>6, <4>1, <5>1 DEF InlineRead
      <4>2. CASE Last(q) \notin Indexes
        <5>1. t[a].inline[Last(q)] = None
          BY <3>2, <3>3, <3>6, <4>2 DEF InPlace
        <5> QED BY <2>1, <3>1, <3>4, <3>6, <4>2, <5>1 DEF InlineRead
      <4> QED BY <4>1, <4>2
    <3>7. CASE ~InTree(t, q) /\ t[a].kind # Arr
      BY <2>1, <3>1, <3>7 DEF InlineRead
    <3> QED BY <3>5, <3>6, <3>7
  <2> QED BY <2>2, <2>3
<1> QED BY <1>1, <1>2, <1>3

(***************************************************************************)
(* With one caller and writes that agree on the kinds, a get between calls *)
(* returns the document, but for the entries of an array with a gap.       *)
(***************************************************************************)
THEOREM ReadsDocumentHolds == ASSUME OneCaller, SteadyWrites PROVE Spec => []ReadsDocument
<1>1. Inv /\ Course => ReadsDocument
  <2> SUFFICES ASSUME Inv, Course, Quiet, NEW p \in Paths, NEW q \in Paths,
                      Under(p, q), Legible(store, p, q)
               PROVE  Get(store, p)[q] = Document[q]
    BY DEF ReadsDocument
  <2>1. store \in Tree /\ Sane(store)
    BY DEF Inv, TypeOK, Course
  <2>2. Get(store, p)[q] = Holds(store, p)[q]
    BY <2>1, LegibleRead
  <2>3. Holds(store, p)[q] = ValueAt(store, q)
    <3>1. Tidy(store, {})
      BY <2>1 DEF Sane
    <3> QED BY <3>1, GetBelow
  <2>4. Document = Values(store)
    BY <2>1, GetAll DEF Document
  <2> QED BY <2>2, <2>3, <2>4 DEF Values
<1>2. Inv /\ Course /\ [Next]_vars => (Inv /\ Course)'
  BY InvNext, CourseNext
<1>3. Init => Inv /\ Course
  BY InvInit, CourseInit
<1> QED BY <1>1, <1>2, <1>3, PTL DEF Spec

\* A call that is unhurt when it is answered has what it promises.
LEMMA UnhurtDelivers ==
  ASSUME SteadyWrites, NEW c \in Call, OnCourse(c), Fitting(c), NEW s \in Tree, Unhurt(c, s),
         c.todo = {}, c.out = <<>>, NEW q \in Paths, Under(Aim(c), q)
  PROVE  Holds(s, Aim(c))[q] = Effect(Holds(c.read, Aim(c)), c.request)[q]
<1> DEFINE at == Aim(c)
           r == c.request
           b == Own(c)
           v == View(c.read, at)
           u == Whole(b)
<1>1. PICK z \in Tree : Midway(b, z) /\ \A p \in Paths : Under(at, p) => z[p] = s[p]
  BY DEF Unhurt
<1>2. /\ b \in Call /\ OnCourse(b) /\ b.request = r /\ b.tree = c.tree /\ b.todo = {}
      /\ b.out = <<>> /\ b.read = v /\ b.verify = c.verify /\ Aim(b) = at
  BY OwnShape
<1>3. /\ r \in Requests /\ at \in Paths /\ at = Target(r) /\ r.path \in Paths /\ Under(at, r.path)
      /\ c.read \in Tree /\ v \in Tree
  BY <1>2, CallShape, WholeType, TargetAbove DEF Aim
<1>4. z = u
  BY <1>1, <1>2, Settled
<1>5. IsContainer(u, at)
  <2>1. IsContainer(c.tree, at)
    BY DEF Fitting
  <2>2. OnTrail(at, b.request.path)
    BY <1>2, <1>3 DEF OnTrail
  <2>3. u[at] = c.tree[at]
    BY <1>2, <1>3, <2>2, OwnTree
  <2> QED BY <2>1, <2>3 DEF IsContainer
<1>6. Tidy(u, b.verify) /\ Sane(v) /\ Done(b)
  BY <1>1, <1>2 DEF Midway
<1>7. \A x \in Paths : Under(at, x) => \A a \in b.verify : ~Under(x, a)
  BY <1>1, <1>2, VerifyAbove
<1>8. \A x \in Paths : Under(at, x) => v[x] = c.read[x]
  BY <1>3 DEF View, OnTrail
<1>9. at = <<>> \/ v[Parent(at)] = c.read[Parent(at)]
  BY <1>3, ParentAbove DEF View, OnTrail
<1> HIDE DEF b, v, u, at
<1>10. Holds(s, at)[q] = ValueAt(u, q)
  <2>1. \A p \in Paths : Under(at, p) => s[p] = u[p]
    BY <1>1, <1>4
  <2>2. Holds(s, at)[q] = Holds(u, at)[q]
    BY <1>3, <1>4, <1>5, <2>1, SameGet DEF at
  <2>3. Holds(u, at)[q] = ValueAt(u, q)
    BY <1>3, <1>6, <1>7, GetBelow DEF at
  <2> QED BY <2>2, <2>3
<1>11. ValueAt(u, q) = Effect(Values(v), r)[q]
  BY <1>2, <1>6 DEF Done, Pending, u, at
<1>12. \A x \in Paths : Under(at, x) => Values(v)[x] = Holds(c.read, at)[x]
  <2> SUFFICES ASSUME NEW x \in Paths, Under(at, x) PROVE ValueAt(v, x) = Holds(c.read, at)[x]
    BY DEF Values
  <2>1. Holds(v, at)[x] = ValueAt(v, x)
    BY <1>3, <1>6, GetBelow DEF Sane
  <2>2. Holds(v, at)[x] = Holds(c.read, at)[x]
    BY <1>3, <1>8, <1>9, SameGet
  <2> QED BY <2>1, <2>2
<1>13. Effect(Values(v), r)[q] = Effect(Holds(c.read, at), r)[q]
  BY <1>3, <1>12, WrittenLocal DEF at
<1> QED BY <1>10, <1>11, <1>13 DEF at

\* So a call that is unhurt delivers, to the records and to those who read.
LEMMA UnhurtIsDelivered ==
  ASSUME SteadyWrites, NEW o \in Ops, op[o] \in Call, OnCourse(op[o]), Fitting(op[o]),
         store \in Tree, Unhurt(op[o], store), op[o].todo = {}, op[o].out = <<>>
  PROVE  Delivered(o)
<1>1. op[o].request \in Writes /\ op[o].request \in Requests
  BY CallShape DEF OnCourse
<1>2. Aim(op[o]) = At(o) /\ At(o) \in Paths
  BY <1>1, TargetAbove DEF Aim, At
<1> SUFFICES ASSUME NEW q \in Paths, Under(At(o), q)
             PROVE  /\ Holds(store, At(o))[q] = Promise(o)[q]
                    /\ Legible(store, At(o), q) => Get(store, At(o))[q] = Promise(o)[q]
  BY DEF Delivered
<1>3. Holds(store, At(o))[q] = Effect(Holds(op[o].read, At(o)), op[o].request)[q]
  BY <1>2, UnhurtDelivers
<1>4. Holds(store, At(o))[q] = Promise(o)[q]
  BY <1>1, <1>3, AsAsked DEF Promise
<1>5. Legible(store, At(o), q) => Get(store, At(o))[q] = Holds(store, At(o))[q]
  BY <1>2, LegibleRead
<1> QED BY <1>4, <1>5

----------------------------------------------------------------------------
(***************************************************************************)
(* The inductive invariant of many calls: what fits fits, each call knows  *)
(* the others that run, and one that is alone on its branch is unhurt.     *)
(***************************************************************************)
Parallel ==
  /\ Proper(store)
  /\ \A o \in Ops : Busy(o) => Fitting(op[o])
  /\ \A o, n \in Ops : o # n /\ Busy(o) /\ Busy(n) => At(n) \in op[o].overlap
  /\ \A o \in Ops : Busy(o) /\ Alone(o) /\ ~op[o].refused /\ Intact(op[o].read, At(o)) =>
        Unhurt(op[o], store)

\* Nothing is stored and no call runs.
LEMMA ParallelInit == Init => Parallel
<1>1. \A p \in Paths : NoTree[p] = NoRecord
  BY DEF NoTree
<1>2. Proper(NoTree)
  BY <1>1, NoRecordFit DEF Proper
<1>3. Idle.pc = "idle"
  BY DEF Idle
<1> QED BY <1>2, <1>3 DEF Init, Parallel, Busy

\* A call on another branch writes nothing from the target down.
LEMMA Aside ==
  ASSUME NEW r \in Requests, NEW at \in Paths, ~OnTrail(Target(r), at),
         NEW p \in Paths, Under(at, p)
  PROVE  ~OnTrail(p, r.path)
<1>1. r.path \in Paths /\ Target(r) \in Paths /\ Under(Target(r), r.path)
  BY TargetAbove
<1>2. ~OnTrail(p, Target(r))
  <2>1. ~Under(p, Target(r))
    BY <1>1, UnderTransitive DEF OnTrail
  <2>2. ~Under(Target(r), p)
    BY <1>1, UnderLinear
  <2> QED BY <2>1, <2>2 DEF OnTrail
<1>3. ~Under(p, r.path)
  BY <1>1, <1>2, UnderLinear
<1>4. ~Under(r.path, p)
  BY <1>1, <1>2, UnderTransitive DEF OnTrail
<1> QED BY <1>3, <1>4 DEF OnTrail

\* What is known of a call in flight, now and in the next state.
LEMMA Flying ==
  ASSUME Inv, Inv', NEW o \in Ops
  PROVE  /\ op[o] \in Call /\ op'[o] \in Call /\ store \in Tree /\ store' \in Tree
         /\ op \in [Ops -> Call] /\ op' \in [Ops -> Call]
         /\ Busy(o) => OnCourse(op[o]) /\ op[o].request \in Requests
         /\ op'[o].pc # "idle" => OnCourse(op'[o])
<1>1. /\ op[o] \in Call /\ op'[o] \in Call /\ store \in Tree /\ store' \in Tree
      /\ op \in [Ops -> Call] /\ op' \in [Ops -> Call]
  BY DEF Inv, TypeOK
<1>2. op'[o].pc # "idle" => OnCourse(op'[o])
  <2>1. Sound(op[o])'
    BY DEF Inv
  <2>2. Sound(op'[o])
    BY <2>1 DEF Sound, OnCourse
  <2> QED BY <2>2 DEF Sound
<1> QED BY <1>1, <1>2, InFlight

\* What a step of a call in flight has to show.
LEMMA Moved ==
  ASSUME Inv, Inv', Parallel, NEW o \in Ops, Busy(o), op'[o].pc # "idle",
         op'[o].request = op[o].request, op'[o].read = op[o].read,
         op'[o].overlap = op[o].overlap, op[o].refused => op'[o].refused,
         \A n \in Ops : n # o => op'[n] = op[n],
         Proper(store'), Fitting(op'[o]),
         Unhurt(op[o], store) /\ ~op'[o].refused => Unhurt(op'[o], store'),
         \A p \in Paths : store'[p] # store[p] => OnTrail(p, op[o].request.path)
  PROVE  Parallel'
<1>1. ASSUME NEW n \in Ops
      PROVE  /\ Busy(n)' <=> Busy(n)
             /\ At(n)' = At(n)
             /\ Alone(n)' <=> Alone(n)
             /\ Intact(op[n].read, At(n))' <=> Intact(op[n].read, At(n))
             /\ op'[n].overlap = op[n].overlap
             /\ op[n].refused => op'[n].refused
  <2>1. Busy(n)' <=> Busy(n)
    BY DEF Busy
  <2>2. At(n)' = At(n) /\ op'[n].overlap = op[n].overlap /\ op'[n].read = op[n].read
    BY DEF At
  <2> QED BY <2>1, <2>2 DEF Alone, Intact, Has, IsContainer
<1>2. ASSUME NEW n \in Ops, Busy(n) PROVE Fitting(op'[n])
  BY <1>2 DEF Parallel
<1>3. ASSUME NEW n \in Ops, Busy(n), Alone(n), ~op'[n].refused, Intact(op[n].read, At(n))
      PROVE  Unhurt(op'[n], store')
  <2>1. Unhurt(op[n], store)
    BY <1>1, <1>3 DEF Parallel
  <2>2. CASE n = o
    BY <1>3, <2>1, <2>2
  <2>3. CASE n # o
    <3>1. ~OnTrail(At(o), At(n))
      BY <1>3, <2>3 DEF Parallel, Alone
    <3>2. op[n] \in Call /\ OnCourse(op[n]) /\ op[o].request \in Requests
      BY <1>3, Flying
    <3>3. Aim(op[n]) = At(n) /\ At(n) \in Paths
      BY <3>2, CallShape DEF Aim, At
    <3>4. \A p \in Paths : Under(Aim(op[n]), p) => store'[p] = store[p]
      BY <3>1, <3>2, <3>3, Aside DEF At
    <3>5. Unhurt(op[n], store')
      BY <2>1, <3>2, <3>4, StillUnhurt
    <3> QED BY <2>3, <3>5
  <2> QED BY <2>2, <2>3
<1>4. \A n, m \in Ops : n # m /\ Busy(n)' /\ Busy(m)' => At(m)' \in op'[n].overlap
  BY <1>1 DEF Parallel
<1>5. \A n \in Ops : Busy(n)' => Fitting(op'[n])
  BY <1>1, <1>2
<1>6. \A n \in Ops : Busy(n)' /\ Alone(n)' /\ ~op'[n].refused /\ Intact(op[n].read, At(n))' => Unhurt(op'[n], store')
  BY <1>1, <1>3
<1>7. Proper(store)'
  BY DEF Proper, Fit
<1>8. \A n \in Ops : (Busy(n) => Fitting(op[n]))'
  BY <1>5 DEF Fitting, Proper, Fit, AllFit, IsContainer, Aim
<1>9. \A n \in Ops : (Busy(n) /\ Alone(n) /\ ~op[n].refused /\ Intact(op[n].read, At(n)) =>
                       Unhurt(op[n], store))'
  BY <1>6 DEF Unhurt
<1> QED BY <1>4, <1>7, <1>8, <1>9 DEF Parallel

\* Start: a call on an intact trail is unhurt, and who runs takes note.
LEMMA StartParallel ==
  ASSUME SteadyWrites, Inv, Inv', Parallel,
         NEW o \in Ops, NEW r \in Writes, NEW seen \in Seen(r), Start(o, r, seen)
  PROVE  Parallel'
<1>1. ~Busy(o) /\ store' = store /\ (seen = store \/ seen = NoTree)
  BY DEF Start, Seen
<1>2. /\ Begun(op'[o], r, seen) /\ op'[o].pc = "run" /\ op'[o].refused = (seen # store)
      /\ op'[o].request = r /\ op'[o].read = store
      /\ op'[o].overlap = {At(c) : c \in {d \in Ops : Busy(d)}}
  BY <1>1 DEF Start, Started, Begun
<1>3. ASSUME NEW n \in Ops, n # o, Busy(n)
      PROVE  /\ op'[n].pc = op[n].pc /\ op'[n].request = op[n].request /\ op'[n].read = op[n].read
             /\ op'[n].tree = op[n].tree /\ op'[n].todo = op[n].todo
             /\ op'[n].verify = op[n].verify /\ op'[n].out = op[n].out
             /\ op'[n].overlap = op[n].overlap \cup {Target(r)}
             /\ op'[n].refused = op[n].refused
  <2> DEFINE new == [op[n] EXCEPT !.overlap = @ \cup {Target(r)}]
  <2>1. op'[n] = new
    BY <1>3 DEF Start
  <2>2. op[n] \in Call
    BY Flying
  <2>3. /\ new.pc = op[n].pc /\ new.request = op[n].request /\ new.read = op[n].read
        /\ new.tree = op[n].tree /\ new.todo = op[n].todo
        /\ new.verify = op[n].verify /\ new.out = op[n].out
        /\ new.overlap = op[n].overlap \cup {Target(r)}
        /\ new.refused = op[n].refused
    BY <2>2 DEF Call
  <2> HIDE DEF new
  <2> QED BY <2>1, <2>3
<1>4. ASSUME NEW n \in Ops, n # o, ~Busy(n) PROVE op'[n] = op[n]
  BY <1>4 DEF Start
<1>5. \A n \in Ops : Busy(n)' <=> n = o \/ Busy(n)
  BY <1>1, <1>2, <1>3, <1>4 DEF Busy
<1>6. /\ At(o)' = Target(r)
      /\ \A n \in Ops : n # o /\ Busy(n) => At(n)' = At(n)
  BY <1>2, <1>3 DEF At
<1>7. /\ op'[o] \in Call /\ OnCourse(op'[o]) /\ store \in Tree /\ Proper(store)
      /\ seen \in Tree /\ Proper(seen)
  <2>1. /\ op'[o] \in Call /\ OnCourse(op'[o]) /\ store \in Tree /\ Proper(store)
    BY <1>2, Flying DEF Parallel
  <2>2. NoTree \in Tree /\ Proper(NoTree)
    BY NoTreeType, NoRecordFit DEF NoTree, Proper
  <2> QED BY <1>1, <2>1, <2>2
<1>8. Fitting(op'[o])
  BY <1>2, <1>7, StartFits
<1>9. ASSUME NEW n \in Ops, n # o, Busy(n) PROVE Fitting(op'[n])
  <2>1. Fitting(op[n])
    BY <1>9 DEF Parallel
  <2> QED BY <1>3, <1>9, <2>1 DEF Fitting, Aim
<1>10. \A n, m \in Ops : n # m /\ Busy(n)' /\ Busy(m)' => At(m)' \in op'[n].overlap
  <2> SUFFICES ASSUME NEW n \in Ops, NEW m \in Ops, n # m, Busy(n)', Busy(m)'
               PROVE  At(m)' \in op'[n].overlap
    OBVIOUS
  <2>1. CASE n = o
    BY <1>2, <1>5, <1>6, <2>1
  <2>2. CASE n # o /\ m = o
    BY <1>3, <1>5, <1>6, <2>2
  <2>3. CASE n # o /\ m # o
    BY <1>3, <1>5, <1>6, <2>3 DEF Parallel
  <2> QED BY <2>1, <2>2, <2>3
<1>11. ~op'[o].refused /\ Intact(op[o].read, At(o))' => Unhurt(op'[o], store)
  <2> SUFFICES ASSUME ~op'[o].refused, Intact(op[o].read, At(o))' PROVE Unhurt(op'[o], store)
    OBVIOUS
  <2>1. Intact(store, Target(r))
    BY <1>2, <1>6 DEF Intact, Has, IsContainer
  <2>2. Started(op'[o], r, store)
    BY <1>2 DEF Started
  <2> QED BY <1>2, <1>7, <2>1, <2>2, StartUnhurt
<1>12. ASSUME NEW n \in Ops, n # o, Busy(n), Alone(n)', ~op'[n].refused, Intact(op[n].read, At(n))'
       PROVE  Unhurt(op'[n], store)
  <2>1. Alone(n) /\ Intact(op[n].read, At(n))
    BY <1>3, <1>6, <1>12 DEF Alone, Intact, Has, IsContainer
  <2>2. Unhurt(op[n], store)
    BY <1>3, <1>12, <2>1 DEF Parallel
  <2>3. op[n] \in Call /\ OnCourse(op[n]) /\ op'[n] \in Call /\ OnCourse(op'[n])
    BY <1>3, <1>12, Flying DEF Busy
  <2> QED BY <1>3, <1>12, <2>2, <2>3, StillUnhurt
<1>13. Proper(store)'
  BY <1>1, <1>7 DEF Proper, Fit
<1>14. \A n \in Ops : (Busy(n) => Fitting(op[n]))'
  <2>1. \A n \in Ops : Busy(n)' => Fitting(op'[n])
    BY <1>5, <1>8, <1>9
  <2> QED BY <2>1 DEF Fitting, Proper, Fit, AllFit, IsContainer, Aim
<1>15. \A n \in Ops : (Busy(n) /\ Alone(n) /\ ~op[n].refused /\ Intact(op[n].read, At(n)) =>
                        Unhurt(op[n], store))'
  <2>1. \A n \in Ops : Busy(n)' /\ Alone(n)' /\ ~op'[n].refused /\ Intact(op[n].read, At(n))' =>
          Unhurt(op'[n], store')
    BY <1>1, <1>5, <1>11, <1>12
  <2> QED BY <2>1 DEF Unhurt
<1> QED BY <1>10, <1>13, <1>14, <1>15 DEF Parallel

\* VerifyParent.
LEMMA VerifyParallel ==
  ASSUME SteadyWrites, Inv, Inv', Parallel, NEW o \in Ops, VerifyParent(o)
  PROVE  Parallel'
<1>1. Busy(o) /\ store' = store
  BY DEF VerifyParent, Busy
<1>2. /\ op[o] \in Call /\ OnCourse(op[o]) /\ Fitting(op[o])
      /\ op \in [Ops -> Call] /\ op'[o] \in Call
      /\ op'[o].pc # "idle" => OnCourse(op'[o])
  BY <1>1, Flying DEF Parallel
<1>3. PICK a \in op[o].verify :
        /\ \A b \in op[o].verify : Under(a, b)
        /\ op' = [op EXCEPT ![o].verify = @ \ {a},
                            ![o].tree = Verified(@, a),
                            ![o].out = @ \o VerifyPuts(op[o].tree, a)]
  BY DEF VerifyParent
<1>4. /\ op'[o].pc = op[o].pc /\ op'[o].request = op[o].request /\ op'[o].read = op[o].read
      /\ op'[o].todo = op[o].todo /\ op'[o].overlap = op[o].overlap
      /\ op'[o].refused = op[o].refused
      /\ op'[o].verify = op[o].verify \ {a}
      /\ op'[o].tree = Verified(op[o].tree, a)
      /\ op'[o].out = op[o].out \o VerifyPuts(op[o].tree, a)
      /\ \A n \in Ops : n # o => op'[n] = op[n]
  BY <1>2, <1>3 DEF Call
<1>5. VerifyDone(op[o], op'[o], a)
  BY <1>3, <1>4 DEF VerifyDone
<1>6. op'[o].pc # "idle" /\ OnCourse(op'[o])
  BY <1>1, <1>2, <1>4 DEF Busy
<1>7. Fitting(op'[o])
  BY <1>2, <1>5, VerifyFits
<1>8. Unhurt(op[o], store) => Unhurt(op'[o], store')
  BY <1>1, <1>2, <1>5, <1>6, VerifyUnhurt
<1>9. Proper(store')
  BY <1>1 DEF Parallel
<1> QED BY <1>1, <1>4, <1>6, <1>7, <1>8, <1>9, Moved

\* Destructure.
LEMMA DestructureParallel ==
  ASSUME SteadyWrites, Inv, Inv', Parallel, NEW o \in Ops, Destructure(o)
  PROVE  Parallel'
<1>1. Busy(o) /\ store' = store
  BY DEF Destructure, Busy
<1>2. /\ op[o] \in Call /\ OnCourse(op[o]) /\ Fitting(op[o])
      /\ op \in [Ops -> Call] /\ op'[o] \in Call
      /\ op'[o].pc # "idle" => OnCourse(op'[o])
  BY <1>1, Flying DEF Parallel
<1>3. /\ op'[o].pc = "run" /\ op'[o].request = op[o].request /\ op'[o].read = op[o].read
      /\ op'[o].overlap = op[o].overlap /\ op'[o].refused = op[o].refused
      /\ \A n \in Ops : n # o => op'[n] = op[n]
  BY <1>2, DestructureDone
<1>4. PICK j \in op[o].todo :
        \E fixed, above, f, record :
          NodeDone(op[o], op'[o], j, fixed, above, f, record) \/ TextDone(op[o], op'[o], j, f)
  BY <1>2, DestructureDone
<1>5. Fitting(op'[o])
  BY <1>2, <1>4, NodeFits, LongFits
<1>6. Unhurt(op[o], store) => Unhurt(op'[o], store')
  BY <1>1, <1>2, <1>3, <1>4, OnwardUnhurt
<1>7. Proper(store')
  BY <1>1 DEF Parallel
<1> QED BY <1>1, <1>3, <1>5, <1>6, <1>7, Moved

\* Apply: what is written fits and is on the trail of the call.
LEMMA ApplyParallel ==
  ASSUME Inv, Inv', Parallel, NEW o \in Ops, Apply(o)
  PROVE  Parallel'
<1> DEFINE put == Head(op[o].out)
<1>1. /\ op[o].out # <<>>
      /\ store' = [store EXCEPT ![put.path] = put.record]
      /\ op' = [op EXCEPT ![o].out = Tail(@)]
  BY DEF Apply
<1>2. Busy(o)
  BY <1>1 DEF Inv, Sound, Busy
<1>3. /\ op[o] \in Call /\ OnCourse(op[o]) /\ Fitting(op[o]) /\ store \in Tree
      /\ op \in [Ops -> Call] /\ op'[o] \in Call
      /\ op'[o].pc # "idle" => OnCourse(op'[o])
  BY <1>2, Flying DEF Parallel
<1>4. /\ op'[o].pc = op[o].pc /\ op'[o].request = op[o].request /\ op'[o].read = op[o].read
      /\ op'[o].tree = op[o].tree /\ op'[o].todo = op[o].todo /\ op'[o].overlap = op[o].overlap
      /\ op'[o].refused = op[o].refused
      /\ op'[o].verify = op[o].verify /\ op'[o].out = Tail(op[o].out)
      /\ \A n \in Ops : n # o => op'[n] = op[n]
  BY <1>1, <1>3 DEF Call
<1>5. op'[o].pc # "idle" /\ OnCourse(op'[o])
  BY <1>2, <1>3, <1>4 DEF Busy
<1>6. op[o].out \in Seq(Put) /\ Len(op[o].out) \in Nat /\ 1 \in 1..Len(op[o].out) /\ put = op[o].out[1]
  <2>1. op[o].out \in Seq(Put)
    BY <1>3, CallShape
  <2> QED BY <1>1, <2>1
<1>7. Fit(put.path, put.record) /\ OnTrail(put.path, op[o].request.path) /\ put.path \in Paths
  <2>1. put \in Put
    BY <1>6
  <2> QED BY <1>3, <1>6, <2>1 DEF Fitting, AllFit, OnCourse, Put
<1> HIDE DEF put
<1>8. \A p \in Paths : store'[p] = IF p = put.path THEN put.record ELSE store[p]
  BY <1>1, <1>3 DEF Tree
<1>9. Proper(store')
  <2>1. Proper(store)
    BY DEF Parallel
  <2> QED BY <1>7, <1>8, <2>1 DEF Proper
<1>10. Fitting(op'[o])
  <2>1. AllFit(Tail(op[o].out))
    <3> DEFINE rest == Tail(op[o].out)
    <3>1. \A i \in 1..Len(rest) : rest[i] = op[o].out[i + 1] /\ i + 1 \in 1..Len(op[o].out)
      BY <1>1, <1>6
    <3> HIDE DEF rest
    <3>2. AllFit(rest)
      BY <1>3, <3>1 DEF Fitting, AllFit
    <3> QED BY <3>2 DEF rest
  <2> QED BY <1>3, <1>4, <2>1 DEF Fitting, Aim
<1>11. Unhurt(op[o], store) => Unhurt(op'[o], store')
  BY <1>1, <1>3, <1>4, <1>5, ApplyUnhurt DEF put
<1> QED BY <1>2, <1>4, <1>5, <1>7, <1>8, <1>9, <1>10, <1>11, Moved

\* Reject: the call loses a write and is no longer expected to deliver.
LEMMA RejectParallel ==
  ASSUME Inv, Inv', Parallel, NEW o \in Ops, Reject(o)
  PROVE  Parallel'
<1>1. /\ op[o].out # <<>> /\ store' = store
      /\ op' = [op EXCEPT ![o].out = Tail(@), ![o].refused = TRUE]
  BY DEF Reject
<1>2. Busy(o)
  BY <1>1 DEF Inv, Sound, Busy
<1>3. /\ op[o] \in Call /\ OnCourse(op[o]) /\ Fitting(op[o])
      /\ op \in [Ops -> Call] /\ op'[o] \in Call
      /\ op'[o].pc # "idle" => OnCourse(op'[o])
  BY <1>2, Flying DEF Parallel
<1>4. /\ op'[o].pc = op[o].pc /\ op'[o].request = op[o].request /\ op'[o].read = op[o].read
      /\ op'[o].tree = op[o].tree /\ op'[o].todo = op[o].todo /\ op'[o].overlap = op[o].overlap
      /\ op'[o].refused
      /\ op'[o].verify = op[o].verify /\ op'[o].out = Tail(op[o].out)
      /\ \A n \in Ops : n # o => op'[n] = op[n]
  <2>1. op' = [op EXCEPT ![o] = [op[o] EXCEPT !.out = Tail(@), !.refused = TRUE]]
    BY <1>1, <1>3
  <2> QED BY <1>3, <2>1 DEF Call
<1>5. op'[o].pc # "idle" /\ OnCourse(op'[o])
  BY <1>2, <1>3, <1>4 DEF Busy
<1>6. op[o].out \in Seq(Put) /\ Len(op[o].out) \in Nat
  <2>1. op[o].out \in Seq(Put)
    BY <1>3, CallShape
  <2> QED BY <2>1
<1>7. AllFit(Tail(op[o].out))
  <2> DEFINE rest == Tail(op[o].out)
  <2>1. \A i \in 1..Len(rest) : rest[i] = op[o].out[i + 1] /\ i + 1 \in 1..Len(op[o].out)
    BY <1>1, <1>6
  <2> HIDE DEF rest
  <2>2. AllFit(rest)
    BY <1>3, <2>1 DEF Fitting, AllFit
  <2> QED BY <2>2 DEF rest
<1>8. Fitting(op'[o])
  BY <1>3, <1>4, <1>7 DEF Fitting, Aim
<1>9. Proper(store')
  BY <1>1 DEF Parallel
<1> QED BY <1>1, <1>2, <1>4, <1>5, <1>8, <1>9, Moved

\* Ack.
LEMMA AckParallel ==
  ASSUME Inv, Inv', Parallel, NEW o \in Ops, Ack(o)
  PROVE  Parallel'
<1>1. Busy(o) /\ store' = store /\ op' = [op EXCEPT ![o].pc = "acked"]
  BY DEF Ack, Busy
<1>2. /\ op[o] \in Call /\ OnCourse(op[o]) /\ Fitting(op[o])
      /\ op \in [Ops -> Call] /\ op'[o] \in Call
      /\ op'[o].pc # "idle" => OnCourse(op'[o])
  BY <1>1, Flying DEF Parallel
<1>3. /\ op'[o].pc = "acked" /\ op'[o].request = op[o].request /\ op'[o].read = op[o].read
      /\ op'[o].tree = op[o].tree /\ op'[o].todo = op[o].todo /\ op'[o].overlap = op[o].overlap
      /\ op'[o].refused = op[o].refused
      /\ op'[o].verify = op[o].verify /\ op'[o].out = op[o].out
      /\ \A n \in Ops : n # o => op'[n] = op[n]
  BY <1>1, <1>2 DEF Call
<1>4. Fitting(op'[o])
  BY <1>2, <1>3 DEF Fitting, Aim
<1>5. ASSUME Unhurt(op[o], store) PROVE Unhurt(op'[o], store')
  <2>1. OnCourse(op'[o])
    BY <1>2, <1>3
  <2>2. \A p \in Paths : store'[p] = store[p]
    BY <1>1
  <2> QED BY <1>2, <1>3, <1>5, <2>1, <2>2, StillUnhurt
<1>6. Proper(store')
  BY <1>1 DEF Parallel
<1> QED BY <1>1, <1>3, <1>4, <1>5, <1>6, Moved

\* End: one call less.
LEMMA EndParallel ==
  ASSUME Inv, Inv', Parallel, NEW o \in Ops, End(o)
  PROVE  Parallel'
<1>1. op' = [op EXCEPT ![o] = Idle] /\ store' = store
  BY DEF End
<1>2. op'[o].pc = "idle" /\ \A n \in Ops : n # o => op'[n] = op[n]
  <2>1. op \in [Ops -> Call]
    BY Flying
  <2> QED BY <1>1, <2>1 DEF Idle
<1>3. ASSUME NEW n \in Ops, Busy(n)'
      PROVE  n # o /\ Busy(n) /\ op'[n] = op[n] /\ At(n)' = At(n)
  BY <1>2, <1>3 DEF Busy, At
<1>4. \A n, m \in Ops : n # m /\ Busy(n)' /\ Busy(m)' => At(m)' \in op'[n].overlap
  BY <1>3 DEF Parallel
<1>5. Proper(store)'
  BY <1>1 DEF Parallel, Proper, Fit
<1>6. \A n \in Ops : (Busy(n) => Fitting(op[n]))'
  <2>1. \A n \in Ops : Busy(n)' => Fitting(op'[n])
    BY <1>3 DEF Parallel
  <2> QED BY <2>1 DEF Fitting, Proper, Fit, AllFit, IsContainer, Aim
<1>7. \A n \in Ops : (Busy(n) /\ Alone(n) /\ ~op[n].refused /\ Intact(op[n].read, At(n)) =>
                       Unhurt(op[n], store))'
  <2>1. ASSUME NEW n \in Ops, Busy(n)', Alone(n)', ~op'[n].refused, Intact(op[n].read, At(n))'
        PROVE  Unhurt(op'[n], store')
    <3>1. Alone(n) /\ Intact(op[n].read, At(n))
      BY <1>3, <2>1 DEF Alone, Intact, Has, IsContainer
    <3> QED BY <1>1, <1>3, <2>1, <3>1 DEF Parallel
  <2> QED BY <2>1 DEF Unhurt
<1> QED BY <1>4, <1>5, <1>6, <1>7 DEF Parallel

\* Every step of many callers keeps the invariant.
LEMMA ParallelNext ==
  ASSUME SteadyWrites, Inv, Inv', Parallel, [Next]_vars
  PROVE  Parallel'
<1>1. CASE UNCHANGED vars
  <2>1. op' = op /\ store' = store
    BY <1>1 DEF vars
  <2>2. Parallel
    OBVIOUS
  <2> QED BY <2>1, <2>2 DEF Parallel, Busy, At, Alone, Intact, Has, IsContainer, Unhurt, Fitting, Proper, Fit, AllFit, Aim
<1>2. CASE Next
  <2>1. PICK o \in Ops :
          \/ \E r \in Writes : \E seen \in Seen(r) : Start(o, r, seen)
          \/ VerifyParent(o)
          \/ Destructure(o)
          \/ Apply(o)
          \/ Reject(o)
          \/ Ack(o)
          \/ End(o)
    BY <1>2 DEF Next
  <2> QED BY <2>1, StartParallel, VerifyParallel, DestructureParallel, ApplyParallel,
             RejectParallel, AckParallel, EndParallel
<1> QED BY <1>1, <1>2

(***************************************************************************)
(* However many calls run at a time, one that no other came near and that  *)
(* found its trail intact leaves what it promises.                         *)
(***************************************************************************)
THEOREM DisjointWritesSurviveHolds ==
  ASSUME SteadyWrites PROVE Spec => DisjointWritesSurvive
<1>1. ASSUME Inv, Inv', Parallel, NEW o \in Ops, Ack(o), Alone(o), ~op[o].refused, Intact(op[o].read, At(o))
      PROVE  Delivered(o)
  <2>1. Busy(o) /\ op[o].todo = {} /\ op[o].out = <<>>
    BY <1>1 DEF Ack, Busy
  <2>2. op[o] \in Call /\ OnCourse(op[o]) /\ Fitting(op[o]) /\ store \in Tree
    BY <1>1, <2>1, Flying DEF Parallel
  <2>3. Unhurt(op[o], store)
    BY <1>1, <2>1 DEF Parallel
  <2> QED BY <2>1, <2>2, <2>3, UnhurtIsDelivered
<1>2. Inv /\ Parallel /\ [Next]_vars => (Inv /\ Parallel)'
  BY InvNext, ParallelNext
<1>3. Init => Inv /\ Parallel
  BY InvInit, ParallelInit
<1>4. Inv /\ Inv' /\ Parallel /\ [Next]_vars =>
        [\A o \in Ops : Ack(o) /\ Alone(o) /\ ~op[o].refused /\ Intact(op[o].read, At(o)) => Delivered(o)]_vars
  BY <1>1
<1> QED BY <1>2, <1>3, <1>4, PTL DEF Spec, DisjointWritesSurvive

----------------------------------------------------------------------------
(***************************************************************************)
(* Callers that stay apart.  Each call sees to it that its ancestors come  *)
(* from the root down, and nobody takes them away while it runs.           *)
(***************************************************************************)
\* Of the ancestors of "at", those in H are containers in s or will be, and
\* one that is queued follows what is above it.
Leads(out, s, H, at) ==
  /\ \A p \in H : Below(p, at) => IsContainer(s, p) \/ \E i \in 1..Len(out) : out[i].path = p
  /\ \A i \in 1..Len(out) : Below(out[i].path, at) =>
       /\ out[i].record.kind \in Containers
       /\ \A p \in Paths : Below(p, out[i].path) =>
            IsContainer(s, p) \/ \E j \in 1..(i - 1) : out[j].path = p

Known(t) == {p \in Paths : Has(t, p)}

\* A call knows its ancestors but for those it has still to verify.
Climbing(c, s) ==
  /\ \A p \in Paths : Below(p, Aim(c)) /\ p \notin c.verify => Has(c.tree, p)
  /\ \A p, q \in Paths : Below(p, Aim(c)) /\ Has(c.tree, p) /\ Below(q, p) => Has(c.tree, q)
  /\ Leads(c.out, s, Known(c.tree), Aim(c))

\* Below is transitive and has no circles.
LEMMA BelowOrder ==
  ASSUME NEW p \in Paths, NEW q \in Paths, Below(p, q)
  PROVE  /\ ~Under(q, p)
         /\ \A x \in Paths : Under(x, p) => Below(x, q)
<1>1. ~Under(q, p)
  BY UnderBoth DEF Below
<1>2. ASSUME NEW x \in Paths, Under(x, p) PROVE Below(x, q)
  <2>1. Under(x, q)
    BY <1>2, UnderTransitive DEF Below
  <2>2. x # q
    BY <1>1, <1>2
  <2> QED BY <2>1, <2>2 DEF Below
<1> QED BY <1>1, <1>2

\* Writes to what the call knows may be queued behind the others.
LEMMA LeadsOn ==
  ASSUME NEW out \in Seq(Put), NEW more \in Seq(Put), NEW s, NEW H \in SUBSET Paths,
         NEW at \in Paths, Leads(out, s, H, at),
         \A i \in 1..Len(more) : Below(more[i].path, at) =>
           /\ more[i].record.kind \in Containers
           /\ \A p \in Paths : Below(p, more[i].path) => p \in H
  PROVE  Leads(out \o more, s, H, at)
<1> DEFINE all == out \o more
<1>1. /\ Len(out) \in Nat /\ Len(more) \in Nat /\ Len(all) = Len(out) + Len(more)
      /\ \A i \in 1..Len(out) : all[i] = out[i]
      /\ \A i \in 1..Len(all) : i > Len(out) =>
           i - Len(out) \in 1..Len(more) /\ all[i] = more[i - Len(out)]
  OBVIOUS
<1>2. \A i \in 1..Len(all) : all[i].path \in Paths
  <2>1. all \in Seq(Put)
    OBVIOUS
  <2>2. \A i \in 1..Len(all) : all[i] \in Put
    BY <2>1
  <2> QED BY <2>2 DEF Put
<1> HIDE DEF all
<1>3. ASSUME NEW p \in H, Below(p, at)
      PROVE  IsContainer(s, p) \/ \E i \in 1..Len(out) : all[i].path = p
  BY <1>1, <1>3 DEF Leads
<1>4. ASSUME NEW p \in H, Below(p, at)
      PROVE  IsContainer(s, p) \/ \E i \in 1..Len(all) : all[i].path = p
  BY <1>1, <1>3, <1>4
<1>5. ASSUME NEW i \in 1..Len(all), Below(all[i].path, at)
      PROVE  /\ all[i].record.kind \in Containers
             /\ \A p \in Paths : Below(p, all[i].path) =>
                  IsContainer(s, p) \/ \E j \in 1..(i - 1) : all[j].path = p
  <2>1. CASE i <= Len(out)
    <3>1. i \in 1..Len(out) /\ all[i] = out[i] /\ \A j \in 1..(i - 1) : all[j] = out[j]
      BY <1>1, <2>1
    <3> QED BY <1>5, <3>1 DEF Leads
  <2>2. CASE i > Len(out)
    <3>1. i - Len(out) \in 1..Len(more) /\ all[i] = more[i - Len(out)] /\ 1..Len(out) \subseteq 1..(i - 1)
      BY <1>1, <2>2
    <3>2. /\ all[i].record.kind \in Containers
          /\ \A p \in Paths : Below(p, all[i].path) => p \in H
      BY <1>5, <3>1
    <3>3. ASSUME NEW p \in Paths, Below(p, all[i].path) PROVE p \in H /\ Below(p, at)
      BY <1>2, <1>5, <3>2, <3>3, BelowOrder DEF Below
    <3> QED BY <1>3, <3>1, <3>2, <3>3
  <2> QED BY <1>1, <2>1, <2>2
<1>6. Leads(all, s, H, at)
  BY <1>4, <1>5 DEF Leads
<1> QED BY <1>6 DEF all

\* What is written below the target matters to no ancestor.
LEMMA LeadsAside ==
  ASSUME NEW out \in Seq(Put), NEW more \in Seq(Put), NEW s, NEW H \in SUBSET Paths,
         NEW at \in Paths, Leads(out, s, H, at),
         \A i \in 1..Len(more) : ~Below(more[i].path, at)
  PROVE  Leads(out \o more, s, H, at)
BY LeadsOn

\* The first write of the queue reaches the backend.
LEMMA LeadsRest ==
  ASSUME NEW out \in Seq(Put), out # <<>>, NEW s \in Tree, NEW H \in SUBSET Paths,
         NEW at \in Paths, Leads(out, s, H, at)
  PROVE  Leads(Tail(out), [s EXCEPT ![Head(out).path] = Head(out).record], H, at)
<1> DEFINE put == Head(out)
           rest == Tail(out)
           s2 == [s EXCEPT ![put.path] = put.record]
<1>1. /\ Len(out) \in Nat /\ 1 \in 1..Len(out) /\ put = out[1] /\ Len(rest) = Len(out) - 1
      /\ \A i \in 1..Len(rest) : i + 1 \in 1..Len(out) /\ rest[i] = out[i + 1]
      /\ \A i \in 1..Len(out) : i # 1 => i - 1 \in 1..Len(rest) /\ rest[i - 1] = out[i]
  OBVIOUS
<1>2. \A i \in 1..Len(out) : out[i].path \in Paths
  <2>1. \A i \in 1..Len(out) : out[i] \in Put
    OBVIOUS
  <2> QED BY <2>1 DEF Put
<1>3. \A p \in Paths : s2[p] = IF p = put.path THEN put.record ELSE s[p]
  BY DEF Tree
<1> HIDE DEF put, rest, s2
<1>4. ASSUME NEW p \in Paths, Below(p, at), IsContainer(s, p) \/ p = put.path
      PROVE  IsContainer(s2, p)
  BY <1>1, <1>3, <1>4 DEF Leads, IsContainer
<1>5. ASSUME NEW p \in H, Below(p, at)
      PROVE  IsContainer(s2, p) \/ \E i \in 1..Len(rest) : rest[i].path = p
  <2>1. CASE IsContainer(s, p)
    BY <1>4, <1>5, <2>1
  <2>2. CASE \E i \in 1..Len(out) : out[i].path = p
    BY <1>1, <1>4, <1>5, <2>2
  <2> QED BY <1>5, <2>1, <2>2 DEF Leads
<1>6. ASSUME NEW i \in 1..Len(rest), Below(rest[i].path, at)
      PROVE  /\ rest[i].record.kind \in Containers
             /\ \A p \in Paths : Below(p, rest[i].path) =>
                  IsContainer(s2, p) \/ \E j \in 1..(i - 1) : rest[j].path = p
  <2>1. i + 1 \in 1..Len(out) /\ rest[i] = out[i + 1] /\ (i + 1) - 1 = i
    BY <1>1
  <2>2. /\ rest[i].record.kind \in Containers
        /\ \A p \in Paths : Below(p, rest[i].path) =>
             IsContainer(s, p) \/ \E j \in 1..i : out[j].path = p
    BY <1>6, <2>1 DEF Leads
  <2> SUFFICES ASSUME NEW p \in Paths, Below(p, rest[i].path)
               PROVE  IsContainer(s2, p) \/ \E j \in 1..(i - 1) : rest[j].path = p
    BY <2>2
  <2>3. Below(p, at)
    BY <1>2, <1>6, <2>1, BelowOrder DEF Below
  <2>4. CASE IsContainer(s, p)
    BY <1>4, <2>3, <2>4
  <2>5. CASE \E j \in 1..i : out[j].path = p
    <3>1. PICK j \in 1..i : out[j].path = p
      BY <2>5
    <3>2. CASE j = 1
      BY <1>1, <1>4, <2>3, <3>1, <3>2
    <3>3. CASE j # 1
      <4>1. j \in 1..Len(out) /\ j - 1 \in 1..(i - 1)
        BY <1>1, <2>1, <3>3
      <4>2. rest[j - 1].path = p
        BY <1>1, <3>1, <3>3, <4>1
      <4> QED BY <4>1, <4>2
    <3> QED BY <3>2, <3>3
  <2> QED BY <2>2, <2>4, <2>5
<1>7. Leads(rest, s2, H, at)
  BY <1>5, <1>6 DEF Leads
<1> QED BY <1>7 DEF rest, s2, put

\* Over a backend that keeps the containers above the target.
LEMMA LeadsStill ==
  ASSUME NEW out \in Seq(Put), NEW s, NEW s2, NEW H \in SUBSET Paths, NEW at \in Paths,
         Leads(out, s, H, at),
         \A p \in Paths : Below(p, at) /\ IsContainer(s, p) => IsContainer(s2, p)
  PROVE  Leads(out, s2, H, at)
<1>1. \A i \in 1..Len(out) : out[i].path \in Paths
  <2>1. \A i \in 1..Len(out) : out[i] \in Put
    OBVIOUS
  <2> QED BY <2>1 DEF Put
<1>2. ASSUME NEW p \in H, Below(p, at)
      PROVE  IsContainer(s2, p) \/ \E i \in 1..Len(out) : out[i].path = p
  BY <1>2 DEF Leads
<1>3. ASSUME NEW i \in 1..Len(out), Below(out[i].path, at)
      PROVE  /\ out[i].record.kind \in Containers
             /\ \A p \in Paths : Below(p, out[i].path) =>
                  IsContainer(s2, p) \/ \E j \in 1..(i - 1) : out[j].path = p
  <2>1. \A p \in Paths : Below(p, out[i].path) => Below(p, at)
    BY <1>1, <1>3, BelowOrder DEF Below
  <2>2. out[i].record.kind \in Containers
    BY <1>3 DEF Leads
  <2>3. \A p \in Paths : Below(p, out[i].path) =>
          IsContainer(s, p) \/ \E j \in 1..(i - 1) : out[j].path = p
    BY <1>3 DEF Leads
  <2> QED BY <2>1, <2>2, <2>3
<1> QED BY <1>2, <1>3 DEF Leads

\* The ancestors a call has read hang together, and the root is verified.
LEMMA ClimbingStart ==
  ASSUME SteadyWrites, NEW r \in Writes, NEW s \in Tree, Proper(s), Intact(s, Target(r)),
         NEW c \in Call, OnCourse(c), Started(c, r, s)
  PROVE  Climbing(c, s)
<1> DEFINE at == Target(r)
           loaded == Loaded(s, r.path)
           above == {a \in Paths : Below(a, at)}
<1>1. /\ r \in Requests /\ r.path \in Paths /\ at \in Paths /\ Under(at, r.path)
      /\ c.request = r /\ Aim(c) = at /\ c.tree \in Tree
      /\ c.verify = above \ {<<>>}
      /\ c.tree = (IF above = {} THEN loaded ELSE Verified(loaded, <<>>))
      /\ c.out = (IF above = {} THEN <<>> ELSE VerifyPuts(loaded, <<>>))
  BY MDEAssumption, TargetAbove, CallShape DEF Started, Begun, Aim
<1>2. loaded \in Tree /\ <<>> \in Paths
  BY <1>1, LoadedType, UnderRoot
<1>3. ASSUME NEW p \in Paths, Below(p, at) PROVE loaded[p] = s[p]
  <2>1. Below(p, r.path)
    <3>1. Under(p, r.path)
      BY <1>1, <1>3, UnderTransitive DEF Below
    <3>2. p # r.path
      BY <1>1, <1>3, UnderBoth DEF Below
    <3> QED BY <3>1, <3>2 DEF Below
  <2> QED BY <2>1 DEF Loaded, OnTrail, Below
<1> HIDE DEF loaded, at
<1>4. ASSUME above # {}
      PROVE  /\ Below(<<>>, at)
             /\ Has(c.tree, <<>>)
             /\ \A p \in Paths \ {<<>>} : c.tree[p] = loaded[p]
             /\ \/ Has(s, <<>>) /\ c.out = <<>>
                \/ \E put \in Put : /\ c.out = <<put>> /\ put.path = <<>>
                                    /\ put.record.kind \in Containers
  <2> DEFINE new == Container(CreatedKind(<<>>), EmptyInline)
  <2>1. Below(<<>>, at)
    <3>1. PICK p \in Paths : Below(p, at)
      BY <1>4
    <3> QED BY <1>1, <1>2, <3>1, UnderRoot, BelowOrder
  <2>2. new \in Record /\ new.kind \in Containers
    <3>1. CreatedKind(<<>>) \in Containers /\ EmptyInline \in [Keys -> InlineValues]
      BY DEF CreatedKind, Containers, EmptyInline, InlineValues
    <3> QED BY <3>1, ContainerType
  <2> HIDE DEF new
  <2>3. CASE Has(loaded, <<>>)
    <3>1. c.tree = loaded /\ c.out = <<>>
      BY <1>1, <1>4, <2>3 DEF Verified, VerifyPuts
    <3>2. Has(s, <<>>)
      BY <1>2, <1>3, <2>1, <2>3 DEF Has
    <3> QED BY <2>1, <2>3, <3>1, <3>2
  <2>4. CASE ~Has(loaded, <<>>)
    <3> DEFINE put == [path |-> <<>>, record |-> new]
    <3>1. c.tree = [loaded EXCEPT ![<<>>] = new]
      BY <1>1, <1>4, <2>4 DEF Verified, new
    <3>2. /\ c.tree[<<>>] = new
          /\ \A p \in Paths \ {<<>>} : c.tree[p] = loaded[p]
      BY <1>2, <3>1 DEF Tree
    <3>3. c.out = <<put>>
      <4>1. Verified(loaded, <<>>)[<<>>] = new
        BY <1>1, <1>4, <3>2
      <4> QED BY <1>1, <1>4, <2>4, <4>1 DEF VerifyPuts
    <3>4. put \in Put /\ put.path = <<>> /\ put.record = new
      BY <1>2, <2>2 DEF Put
    <3>5. Has(c.tree, <<>>)
      BY <2>2, <3>2, NoneIsNoKind DEF Has
    <3> HIDE DEF put
    <3> QED BY <2>1, <2>2, <3>2, <3>3, <3>4, <3>5
  <2> QED BY <2>3, <2>4
<1>5. ASSUME NEW p \in Paths, Below(p, at) PROVE above # {}
  BY <1>5
<1>6. ASSUME NEW p \in Paths, Below(p, at), p # <<>>, Has(c.tree, p) PROVE Has(s, p)
  BY <1>3, <1>4, <1>5, <1>6 DEF Has
<1>7. ASSUME NEW p \in Paths, NEW q \in Paths, Below(p, at), Has(c.tree, p), Below(q, p)
      PROVE  Has(c.tree, q)
  <2>1. Below(q, at)
    BY <1>1, <1>7, BelowOrder DEF Below
  <2>2. CASE q = <<>>
    BY <1>4, <1>5, <2>1, <2>2
  <2>3. CASE q # <<>>
    <3>1. p # <<>>
      BY <1>2, <1>7, UnderRoot, BelowOrder
    <3> DEFINE S == {y \in Paths : Has(s, y)}
    <3>2. p \in S
      BY <1>6, <1>7, <3>1
    <3>3. ASSUME NEW y \in Paths, y \in S /\ Below(q, y) /\ Under(y, p) PROVE Parent(y) \in S
      <4>1. y # <<>> /\ Has(s, y)
        BY <1>2, <1>7, <3>3, UnderRoot, BelowOrder
      <4>2. OnTrail(y, at)
        BY <1>1, <1>7, <3>3, UnderTransitive DEF OnTrail, Below
      <4>3. IsContainer(s, Parent(y))
        BY <4>1, <4>2 DEF Intact, at
      <4>4. Parent(y) \in Paths
        BY <4>1, ParentAbove
      <4> QED BY <4>3, <4>4, NoneIsNoKind DEF Has, IsContainer
    <3>4. q \in Between(q, p)
      BY <1>7, UnderRoot DEF Between, Below
    <3> HIDE DEF S
    <3>5. q \in S
      BY <3>2, <3>3, <3>4, Climb
    <3>6. Has(s, q)
      BY <3>5 DEF S
    <3>7. c.tree[q] = s[q]
      BY <1>3, <1>4, <1>5, <2>1, <2>3
    <3> QED BY <3>6, <3>7 DEF Has
  <2> QED BY <2>2, <2>3
<1>8. ASSUME NEW p \in Paths, Below(p, at), p \notin c.verify PROVE Has(c.tree, p)
  BY <1>1, <1>4, <1>5, <1>8
<1>9. Leads(c.out, s, Known(c.tree), at)
  <2>1. ASSUME NEW p \in Paths, Below(p, at), Has(s, p) PROVE IsContainer(s, p)
    BY <2>1, SteadyAbove DEF at
  <2>2. ASSUME NEW p \in Known(c.tree), Below(p, at)
        PROVE  IsContainer(s, p) \/ \E i \in 1..Len(c.out) : c.out[i].path = p
    <3>1. p \in Paths /\ Has(c.tree, p)
      BY <2>2 DEF Known
    <3>2. CASE p # <<>>
      BY <1>6, <2>1, <2>2, <3>1, <3>2
    <3>3. CASE p = <<>> /\ Has(s, <<>>)
      BY <2>1, <2>2, <3>1, <3>3
    <3>4. CASE p = <<>> /\ ~Has(s, <<>>)
      <4>1. PICK put \in Put : c.out = <<put>> /\ put.path = <<>>
        BY <1>4, <1>5, <2>2, <3>1, <3>4
      <4>2. Len(c.out) = 1 /\ c.out[1].path = p
        BY <3>4, <4>1
      <4> QED BY <4>2
    <3> QED BY <3>2, <3>3, <3>4
  <2>3. ASSUME NEW i \in 1..Len(c.out)
        PROVE  /\ c.out[i].record.kind \in Containers
               /\ \A p \in Paths : ~Below(p, c.out[i].path)
    <3>1. c.out # <<>> /\ above # {}
      BY <1>1, <2>3
    <3>2. PICK put \in Put : c.out = <<put>> /\ put.path = <<>> /\ put.record.kind \in Containers
      BY <1>4, <3>1
    <3>3. c.out[i] = put
      BY <2>3, <3>2
    <3>4. \A p \in Paths : ~Below(p, <<>>)
      BY <1>2, UnderRoot, BelowOrder
    <3> QED BY <3>2, <3>3, <3>4
  <2> QED BY <2>2, <2>3 DEF Leads
<1> QED BY <1>1, <1>7, <1>8, <1>9 DEF Climbing

\* A visit of verifyParents: what is above the ancestor was visited before.
LEMMA ClimbingVerify ==
  ASSUME NEW c \in Call, OnCourse(c), Fitting(c), NEW c2 \in Call, NEW a, VerifyDone(c, c2, a),
         NEW s, Climbing(c, s)
  PROVE  Climbing(c2, s)
<1> DEFINE at == Aim(c)
           t == c.tree
           H == Known(t)
           H2 == Known(c2.tree)
           puts == VerifyPuts(t, a)
<1>1. /\ a \in c.verify /\ \A b \in c.verify : Under(a, b)
      /\ c2.request = c.request /\ c2.verify = c.verify \ {a}
      /\ c2.tree = Verified(t, a) /\ c2.out = c.out \o puts
  BY DEF VerifyDone
<1>2. /\ at \in Paths /\ t \in Tree /\ c.out \in Seq(Put) /\ a \in Paths /\ Below(a, at)
      /\ Aim(c2) = at /\ puts \in Seq(Put)
  BY <1>1, CallShape, VerifiedType DEF Fitting, Aim
<1>3. /\ \A p \in Paths : Has(c2.tree, p) <=> Has(t, p) \/ p = a
      /\ \/ Has(t, a) /\ puts = <<>>
         \/ \E put \in Put : puts = <<put>> /\ put.path = a /\ put.record.kind \in Containers
  <2> DEFINE new == Container(CreatedKind(a), EmptyInline)
  <2>1. new \in Record /\ new.kind \in Containers
    <3>1. CreatedKind(a) \in Containers /\ EmptyInline \in [Keys -> InlineValues]
      BY DEF CreatedKind, KindOfKey, Containers, EmptyInline, InlineValues
    <3> QED BY <3>1, ContainerType
  <2> HIDE DEF new
  <2>2. CASE Has(t, a)
    BY <1>1, <2>2 DEF Verified, VerifyPuts
  <2>3. CASE ~Has(t, a)
    <3> DEFINE put == [path |-> a, record |-> new]
    <3>1. c2.tree = [t EXCEPT ![a] = new]
      BY <1>1, <2>3 DEF Verified, new
    <3>2. \A p \in Paths : c2.tree[p] = IF p = a THEN new ELSE t[p]
      BY <1>2, <3>1 DEF Tree
    <3>3. puts = <<put>>
      BY <1>1, <1>2, <2>3, <3>2 DEF VerifyPuts
    <3>4. put \in Put /\ put.path = a /\ put.record = new
      BY <1>2, <2>1 DEF Put
    <3>5. \A p \in Paths : Has(c2.tree, p) <=> Has(t, p) \/ p = a
      BY <2>1, <3>2, NoneIsNoKind DEF Has
    <3> HIDE DEF put
    <3> QED BY <2>1, <3>3, <3>4, <3>5
  <2> QED BY <2>2, <2>3
<1> HIDE DEF at, t, puts
<1>4. ASSUME NEW p \in Paths, Below(p, a) PROVE Has(t, p)
  <2>1. p \notin c.verify
    BY <1>1, <1>2, <1>4, BelowOrder
  <2>2. Below(p, at)
    BY <1>2, <1>4, BelowOrder DEF Below
  <2> QED BY <2>1, <2>2 DEF Climbing, at, t
<1>5. ASSUME NEW p \in Paths, Below(p, at), p \notin c2.verify PROVE Has(c2.tree, p)
  BY <1>1, <1>3, <1>5 DEF Climbing, at, t
<1>6. ASSUME NEW p \in Paths, NEW q \in Paths, Below(p, at), Has(c2.tree, p), Below(q, p)
      PROVE  Has(c2.tree, q)
  BY <1>3, <1>4, <1>6 DEF Climbing, at, t
<1>7. Leads(c.out, s, H, at)
  BY DEF Climbing, at, t
<1>8. Leads(c.out \o puts, s, H, at)
  <2>1. ASSUME NEW i \in 1..Len(puts)
        PROVE  /\ puts[i].record.kind \in Containers
               /\ \A p \in Paths : Below(p, puts[i].path) => p \in H
    <3>1. PICK put \in Put : puts = <<put>> /\ put.path = a /\ put.record.kind \in Containers
      BY <1>3, <2>1
    <3>2. puts[i] = put
      BY <2>1, <3>1
    <3> QED BY <1>4, <3>1, <3>2 DEF Known
  <2>2. H \in SUBSET Paths
    BY DEF Known
  <2> HIDE DEF H
  <2> QED BY <1>2, <1>7, <2>1, <2>2, LeadsOn
<1>9. IsContainer(s, a) \/ \E i \in 1..Len(c.out \o puts) : (c.out \o puts)[i].path = a
  <2>1. CASE Has(t, a)
    BY <1>2, <1>8, <2>1 DEF Leads, Known
  <2>2. CASE ~Has(t, a)
    <3>1. PICK put \in Put : puts = <<put>> /\ put.path = a
      BY <1>3, <2>2
    <3>2. /\ Len(c.out) \in Nat /\ Len(c.out \o puts) = Len(c.out) + 1
          /\ (c.out \o puts)[Len(c.out) + 1] = put
      BY <1>2, <3>1
    <3> QED BY <3>1, <3>2
  <2> QED BY <2>1, <2>2
<1>10. Leads(c.out \o puts, s, H2, at)
  <2>1. H2 = H \cup {a}
    BY <1>2, <1>3 DEF Known
  <2> HIDE DEF H, H2
  <2> QED BY <1>8, <1>9, <2>1 DEF Leads
<1> QED BY <1>1, <1>2, <1>5, <1>6, <1>10 DEF Climbing

\* A restructuring touches the ancestors in one place: the parent of the
\* target gives up an inline value.
LEMMA ClimbingNode ==
  ASSUME NEW c \in Call, OnCourse(c), Fitting(c), NEW c2 \in Call, NEW j \in c.todo,
         NEW fixed, NEW above, NEW f, NEW record,
         NodeDone(c, c2, j, fixed, above, f, record), NEW s, Climbing(c, s)
  PROVE  Climbing(c2, s)
<1> DEFINE q == j.path
           w == Data(c)
           at == Aim(c)
           G == Dropped(fixed, j.mode, q, w)
           H == Known(c.tree)
<1>1. /\ w[q] \in Containers /\ fixed \in Tree
      /\ \/ fixed = c.tree /\ above = <<>>
         \/ fixed = ParentFixed(c.tree, q) /\ above = ParentPuts(c.tree, q)
      /\ f \in Descents(G)
      /\ record = Container(w[q], NewInline(fixed, j.mode, q, w))
      /\ c2.request = c.request /\ c2.verify = c.verify
      /\ c2.tree = [Cleared(fixed, G) EXCEPT ![q] = record]
      /\ c2.out = ((c.out \o above) \o RemovePuts(f)) \o Emitted(fixed, q, record)
  BY DEF NodeDone
<1>2. /\ c.request \in Requests /\ q \in Paths /\ at \in Paths /\ w = Content(c.request)
      /\ c.tree \in Tree /\ c.out \in Seq(Put) /\ Under(at, q) /\ Aim(c2) = at
  BY <1>1, CallShape DEF Data, Fitting, Aim
<1>3. G \subseteq Paths /\ \A p \in G : Below(q, p)
  BY <1>2, DroppedBelow
<1>4. /\ \A p \in Paths : Has(fixed, p) <=> Has(c.tree, p)
      /\ above \in Seq(Put)
  <2>1. /\ \A p \in Paths : Has(ParentFixed(c.tree, q), p) <=> Has(c.tree, p)
        /\ ParentPuts(c.tree, q) \in Seq(Put)
    BY <1>2, ParentFixedType
  <2>2. CASE fixed = c.tree /\ above = <<>>
    BY <2>2
  <2>3. CASE fixed = ParentFixed(c.tree, q) /\ above = ParentPuts(c.tree, q)
    BY <2>1, <2>3
  <2> QED BY <1>1, <2>2, <2>3
<1>5. record \in Record
  <2>1. w \in [Paths -> JsonValues]
    BY <1>2, ContentType
  <2>2. NewInline(fixed, j.mode, q, w) \in [Keys -> InlineValues]
    BY <1>1, <1>2, <2>1, NewInlineType
  <2> QED BY <1>1, <2>2, ContainerType
<1> HIDE DEF G, q, at, w, H
<1>6. ASSUME NEW p \in Paths, Below(p, at) PROVE ~Under(q, p)
  BY <1>2, <1>6, BelowOrder, UnderTransitive
<1>7. ASSUME NEW p \in Paths, Below(p, at) PROVE Has(c2.tree, p) <=> Has(c.tree, p)
  <2>1. p # q /\ p \notin G
    BY <1>2, <1>3, <1>6, <1>7, UnderRoot DEF Below
  <2>2. c2.tree[p] = fixed[p]
    BY <1>1, <1>2, <2>1 DEF Cleared
  <2> QED BY <1>4, <2>2 DEF Has
<1>8. Leads(c.out, s, H, at) /\ H \in SUBSET Paths
  BY DEF Climbing, H, at, Known
<1>9. Leads(c.out \o above, s, H, at)
  <2>1. ASSUME NEW i \in 1..Len(above), Below(above[i].path, at)
        PROVE  /\ above[i].record.kind \in Containers
               /\ \A p \in Paths : Below(p, above[i].path) => p \in H
    <3>1. above = ParentPuts(c.tree, q) /\ InlineAt(c.tree, q) # None
      BY <1>1, <2>1 DEF ParentPuts
    <3>2. /\ above = <<[path |-> Parent(q), record |-> ParentFixed(c.tree, q)[Parent(q)]]>>
          /\ q # <<>> /\ IsContainer(c.tree, Parent(q))
      BY <3>1 DEF ParentPuts, InlineAt
    <3>3. above[i].path = Parent(q) /\ above[i].record = ParentFixed(c.tree, q)[Parent(q)]
      BY <2>1, <3>2
    <3>4. ParentFixed(c.tree, q)[Parent(q)].kind = c.tree[Parent(q)].kind
      BY <1>2, <3>2, ParentFixedMeaning
    <3>5. Parent(q) \in Paths /\ Has(c.tree, Parent(q))
      BY <1>2, <3>2, ParentAbove, NoneIsNoKind DEF Has, IsContainer
    <3>6. \A p \in Paths : Below(p, Parent(q)) => p \in H
      BY <2>1, <3>3, <3>5 DEF Climbing, H, Known, at
    <3> QED BY <3>2, <3>3, <3>4, <3>6 DEF IsContainer
  <2> QED BY <1>2, <1>4, <1>8, <2>1, LeadsOn
<1>10. Leads((c.out \o above) \o RemovePuts(f), s, H, at)
  <2>1. /\ RemovePuts(f) \in Seq(Put)
        /\ \A i \in 1..Len(RemovePuts(f)) : RemovePuts(f)[i].path \in G
    BY <1>1, <1>3, RemovePutsType
  <2>2. \A p \in G : ~Below(p, at)
    BY <1>3, <1>6 DEF Below
  <2>3. c.out \o above \in Seq(Put)
    BY <1>2, <1>4
  <2> QED BY <1>2, <1>8, <1>9, <2>1, <2>2, <2>3, LeadsAside
<1>11. Leads(c2.out, s, H, at)
  <2>1. /\ Emitted(fixed, q, record) \in Seq(Put)
        /\ \A i \in 1..Len(Emitted(fixed, q, record)) : Emitted(fixed, q, record)[i].path = q
    BY <1>2, <1>5, EmittedType
  <2>2. ~Below(q, at)
    BY <1>2, <1>6, UnderRoot
  <2>3. (c.out \o above) \o RemovePuts(f) \in Seq(Put)
    BY <1>1, <1>2, <1>3, <1>4, RemovePutsType
  <2>4. Leads(((c.out \o above) \o RemovePuts(f)) \o Emitted(fixed, q, record), s, H, at)
    BY <1>2, <1>8, <1>10, <2>1, <2>2, <2>3, LeadsAside
  <2> QED BY <1>1, <2>4
<1>12. Leads(c2.out, s, Known(c2.tree), at)
  <2>1. \A p \in Known(c2.tree) : Below(p, at) => p \in H
    BY <1>7 DEF Known, H
  <2> QED BY <1>11, <2>1 DEF Leads
<1>13. ASSUME NEW p \in Paths, NEW x \in Paths, Below(p, at), Has(c2.tree, p), Below(x, p)
       PROVE  Has(c2.tree, x)
  <2>1. Below(x, at)
    BY <1>2, <1>13, BelowOrder DEF Below
  <2>2. Has(c.tree, p)
    BY <1>7, <1>13
  <2>3. Has(c.tree, x)
    BY <1>13, <2>2 DEF Climbing, at
  <2> QED BY <1>7, <2>1, <2>3
<1>14. ASSUME NEW p \in Paths, Below(p, at), p \notin c2.verify PROVE Has(c2.tree, p)
  <2>1. Has(c.tree, p)
    BY <1>1, <1>14 DEF Climbing, at
  <2> QED BY <1>7, <1>14, <2>1
<1> QED BY <1>2, <1>12, <1>13, <1>14 DEF Climbing

\* A long string leaves the ancestors alone.
LEMMA ClimbingText ==
  ASSUME NEW c \in Call, OnCourse(c), Fitting(c), NEW c2 \in Call, NEW j \in c.todo,
         NEW f, TextDone(c, c2, j, f), NEW s, Climbing(c, s)
  PROVE  Climbing(c2, s)
<1> DEFINE q == j.path
           at == Aim(c)
           record == Text(Data(c)[q])
           G == DroppedByText(c.tree, q)
           H == Known(c.tree)
<1>1. /\ Data(c)[q] \in Long /\ f \in Descents(G)
      /\ c2.request = c.request /\ c2.verify = c.verify
      /\ c2.tree = [Cleared(c.tree, G) EXCEPT ![q] = record]
      /\ c2.out = (c.out \o RemovePuts(f)) \o Emitted(c.tree, q, record)
  BY DEF TextDone
<1>2. /\ q \in Paths /\ at \in Paths /\ c.tree \in Tree /\ c.out \in Seq(Put)
      /\ Under(at, q) /\ Aim(c2) = at
  BY <1>1, CallShape DEF Fitting, Aim
<1>3. G \subseteq Paths /\ \A p \in G : Below(q, p)
  BY <1>2, DroppedBelow
<1>4. record \in Record
  BY <1>1, TextType
<1> HIDE DEF G, q, at, record, H
<1>5. ASSUME NEW p \in Paths, Below(p, at) PROVE ~Under(q, p)
  BY <1>2, <1>5, BelowOrder, UnderTransitive
<1>6. ASSUME NEW p \in Paths, Below(p, at) PROVE Has(c2.tree, p) <=> Has(c.tree, p)
  <2>1. p # q /\ p \notin G
    BY <1>2, <1>3, <1>5, <1>6, UnderRoot DEF Below
  <2>2. c2.tree[p] = c.tree[p]
    BY <1>1, <1>2, <2>1 DEF Cleared
  <2> QED BY <2>2 DEF Has
<1>7. Leads(c.out, s, H, at) /\ H \in SUBSET Paths
  BY DEF Climbing, H, at, Known
<1>8. c.out \o RemovePuts(f) \in Seq(Put) /\ Leads(c.out \o RemovePuts(f), s, H, at)
  <2>1. /\ RemovePuts(f) \in Seq(Put)
        /\ \A i \in 1..Len(RemovePuts(f)) : RemovePuts(f)[i].path \in G
    BY <1>1, <1>3, RemovePutsType
  <2>2. \A p \in G : ~Below(p, at)
    BY <1>3, <1>5 DEF Below
  <2> QED BY <1>2, <1>7, <2>1, <2>2, LeadsAside
<1>9. Leads(c2.out, s, H, at)
  <2>1. /\ Emitted(c.tree, q, record) \in Seq(Put)
        /\ \A i \in 1..Len(Emitted(c.tree, q, record)) : Emitted(c.tree, q, record)[i].path = q
    BY <1>2, <1>4, EmittedType
  <2>2. ~Below(q, at)
    BY <1>2, <1>5, UnderRoot
  <2>3. Leads((c.out \o RemovePuts(f)) \o Emitted(c.tree, q, record), s, H, at)
    BY <1>2, <1>7, <1>8, <2>1, <2>2, LeadsAside
  <2> QED BY <1>1, <2>3
<1>10. Leads(c2.out, s, Known(c2.tree), at)
  <2>1. \A p \in Known(c2.tree) : Below(p, at) => p \in H
    BY <1>6 DEF Known, H
  <2> QED BY <1>9, <2>1 DEF Leads
<1>11. ASSUME NEW p \in Paths, NEW x \in Paths, Below(p, at), Has(c2.tree, p), Below(x, p)
       PROVE  Has(c2.tree, x)
  <2>1. Below(x, at)
    BY <1>2, <1>11, BelowOrder DEF Below
  <2>2. Has(c.tree, p)
    BY <1>6, <1>11
  <2>3. Has(c.tree, x)
    BY <1>11, <2>2 DEF Climbing, at
  <2> QED BY <1>6, <2>1, <2>3
<1>12. ASSUME NEW p \in Paths, Below(p, at), p \notin c2.verify PROVE Has(c2.tree, p)
  <2>1. Has(c.tree, p)
    BY <1>1, <1>12 DEF Climbing, at
  <2> QED BY <1>6, <1>12, <2>1
<1> QED BY <1>2, <1>10, <1>11, <1>12 DEF Climbing

\* A call whose own state stays climbs over any backend that keeps the
\* containers above its target.
LEMMA ClimbingStill ==
  ASSUME NEW c \in Call, OnCourse(c), NEW c2, c2.request = c.request, c2.tree = c.tree,
         c2.verify = c.verify, c2.out = c.out, NEW s, NEW s2, Climbing(c, s),
         \A p \in Paths : Below(p, Aim(c)) /\ IsContainer(s, p) => IsContainer(s2, p)
  PROVE  Climbing(c2, s2)
<1>1. c.out \in Seq(Put) /\ Aim(c) \in Paths /\ Aim(c2) = Aim(c)
  BY CallShape DEF Aim
<1>2. Leads(c.out, s, Known(c.tree), Aim(c)) /\ Known(c.tree) \in SUBSET Paths
  BY DEF Climbing, Known
<1>3. Leads(c.out, s2, Known(c.tree), Aim(c))
  BY <1>1, <1>2, LeadsStill
<1> QED BY <1>1, <1>3 DEF Climbing

----------------------------------------------------------------------------
(***************************************************************************)
(* The invariant of callers that stay apart: what is stored hangs from a   *)
(* container, unless it is at or below the target of a call that runs; and *)
(* each call met no other, found its trail intact and climbs.              *)
(***************************************************************************)
Hangs(p) == IsContainer(store, Parent(p)) \/ \E o \in Ops : Busy(o) /\ Under(At(o), p)

Neighbours ==
  /\ \A p \in Paths \ {<<>>} : Has(store, p) => Hangs(p)
  /\ \A o \in Ops : Busy(o) => /\ Alone(o)
                               /\ Intact(op[o].read, At(o))
                               /\ Climbing(op[o], store)

\* Nothing is stored and no call runs.
LEMMA NeighboursInit == Init => Neighbours
<1>1. Idle.pc = "idle" /\ \A p \in Paths : ~Has(NoTree, p)
  BY NoTreeType DEF Idle
<1> QED BY <1>1 DEF Init, Neighbours, Busy

\* The target of a call in flight, and what is on the trail of its path.
LEMMA AtMeaning ==
  ASSUME Inv, NEW o \in Ops, Busy(o)
  PROVE  /\ op[o] \in Call /\ OnCourse(op[o])
         /\ At(o) \in Paths /\ Aim(op[o]) = At(o)
         /\ \A p \in Paths : OnTrail(p, op[o].request.path) => Below(p, At(o)) \/ Under(At(o), p)
<1>1. /\ op[o] \in Call /\ OnCourse(op[o]) /\ op[o].request \in Requests
  BY InFlight
<1>2. At(o) \in Paths /\ Aim(op[o]) = At(o) /\ op[o].request.path \in Paths /\ Under(At(o), op[o].request.path)
  BY <1>1, TargetAbove DEF At, Aim
<1>3. ASSUME NEW p \in Paths, OnTrail(p, op[o].request.path) PROVE Below(p, At(o)) \/ Under(At(o), p)
  <2>1. OnTrail(p, At(o))
    BY <1>2, <1>3, UnderTransitive, UnderLinear DEF OnTrail
  <2> QED BY <1>2, <2>1, UnderRoot DEF OnTrail, Below
<1> QED BY <1>1, <1>2, <1>3

\* What a step of a call in flight has to show.
LEMMA Stepped ==
  ASSUME Inv, Parallel, Neighbours, NEW o \in Ops, Busy(o), op'[o].pc # "idle",
         op'[o].request = op[o].request, op'[o].read = op[o].read,
         op'[o].overlap = op[o].overlap,
         \A n \in Ops : n # o => op'[n] = op[n],
         Climbing(op'[o], store'),
         \A p \in Paths : store'[p] # store[p] =>
           /\ OnTrail(p, op[o].request.path)
           /\ Below(p, At(o)) => /\ IsContainer(store', p)
                                 /\ p # <<>> => IsContainer(store', Parent(p))
  PROVE  Neighbours'
<1>1. ASSUME NEW n \in Ops
      PROVE  /\ Busy(n)' <=> Busy(n)
             /\ At(n)' = At(n)
             /\ Alone(n)' <=> Alone(n)
             /\ Intact(op[n].read, At(n))' <=> Intact(op[n].read, At(n))
  <2>1. Busy(n)' <=> Busy(n)
    BY DEF Busy
  <2>2. At(n)' = At(n) /\ op'[n].overlap = op[n].overlap /\ op'[n].read = op[n].read
    BY DEF At
  <2> QED BY <2>1, <2>2 DEF Alone, Intact, Has, IsContainer
<1>2. /\ At(o) \in Paths
      /\ \A p \in Paths : store'[p] # store[p] => Below(p, At(o)) \/ Under(At(o), p)
  BY AtMeaning
<1>3. ASSUME NEW n \in Ops, n # o, Busy(n) PROVE Climbing(op'[n], store')
  <2>1. op[n] \in Call /\ OnCourse(op[n]) /\ At(n) \in Paths /\ Aim(op[n]) = At(n)
    BY <1>3, AtMeaning
  <2>2. ~OnTrail(At(o), At(n))
    BY <1>3 DEF Neighbours, Parallel, Alone
  <2>3. ASSUME NEW p \in Paths, Below(p, At(n)), IsContainer(store, p) PROVE IsContainer(store', p)
    <3>1. ~Under(At(o), p)
      BY <1>2, <2>1, <2>2, <2>3, UnderTransitive DEF OnTrail, Below
    <3>2. CASE store'[p] = store[p]
      BY <2>3, <3>2 DEF IsContainer
    <3>3. CASE store'[p] # store[p]
      BY <1>2, <3>1, <3>3
    <3> QED BY <3>2, <3>3
  <2>4. Climbing(op[n], store)
    BY <1>3 DEF Neighbours
  <2>5. Climbing(op[n], store')
    BY <2>1, <2>3, <2>4, ClimbingStill
  <2> QED BY <1>3, <2>5
<1>4. ASSUME NEW p \in Paths \ {<<>>}, Has(store', p)
      PROVE  IsContainer(store', Parent(p)) \/ \E n \in Ops : Busy(n) /\ Under(At(n), p)
  <2> SUFFICES ASSUME \A n \in Ops : Busy(n) => ~Under(At(n), p)
               PROVE  IsContainer(store', Parent(p))
    OBVIOUS
  <2>1. Parent(p) \in Paths /\ Under(Parent(p), p) /\ ~Under(At(o), p)
    BY ParentAbove
  <2>2. CASE store'[p] # store[p]
    BY <1>2, <2>1, <2>2
  <2>3. CASE store'[p] = store[p]
    <3>1. Has(store, p)
      BY <1>4, <2>3 DEF Has
    <3>2. IsContainer(store, Parent(p))
      BY <3>1 DEF Neighbours, Hangs
    <3>3. ~Under(At(o), Parent(p))
      BY <1>2, <2>1, UnderTransitive
    <3>4. CASE store'[Parent(p)] = store[Parent(p)]
      BY <3>2, <3>4 DEF IsContainer
    <3>5. CASE store'[Parent(p)] # store[Parent(p)]
      BY <1>2, <2>1, <3>3, <3>5
    <3> QED BY <3>4, <3>5
  <2> QED BY <2>2, <2>3
<1>5. \A p \in Paths \ {<<>>} : (Has(store, p) => Hangs(p))'
  <2> SUFFICES ASSUME NEW p \in Paths \ {<<>>}, Has(store', p) PROVE Hangs(p)'
    BY DEF Has
  <2>1. CASE IsContainer(store', Parent(p))
    BY <2>1 DEF Hangs, IsContainer
  <2>2. CASE \E n \in Ops : Busy(n) /\ Under(At(n), p)
    <3>1. PICK n \in Ops : Busy(n) /\ Under(At(n), p)
      BY <2>2
    <3>2. Busy(n)' /\ Under(At(n)', p)
      BY <1>1, <3>1
    <3> QED BY <3>2 DEF Hangs
  <2> QED BY <1>4, <2>1, <2>2
<1>6. \A n \in Ops : Busy(n)' => Alone(n)' /\ Intact(op[n].read, At(n))' /\ Climbing(op'[n], store')
  BY <1>1, <1>3 DEF Neighbours
<1>7. \A n \in Ops : (Busy(n) => Alone(n) /\ Intact(op[n].read, At(n)) /\ Climbing(op[n], store))'
  BY <1>6 DEF Climbing, Leads, Known, Has, IsContainer, Aim
<1> QED BY <1>5, <1>7 DEF Neighbours

\* A call starts apart from all others: its trail is intact.
LEMMA StartNeighbours ==
  ASSUME SteadyWrites, Refusable = {}, Inv, Inv', Parallel, Neighbours, Apart',
         NEW o \in Ops, NEW r \in Writes, NEW seen \in Seen(r), Start(o, r, seen)
  PROVE  Neighbours'
<1>1. ~Busy(o) /\ store' = store /\ seen = store
  BY DEF Start, Seen
<1>2. /\ Started(op'[o], r, store) /\ op'[o].pc = "run"
      /\ op'[o].request = r /\ op'[o].read = store
      /\ op'[o].overlap = {At(c) : c \in {d \in Ops : Busy(d)}}
  BY <1>1 DEF Start, Started, Begun
<1>3. ASSUME NEW n \in Ops, n # o, Busy(n)
      PROVE  /\ op'[n].pc = op[n].pc /\ op'[n].request = op[n].request /\ op'[n].read = op[n].read
             /\ op'[n].tree = op[n].tree /\ op'[n].verify = op[n].verify /\ op'[n].out = op[n].out
             /\ op'[n].overlap = op[n].overlap \cup {Target(r)}
  <2> DEFINE new == [op[n] EXCEPT !.overlap = @ \cup {Target(r)}]
  <2>1. op'[n] = new
    BY <1>3 DEF Start
  <2>2. op[n] \in Call
    BY Flying
  <2>3. /\ new.pc = op[n].pc /\ new.request = op[n].request /\ new.read = op[n].read
        /\ new.tree = op[n].tree /\ new.verify = op[n].verify /\ new.out = op[n].out
        /\ new.overlap = op[n].overlap \cup {Target(r)}
    BY <2>2 DEF Call
  <2> HIDE DEF new
  <2> QED BY <2>1, <2>3
<1>4. ASSUME NEW n \in Ops, n # o, ~Busy(n) PROVE op'[n] = op[n]
  BY <1>4 DEF Start
<1>5. \A n \in Ops : Busy(n)' <=> n = o \/ Busy(n)
  BY <1>1, <1>2, <1>3, <1>4 DEF Busy
<1>6. /\ At(o)' = Target(r)
      /\ \A n \in Ops : n # o /\ Busy(n) => At(n)' = At(n)
  BY <1>2, <1>3 DEF At
<1>7. /\ op'[o] \in Call /\ OnCourse(op'[o]) /\ store \in Tree /\ Proper(store)
      /\ Target(r) \in Paths
  <2>1. Target(r) \in Paths
    BY MDEAssumption, TargetAbove
  <2> QED BY <1>2, <2>1, Flying DEF Parallel
<1>8. ASSUME NEW n \in Ops, n # o, Busy(n)
      PROVE  ~OnTrail(Target(r), At(n)) /\ ~OnTrail(At(n), Target(r))
  BY <1>5, <1>6, <1>8 DEF Apart
<1>9. Intact(store, Target(r))
  <2> SUFFICES ASSUME NEW p \in Paths \ {<<>>}, OnTrail(p, Target(r)), Has(store, p)
               PROVE  IsContainer(store, Parent(p))
    BY DEF Intact
  <2>1. ASSUME NEW n \in Ops, Busy(n) PROVE ~Under(At(n), p)
    <3>1. n # o /\ At(n) \in Paths
      BY <1>1, <2>1, AtMeaning
    <3>2. ~OnTrail(At(n), Target(r))
      BY <1>8, <2>1, <3>1
    <3> QED BY <1>7, <3>1, <3>2, TrailAbove
  <2> QED BY <2>1 DEF Neighbours, Hangs
<1>10. Alone(o)' /\ Intact(op[o].read, At(o))' /\ Climbing(op'[o], store')
  <2>1. Climbing(op'[o], store)
    BY <1>2, <1>7, <1>9, ClimbingStart
  <2>2. \A q \in op'[o].overlap : ~OnTrail(q, Target(r))
    BY <1>1, <1>2, <1>8
  <2> QED BY <1>1, <1>2, <1>6, <1>9, <2>1, <2>2 DEF Alone, Intact, Has, IsContainer
<1>11. ASSUME NEW n \in Ops, n # o, Busy(n)
       PROVE  Alone(n)' /\ Intact(op[n].read, At(n))' /\ Climbing(op'[n], store')
  <2>1. Alone(n) /\ Intact(op[n].read, At(n)) /\ Climbing(op[n], store)
    BY <1>11 DEF Neighbours
  <2>2. op[n] \in Call /\ OnCourse(op[n])
    BY <1>11, AtMeaning
  <2>3. Climbing(op'[n], store)
    BY <1>3, <1>11, <2>1, <2>2, ClimbingStill
  <2>4. \A q \in op'[n].overlap : ~OnTrail(q, At(n))
    BY <1>3, <1>8, <1>11, <2>1 DEF Alone
  <2> QED BY <1>1, <1>3, <1>6, <1>11, <2>1, <2>3, <2>4 DEF Alone, Intact, Has, IsContainer
<1>12. \A p \in Paths \ {<<>>} : (Has(store, p) => Hangs(p))'
  <2> SUFFICES ASSUME NEW p \in Paths \ {<<>>}, Has(store, p) PROVE Hangs(p)'
    BY <1>1 DEF Has
  <2>1. CASE IsContainer(store, Parent(p))
    BY <1>1, <2>1 DEF Hangs, IsContainer
  <2>2. CASE \E n \in Ops : Busy(n) /\ Under(At(n), p)
    <3>1. PICK n \in Ops : Busy(n) /\ Under(At(n), p)
      BY <2>2
    <3>2. Busy(n)' /\ Under(At(n)', p)
      BY <1>1, <1>5, <1>6, <3>1
    <3> QED BY <3>2 DEF Hangs
  <2> QED BY <2>1, <2>2 DEF Neighbours, Hangs
<1>13. \A n \in Ops : (Busy(n) => Alone(n) /\ Intact(op[n].read, At(n)) /\ Climbing(op[n], store))'
  <2>1. \A n \in Ops : Busy(n)' => Alone(n)' /\ Intact(op[n].read, At(n))' /\ Climbing(op'[n], store')
    BY <1>5, <1>10, <1>11
  <2> QED BY <2>1 DEF Climbing, Leads, Known, Has, IsContainer, Aim
<1> QED BY <1>12, <1>13 DEF Neighbours

\* VerifyParent.
LEMMA VerifyNeighbours ==
  ASSUME Inv, Inv', Parallel, Neighbours, NEW o \in Ops, VerifyParent(o)
  PROVE  Neighbours'
<1>1. Busy(o) /\ store' = store
  BY DEF VerifyParent, Busy
<1>2. /\ op[o] \in Call /\ OnCourse(op[o]) /\ Fitting(op[o]) /\ Climbing(op[o], store)
      /\ op \in [Ops -> Call] /\ op'[o] \in Call
  BY <1>1, Flying DEF Parallel, Neighbours
<1>3. PICK a \in op[o].verify :
        /\ \A b \in op[o].verify : Under(a, b)
        /\ op' = [op EXCEPT ![o].verify = @ \ {a},
                            ![o].tree = Verified(@, a),
                            ![o].out = @ \o VerifyPuts(op[o].tree, a)]
  BY DEF VerifyParent
<1>4. /\ op'[o].pc = op[o].pc /\ op'[o].request = op[o].request /\ op'[o].read = op[o].read
      /\ op'[o].todo = op[o].todo /\ op'[o].overlap = op[o].overlap
      /\ op'[o].verify = op[o].verify \ {a}
      /\ op'[o].tree = Verified(op[o].tree, a)
      /\ op'[o].out = op[o].out \o VerifyPuts(op[o].tree, a)
      /\ \A n \in Ops : n # o => op'[n] = op[n]
  BY <1>2, <1>3 DEF Call
<1>5. VerifyDone(op[o], op'[o], a)
  BY <1>3, <1>4 DEF VerifyDone
<1>6. Climbing(op'[o], store')
  BY <1>1, <1>2, <1>5, ClimbingVerify
<1>7. op'[o].pc # "idle"
  BY <1>1, <1>4 DEF Busy
<1> QED BY <1>1, <1>4, <1>6, <1>7, Stepped

\* Destructure.
LEMMA DestructureNeighbours ==
  ASSUME Inv, Inv', Parallel, Neighbours, NEW o \in Ops, Destructure(o)
  PROVE  Neighbours'
<1>1. Busy(o) /\ store' = store
  BY DEF Destructure, Busy
<1>2. /\ op[o] \in Call /\ OnCourse(op[o]) /\ Fitting(op[o]) /\ Climbing(op[o], store)
      /\ op \in [Ops -> Call] /\ op'[o] \in Call
  BY <1>1, Flying DEF Parallel, Neighbours
<1>3. /\ op'[o].pc = "run" /\ op'[o].request = op[o].request /\ op'[o].read = op[o].read
      /\ op'[o].overlap = op[o].overlap
      /\ \A n \in Ops : n # o => op'[n] = op[n]
  BY <1>2, DestructureDone
<1>4. PICK j \in op[o].todo :
        \E fixed, above, f, record :
          NodeDone(op[o], op'[o], j, fixed, above, f, record) \/ TextDone(op[o], op'[o], j, f)
  BY <1>2, DestructureDone
<1>5. Climbing(op'[o], store)
  BY <1>2, <1>4, ClimbingNode, ClimbingText
<1> QED BY <1>1, <1>3, <1>5, Stepped

\* Apply: above the target a call only writes containers, from the root down.
LEMMA ApplyNeighbours ==
  ASSUME Inv, Inv', Parallel, Neighbours, NEW o \in Ops, Apply(o)
  PROVE  Neighbours'
<1> DEFINE put == Head(op[o].out)
           H == Known(op[o].tree)
<1>1. /\ op[o].out # <<>>
      /\ store' = [store EXCEPT ![put.path] = put.record]
      /\ op' = [op EXCEPT ![o].out = Tail(@)]
  BY DEF Apply
<1>2. Busy(o)
  BY <1>1 DEF Inv, Sound, Busy
<1>3. /\ op[o] \in Call /\ OnCourse(op[o]) /\ Climbing(op[o], store) /\ store \in Tree
      /\ op \in [Ops -> Call] /\ At(o) \in Paths /\ Aim(op[o]) = At(o)
      /\ op[o].out \in Seq(Put)
  BY <1>2, Flying, AtMeaning, CallShape DEF Neighbours
<1>4. /\ op'[o].pc = op[o].pc /\ op'[o].request = op[o].request /\ op'[o].read = op[o].read
      /\ op'[o].tree = op[o].tree /\ op'[o].todo = op[o].todo /\ op'[o].overlap = op[o].overlap
      /\ op'[o].verify = op[o].verify /\ op'[o].out = Tail(op[o].out)
      /\ \A n \in Ops : n # o => op'[n] = op[n]
  BY <1>1, <1>3 DEF Call
<1>5. 1 \in 1..Len(op[o].out) /\ put = op[o].out[1] /\ put \in Put
  BY <1>1, <1>3
<1>6. put.path \in Paths /\ OnTrail(put.path, op[o].request.path)
  BY <1>3, <1>5 DEF OnCourse, Put
<1>7. Leads(op[o].out, store, H, At(o)) /\ H \in SUBSET Paths
  BY <1>3 DEF Climbing, Known
<1>8. Climbing(op'[o], store')
  <2> HIDE DEF H
  <2>1. Leads(Tail(op[o].out), store', H, At(o))
    BY <1>1, <1>3, <1>7, LeadsRest
  <2> QED BY <1>3, <1>4, <2>1 DEF Climbing, Aim, H
<1> HIDE DEF put, H
<1>9. \A p \in Paths : store'[p] = IF p = put.path THEN put.record ELSE store[p]
  BY <1>1, <1>3 DEF Tree
<1>10. ASSUME Below(put.path, At(o))
       PROVE  /\ IsContainer(store', put.path)
              /\ put.path # <<>> => IsContainer(store', Parent(put.path))
  <2>1. /\ put.record.kind \in Containers
        /\ \A p \in Paths : Below(p, put.path) => IsContainer(store, p)
    BY <1>5, <1>7, <1>10 DEF Leads
  <2>2. put.path # <<>> => Parent(put.path) \in Paths /\ Below(Parent(put.path), put.path)
    BY <1>6, ParentMeaning
  <2> QED BY <1>6, <1>9, <2>1, <2>2 DEF IsContainer, Below
<1>11. op'[o].pc # "idle"
  BY <1>2, <1>4 DEF Busy
<1>12. \A p \in Paths : store'[p] # store[p] =>
         /\ OnTrail(p, op[o].request.path)
         /\ Below(p, At(o)) => /\ IsContainer(store', p)
                               /\ p # <<>> => IsContainer(store', Parent(p))
  BY <1>6, <1>9, <1>10
<1> QED BY <1>2, <1>4, <1>8, <1>11, <1>12, Stepped

\* Ack.
LEMMA AckNeighbours ==
  ASSUME Inv, Inv', Parallel, Neighbours, NEW o \in Ops, Ack(o)
  PROVE  Neighbours'
<1>1. Busy(o) /\ store' = store /\ op' = [op EXCEPT ![o].pc = "acked"]
  BY DEF Ack, Busy
<1>2. /\ op[o] \in Call /\ OnCourse(op[o]) /\ Climbing(op[o], store) /\ op \in [Ops -> Call]
  BY <1>1, Flying DEF Neighbours
<1>3. /\ op'[o].pc = "acked" /\ op'[o].request = op[o].request /\ op'[o].read = op[o].read
      /\ op'[o].tree = op[o].tree /\ op'[o].overlap = op[o].overlap
      /\ op'[o].verify = op[o].verify /\ op'[o].out = op[o].out
      /\ \A n \in Ops : n # o => op'[n] = op[n]
  BY <1>1, <1>2 DEF Call
<1>4. Climbing(op'[o], store')
  <2>1. PICK next : next = op'[o]
    OBVIOUS
  <2>2. /\ next.request = op[o].request /\ next.tree = op[o].tree
        /\ next.verify = op[o].verify /\ next.out = op[o].out
    BY <1>3, <2>1
  <2>3. Climbing(next, store)
    BY <1>2, <2>2, ClimbingStill
  <2> QED BY <1>1, <2>1, <2>3
<1> QED BY <1>1, <1>3, <1>4, Stepped

\* A call that ends has reached all its ancestors, and its records hang
\* together.
LEMMA NothingLeft ==
  ASSUME NEW c \in Call, OnCourse(c), NEW s \in Tree, Unhurt(c, s), Climbing(c, s),
         c.verify = {}, c.out = <<>>,
         NEW p \in Paths \ {<<>>}, Under(Aim(c), p), Has(s, p)
  PROVE  IsContainer(s, Parent(p))
<1>1. Aim(c) \in Paths /\ Parent(p) \in Paths /\ Below(Parent(p), p)
  BY CallShape, ParentMeaning
<1>2. CASE p = Aim(c)
  <2>1. Parent(p) \in Known(c.tree)
    BY <1>1, <1>2 DEF Climbing, Known
  <2>2. Len(c.out) = 0
    OBVIOUS
  <2> QED BY <1>1, <1>2, <2>1, <2>2 DEF Climbing, Leads
<1>3. CASE p # Aim(c)
  <2>1. PICK z \in Tree : /\ Midway(Own(c), z)
                          /\ \A q \in Paths : Under(Aim(c), q) => z[q] = s[q]
    BY DEF Unhurt
  <2>2. Sane(z)
    BY <2>1, OwnShape, Settled
  <2>3. Under(Aim(c), Parent(p))
    BY <1>1, <1>3, AboveParent DEF Below
  <2>4. Has(z, p)
    BY <2>1 DEF Has
  <2>5. IsContainer(z, Parent(p))
    BY <2>2, <2>4 DEF Sane, Tidy
  <2> QED BY <1>1, <2>1, <2>3, <2>5 DEF IsContainer
<1> QED BY <1>2, <1>3

\* A backend that accepts every call refuses none.
Accepted == \A o \in Ops : ~op[o].refused

\* End: what was the business of the call hangs from a container.
LEMMA EndNeighbours ==
  ASSUME Inv, Inv', Parallel, Neighbours, Accepted, NEW o \in Ops, End(o)
  PROVE  Neighbours'
<1>1. /\ op' = [op EXCEPT ![o] = Idle] /\ store' = store /\ Busy(o)
      /\ op[o].verify = {} /\ op[o].out = <<>>
  BY DEF End, Busy
<1>2. op'[o].pc = "idle" /\ \A n \in Ops : n # o => op'[n] = op[n]
  <2>1. op \in [Ops -> Call]
    BY Flying
  <2> QED BY <1>1, <2>1 DEF Idle
<1>3. \A n \in Ops : Busy(n)' <=> n # o /\ Busy(n)
  BY <1>2 DEF Busy
<1>4. \A n \in Ops : n # o => op'[n] = op[n] /\ At(n)' = At(n)
  BY <1>2 DEF At
<1>5. /\ op[o] \in Call /\ OnCourse(op[o]) /\ Aim(op[o]) = At(o) /\ store \in Tree
      /\ Unhurt(op[o], store) /\ Climbing(op[o], store)
  <2>1. Alone(o) /\ Intact(op[o].read, At(o)) /\ ~op[o].refused
    BY <1>1 DEF Neighbours, Accepted
  <2>2. Unhurt(op[o], store) /\ Climbing(op[o], store)
    BY <1>1, <2>1 DEF Parallel, Neighbours
  <2> QED BY <1>1, <2>2, Flying, AtMeaning
<1>6. \A p \in Paths \ {<<>>} : (Has(store, p) => Hangs(p))'
  <2> SUFFICES ASSUME NEW p \in Paths \ {<<>>}, Has(store, p) PROVE Hangs(p)'
    BY <1>1 DEF Has
  <2>1. CASE IsContainer(store, Parent(p))
    BY <1>1, <2>1 DEF Hangs, IsContainer
  <2>2. CASE \E n \in Ops : n # o /\ Busy(n) /\ Under(At(n), p)
    <3>1. PICK n \in Ops : n # o /\ Busy(n) /\ Under(At(n), p)
      BY <2>2
    <3>2. Busy(n)' /\ Under(At(n)', p)
      BY <1>3, <1>4, <3>1
    <3> QED BY <3>2 DEF Hangs
  <2>3. CASE Under(At(o), p)
    <3>1. IsContainer(store, Parent(p))
      BY <1>1, <1>5, <2>3, NothingLeft
    <3> QED BY <2>1, <3>1
  <2> QED BY <2>1, <2>2, <2>3 DEF Neighbours, Hangs
<1>7. \A n \in Ops : (Busy(n) => Alone(n) /\ Intact(op[n].read, At(n)) /\ Climbing(op[n], store))'
  <2>1. ASSUME NEW n \in Ops, Busy(n)'
        PROVE  Alone(n)' /\ Intact(op[n].read, At(n))' /\ Climbing(op'[n], store')
    <3>1. n # o /\ Busy(n) /\ op'[n] = op[n] /\ At(n)' = At(n)
      BY <1>3, <1>4, <2>1
    <3>2. Alone(n) /\ Intact(op[n].read, At(n)) /\ Climbing(op[n], store)
      BY <3>1 DEF Neighbours
    <3> QED BY <1>1, <3>1, <3>2 DEF Alone, Intact, Has, IsContainer
  <2> QED BY <2>1 DEF Climbing, Leads, Known, Has, IsContainer, Aim
<1> QED BY <1>6, <1>7 DEF Neighbours

\* Every step of callers that stay apart keeps the invariant.
LEMMA NeighboursNext ==
  ASSUME SteadyWrites, Refusable = {}, Inv, Inv', Parallel, Neighbours, Accepted, Apart', [Next]_vars
  PROVE  Neighbours'
<1>1. CASE UNCHANGED vars
  <2>1. op' = op /\ store' = store
    BY <1>1 DEF vars
  <2>2. Neighbours
    OBVIOUS
  <2> QED BY <2>1, <2>2 DEF Neighbours, Hangs, Busy, At, Alone, Intact, Has, IsContainer,
                            Climbing, Leads, Known, Aim
<1>2. CASE Next
  <2>1. PICK o \in Ops :
          \/ \E r \in Writes : \E seen \in Seen(r) : Start(o, r, seen)
          \/ VerifyParent(o)
          \/ Destructure(o)
          \/ Apply(o)
          \/ Reject(o)
          \/ Ack(o)
          \/ End(o)
    BY <1>2 DEF Next
  <2>2. ~Reject(o)
    BY DEF Reject
  <2> QED BY <2>1, <2>2, StartNeighbours, VerifyNeighbours, DestructureNeighbours,
             ApplyNeighbours, AckNeighbours, EndNeighbours
<1> QED BY <1>1, <1>2

\* Every step keeps that.
LEMMA AcceptedNext ==
  ASSUME Refusable = {}, Inv, Inv', Accepted, [Next]_vars
  PROVE  Accepted'
<1>1. CASE UNCHANGED vars
  BY <1>1 DEF vars, Accepted
<1>2. CASE Next
  <2>1. PICK o \in Ops :
          \/ \E r \in Writes : \E seen \in Seen(r) : Start(o, r, seen)
          \/ VerifyParent(o)
          \/ Destructure(o)
          \/ Apply(o)
          \/ Reject(o)
          \/ Ack(o)
          \/ End(o)
    BY <1>2 DEF Next
  <2>2. op \in [Ops -> Call] /\ op[o] \in Call /\ (Busy(o) => OnCourse(op[o]))
    BY Flying
  <2>3. ASSUME NEW r \in Writes, NEW seen \in Seen(r), Start(o, r, seen) PROVE Accepted'
    <3>1. seen = store
      BY DEF Seen
    <3>2. op'[o].refused = FALSE
      BY <2>2, <2>3, <3>1 DEF Start
    <3>3. ASSUME NEW n \in Ops, n # o PROVE op'[n].refused = op[n].refused
      <4>1. op'[n] = op[n] \/ op'[n] = [op[n] EXCEPT !.overlap = @ \cup {Target(r)}]
        BY <2>3, <3>3 DEF Start
      <4>2. op[n] \in Call
        BY <2>2
      <4>3. [op[n] EXCEPT !.overlap = @ \cup {Target(r)}].refused = op[n].refused
        BY <4>2 DEF Call
      <4> QED BY <4>1, <4>3
    <3> QED BY <3>2, <3>3 DEF Accepted
  <2>4. ASSUME op'[o].refused = op[o].refused, \A n \in Ops : n # o => op'[n] = op[n]
        PROVE  Accepted'
    BY <2>4 DEF Accepted
  <2>5. CASE VerifyParent(o)
    BY <2>2, <2>4, <2>5 DEF VerifyParent, Call
  <2>6. CASE Destructure(o)
    <3>1. Busy(o)
      BY <2>6 DEF Destructure, Busy
    <3> QED BY <2>2, <2>4, <2>6, <3>1, DestructureDone
  <2>7. CASE Apply(o)
    BY <2>2, <2>4, <2>7 DEF Apply, Call
  <2>8. CASE Ack(o)
    BY <2>2, <2>4, <2>8 DEF Ack, Call
  <2>9. CASE End(o)
    <3>1. op'[o].refused = FALSE /\ \A n \in Ops : n # o => op'[n] = op[n]
      BY <2>2, <2>9 DEF End, Idle
    <3> QED BY <3>1 DEF Accepted
  <2>10. ~Reject(o)
    BY DEF Reject
  <2> QED BY <2>1, <2>3, <2>5, <2>6, <2>7, <2>8, <2>9, <2>10
<1> QED BY <1>1, <1>2

\* The invariant holds as long as callers stay apart.
LEMMA Neighbourly ==
  ASSUME SteadyWrites, Refusable = {}
  PROVE  Spec /\ []Apart => [](Inv /\ Parallel /\ Neighbours /\ Accepted)
<1>1. Init => Inv /\ Parallel /\ Neighbours /\ Accepted
  <2>1. Init => Accepted
    BY DEF Init, Accepted, Idle
  <2> QED BY <2>1, InvInit, ParallelInit, NeighboursInit
<1>2. Inv /\ Parallel /\ Neighbours /\ Accepted /\ Apart' /\ [Next]_vars
        => (Inv /\ Parallel /\ Neighbours /\ Accepted)'
  <2>1. Inv /\ [Next]_vars => Inv'
    BY InvNext
  <2>2. Inv /\ Inv' /\ Parallel /\ [Next]_vars => Parallel'
    BY ParallelNext
  <2>3. Inv /\ Inv' /\ Parallel /\ Neighbours /\ Accepted /\ Apart' /\ [Next]_vars => Neighbours'
    BY NeighboursNext
  <2>4. Inv /\ Inv' /\ Accepted /\ [Next]_vars => Accepted'
    BY AcceptedNext
  <2> QED BY <2>1, <2>2, <2>3, <2>4
<1> QED BY <1>1, <1>2, PTL DEF Spec

(***************************************************************************)
(* Callers that stay apart, however many, leave no record behind that      *)
(* hangs from nothing where the backend accepts every write: neither a     *)
(* late verifyParents nor the parent two calls share takes a record away   *)
(* from another.                                                           *)
(***************************************************************************)
THEOREM ApartLeaveNoOrphans ==
  ASSUME SteadyWrites, Refusable = {} PROVE Spec /\ []Apart => []NoOrphans
<1>1. Neighbours => NoOrphans
  BY DEF Neighbours, Hangs, NoOrphans, Quiet
<1> QED BY <1>1, Neighbourly, PTL

(***************************************************************************)
(* And each of their calls leaves what it promises when it is answered.    *)
(***************************************************************************)
THEOREM ApartDeliver ==
  ASSUME SteadyWrites, Refusable = {}
  PROVE  Spec /\ []Apart => [][\A o \in Ops : Ack(o) => Delivered(o)]_vars
<1>1. ASSUME Inv, Inv', Parallel, Neighbours, Accepted, NEW o \in Ops, Ack(o)
      PROVE  Delivered(o)
  <2>1. Busy(o) /\ op[o].todo = {} /\ op[o].out = <<>>
    BY <1>1 DEF Ack, Busy
  <2>2. op[o] \in Call /\ OnCourse(op[o]) /\ Fitting(op[o]) /\ store \in Tree
    BY <1>1, <2>1, Flying DEF Parallel
  <2>3. Unhurt(op[o], store)
    BY <1>1, <2>1 DEF Parallel, Neighbours, Accepted
  <2> QED BY <2>1, <2>2, <2>3, UnhurtIsDelivered
<1>2. Inv /\ Inv' /\ Parallel /\ Neighbours /\ Accepted /\ [Next]_vars =>
        [\A o \in Ops : Ack(o) => Delivered(o)]_vars
  BY <1>1
<1> QED BY <1>2, Neighbourly, PTL DEF Spec
=============================================================================
