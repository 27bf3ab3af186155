-------------------------------- MODULE MDE --------------------------------
(***************************************************************************)
(* The storage engine: set and update of the class MDE together with the   *)
(* NTree they build for every call.                                        *)
(*                                                                         *)
(* A document is stored as records.  A record holds the short children of  *)
(* an object or array inline; objects, arrays and long strings below it    *)
(* have records of their own.  A call reads the records on the trail of    *)
(* its path into a private tree, restructures that tree node by node, and  *)
(* emits one setNode or removeNode per changed record.  Calls run          *)
(* concurrently: nothing is locked between the read and the last write,    *)
(* and the check of the ancestors (verifyParents) is not awaited.          *)
(***************************************************************************)
EXTENDS JsonTree

CONSTANTS
  Ops,        \* slots for calls in flight
  Writes,     \* the requests clients make
  Refusable   \* the requests whose backend calls may be refused

ASSUME MDEAssumption ==
  /\ Writes \subseteq Requests
  /\ Refusable \subseteq Writes

VARIABLES
  store,      \* records in the backend, by path
  op          \* the calls in flight

vars == <<store, op>>

Str == "str"

InlineValues == Short \cup Containers \cup {None}
EmptyInline == [k \in Keys |-> None]

Record == [kind : Containers \cup {Str, None},
           inline : [Keys -> InlineValues],
           text : Long \cup {None}]

NoRecord == [kind |-> None, inline |-> EmptyInline, text |-> None]

Container(kind, inline) == [kind |-> kind, inline |-> inline, text |-> None]
Text(t) == [kind |-> Str, inline |-> EmptyInline, text |-> t]

Tree == [Paths -> Record]
Put == [path : Paths, record : Record]

Has(t, p) == t[p].kind # None
IsContainer(t, p) == t[p].kind \in Containers

(***************************************************************************)
(* What the records hold: at each path a record of its own, or the inline  *)
(* value in the record of the parent.                                      *)
(***************************************************************************)
Reached(t, from, q) ==
  \A a \in Paths : Under(from, a) /\ Below(a, q) => IsContainer(t, a)

InlineAt(t, q) ==
  IF q # <<>> /\ IsContainer(t, Parent(q))
    THEN t[Parent(q)].inline[Last(q)]
    ELSE None

ValueAt(t, q) ==
  CASE t[q].kind \in Containers -> t[q].kind
    [] t[q].kind = Str -> t[q].text
    [] OTHER -> InlineAt(t, q)

\* The document the records below "from" hold.
Holds(t, from) ==
  [q \in Paths |->
     IF Under(from, q) /\ Reached(t, from, q)
       THEN ValueAt(t, q)
       ELSE None]

(***************************************************************************)
(* Reading.  NTree.get follows the records down from the path it is asked  *)
(* for.  It filters the inline entries of an array, which closes the gaps  *)
(* dedicated records and nulls leave, and then assigns the entries that    *)
(* are nodes of its tree by their index.  A node without a record, and a   *)
(* path that is asked for and has none, are looked up in the parent, where *)
(* the test "pathInfo.key &&" fails for the index 0.                       *)
(***************************************************************************)
InTree(t, q) == \E p \in Paths : Under(q, p) /\ Has(t, p)

LookedUp(t, q) == IF q # <<>> /\ Last(q) = 0 THEN None ELSE InlineAt(t, q)

Filled(t, a) == {k \in Indexes : t[a].inline[k] # None}

\* The i-th of the inline entries of an array, None beyond the last.
EntryAt(t, a, i) ==
  LET at == {k \in Filled(t, a) : Cardinality({l \in Filled(t, a) : l < k}) = i}
  IN IF at = {} THEN None ELSE t[a].inline[CHOOSE k \in at : TRUE]

InlineRead(t, q) ==
  CASE InTree(t, q) -> LookedUp(t, q)
    [] ~InTree(t, q) /\ t[Parent(q)].kind = Arr ->
         IF Last(q) \in Indexes THEN EntryAt(t, Parent(q), Last(q)) ELSE None
    [] OTHER -> InlineAt(t, q)

\* The document below "from" as a get of that path returns it.
Get(t, from) ==
  [q \in Paths |->
     CASE ~Under(from, q) \/ ~Reached(t, from, q) -> None
       [] Under(from, q) /\ Reached(t, from, q) /\ Has(t, q) -> ValueAt(t, q)
       [] Under(from, q) /\ Reached(t, from, q) /\ ~Has(t, q) ->
            IF q = from THEN LookedUp(t, q) ELSE InlineRead(t, q)]

\* getNodesBy for a write at p: its ancestors, its own record and those
\* below it; of a value kept inline in the parent only the ancestors.
Loaded(s, p) ==
  LET inlineChild == p # <<>> /\ ~Has(s, p) /\ Has(s, Parent(p))
  IN [q \in Paths |->
        IF OnTrail(q, p) /\ (inlineChild => Below(q, p)) THEN s[q] ELSE NoRecord]

(***************************************************************************)
(* NTree.destructure of one node q whose data is an object or an array.    *)
(***************************************************************************)
Mismatch(t, q, w) == Has(t, q) /\ t[q].kind # w[q]

ModeAt(t, mode, q, w) == IF Mismatch(t, q, w) THEN "SET" ELSE mode

\* Records that remove() takes away with the one at c.
RemovedWith_Alone(t, c) == {c}

RemovedWith(t, c) == {q \in Paths : Under(c, q) /\ \A a \in Between(c, q) : Has(t, a)}

\* Records an object or array at q displaces: those of children now kept
\* inline, and those of children a SET does not name.  After a change
\* between object and array every child goes.
Dropped_KeepsUnnamed(t, mode, q, w) ==
  UNION {RemovedWith(t, c) : c \in
    {d \in Children(q) : Has(t, d) /\ ((w[d] # None /\ FitsInline(w, d)) \/ Mismatch(t, q, w))}}

Dropped(t, mode, q, w) ==
  UNION {RemovedWith(t, c) : c \in
    {d \in Children(q) :
       /\ Has(t, d)
       /\ \/ w[d] # None /\ FitsInline(w, d)
          \/ Mismatch(t, q, w)
          \/ Has(t, q) /\ ModeAt(t, mode, q, w) = "SET" /\ w[d] = None}}

NewInline_KeepsLong(t, mode, q, w) ==
  [k \in Keys |-> IF Append(q, k) \notin Paths \/ w[Append(q, k)] \in {None, Null}
                    THEN None ELSE w[Append(q, k)]]

NewInline(t, mode, q, w) ==
  LET base == IF Has(t, q) /\ ModeAt(t, mode, q, w) = "UPDATE"
                THEN t[q].inline ELSE EmptyInline
      child(k) == Append(q, k)
  IN [k \in Keys |->
        IF child(k) \notin Paths \/ w[child(k)] = None THEN base[k]
        ELSE IF ~FitsInline(w, child(k)) \/ w[child(k)] = Null THEN None
        ELSE w[child(k)]]

\* The parent of q gives up the inline value a record at q replaces.
ParentFixed(t, q) ==
  IF InlineAt(t, q) # None
    THEN [t EXCEPT ![Parent(q)].inline[Last(q)] = None]
    ELSE t

ParentPuts(t, q) ==
  IF InlineAt(t, q) # None
    THEN <<[path |-> Parent(q), record |-> ParentFixed(t, q)[Parent(q)]]>>
    ELSE <<>>

\* remove() emits a record before those below it; siblings in any order.
Descents(S) ==
  {f \in [1..Cardinality(S) -> S] :
     /\ \A i, j \in DOMAIN f : f[i] = f[j] => i = j
     /\ \A i, j \in DOMAIN f : Below(f[i], f[j]) => i < j}

RemovePuts(f) == [i \in DOMAIN f |-> [path |-> f[i], record |-> NoRecord]]

Cleared(t, S) == [p \in Paths |-> IF p \in S THEN NoRecord ELSE t[p]]

Emitted_FirstKey(t, q, r) ==
  <<[path |-> IF q = <<>> THEN q ELSE Append(Parent(q), q[1]), record |-> r]>>

\* A change event whose value equals the previous one is not emitted.
Emitted(t, q, r) == IF Has(t, q) /\ t[q].inline = r.inline /\ t[q].text = r.text
                      THEN <<>> ELSE <<[path |-> q, record |-> r]>>

\* A call wraps an atom into its parent; that parent is then handled
\* without a look at the record above it.
Wrapped(r, q) == q = Target(r) /\ q # r.path

\* Records a long string at q displaces.
DroppedByText(t, q) ==
  IF IsContainer(t, q)
    THEN UNION {RemovedWith(t, c) : c \in {d \in Children(q) : Has(t, d)}}
    ELSE {}

\* Children of q that need records of their own.
Dedicated(w, q) == {c \in Children(q) : w[c] # None /\ ~FitsInline(w, c)}

(***************************************************************************)
(* A call.  The last three fields are history that guides no step: "read"  *)
(* is the backend at the call's own read, "overlap" holds the targets of   *)
(* the calls that ran at some time together with it, "refused" says that   *)
(* the backend refused its read or one of its writes.                      *)
(***************************************************************************)
Job == [path : Paths, mode : {"SET", "UPDATE"}]

NoRequest == [mode |-> "SET", path |-> <<>>, value |-> [q \in Paths |-> None]]

Call == [pc : {"idle", "run", "acked"},
         request : Writes \cup {NoRequest},
         tree : Tree,                \* the private NTree
         todo : SUBSET Job,          \* nodes still to destructure
         verify : SUBSET Paths,      \* ancestors verifyParents has to visit
         out : Seq(Put),             \* emitted, not yet in the backend
         read : Tree,
         overlap : SUBSET Paths,
         refused : BOOLEAN]

NoTree == [p \in Paths |-> NoRecord]

Idle == [pc |-> "idle", request |-> NoRequest, tree |-> NoTree, todo |-> {},
         verify |-> {}, out |-> <<>>, read |-> NoTree, overlap |-> {}, refused |-> FALSE]

Busy(o) == op[o].pc # "idle"
Quiet == \A o \in Ops : ~Busy(o)

At(o) == Target(op[o].request)

\* One iteration of verifyParents: an ancestor without a record gets one.
Verified(t, a) == IF Has(t, a) THEN t
                  ELSE [t EXCEPT ![a] = Container(CreatedKind(a), EmptyInline)]
VerifyPuts(t, a) == IF Has(t, a) THEN <<>>
                    ELSE <<[path |-> a, record |-> Verified(t, a)[a]]>>

TypeOK ==
  /\ store \in Tree
  /\ op \in [Ops -> Call]

Init ==
  /\ store = NoTree
  /\ op = [o \in Ops |-> Idle]

\* getNodesBy takes a read that fails for one that finds nothing.
Seen(r) == {store} \cup (IF r \in Refusable THEN {NoTree} ELSE {})

(***************************************************************************)
(* set or update reads the trail of its path and calls destructure, which  *)
(* runs the first iteration of verifyParents (the prefix) before it yields *)
(* for the first time.                                                     *)
(***************************************************************************)
Start(o, r, seen) ==
  LET loaded == Loaded(seen, r.path)
      above == {a \in Paths : Below(a, Target(r))}
      first == IF above = {} THEN loaded ELSE Verified(loaded, <<>>)
      call == [pc |-> "run", request |-> r, tree |-> first,
               todo |-> {[path |-> Target(r), mode |-> Mode(r)]},
               verify |-> above \ {<<>>},
               out |-> IF above = {} THEN <<>> ELSE VerifyPuts(loaded, <<>>),
               read |-> store,
               overlap |-> {At(c) : c \in {d \in Ops : Busy(d)}},
               refused |-> seen # store]
  IN /\ ~Busy(o)
     /\ op' = [c \in Ops |->
                 IF c = o THEN call
                 ELSE IF Busy(c) THEN [op[c] EXCEPT !.overlap = @ \cup {Target(r)}]
                 ELSE op[c]]
     /\ UNCHANGED store

\* The next iteration of verifyParents, at any time until long after the
\* call was answered.
VerifyParent(o) ==
  /\ op[o].pc \in {"run", "acked"}
  /\ \E a \in op[o].verify :
       /\ \A b \in op[o].verify : Under(a, b)
       /\ op' = [op EXCEPT ![o].verify = @ \ {a},
                          ![o].tree = Verified(@, a),
                          ![o].out = @ \o VerifyPuts(op[o].tree, a)]
  /\ UNCHANGED store

\* One call of destructure for a node whose data is an object or an array.
DestructureNode(o, job) ==
  LET r == op[o].request
      w == Content(r)
      q == job.path
      t == op[o].tree
      fixed == IF Wrapped(r, q) THEN t ELSE ParentFixed(t, q)
      above == IF Wrapped(r, q) THEN <<>> ELSE ParentPuts(t, q)
      dropped == Dropped(fixed, job.mode, q, w)
      record == Container(w[q], NewInline(fixed, job.mode, q, w))
      nested == [path : Dedicated(w, q), mode : {ModeAt(t, job.mode, q, w)}]
  IN /\ w[q] \in Containers
     /\ \E f \in Descents(dropped) :
          op' = [op EXCEPT
                   ![o].tree = [Cleared(fixed, dropped) EXCEPT ![q] = record],
                   ![o].out = @ \o above \o RemovePuts(f) \o Emitted(fixed, q, record),
                   ![o].todo = (@ \ {job}) \cup nested]

\* The record of its own that a long string gets.
DestructureText(o, job) ==
  LET q == job.path
      t == op[o].tree
      record == Text(Content(op[o].request)[q])
      dropped == DroppedByText(t, q)
  IN /\ record.text \in Long
     /\ \E f \in Descents(dropped) :
          op' = [op EXCEPT
                   ![o].tree = [Cleared(t, dropped) EXCEPT ![q] = record],
                   ![o].out = @ \o RemovePuts(f) \o Emitted(t, q, record),
                   ![o].todo = @ \ {job}]

Destructure(o) ==
  /\ op[o].pc = "run"
  /\ \E job \in op[o].todo : DestructureNode(o, job) \/ DestructureText(o, job)
  /\ UNCHANGED store

Apply_WhileRunning(o) ==
  /\ op[o].pc = "run"
  /\ op[o].out # <<>>
  /\ store' = [store EXCEPT ![Head(op[o].out).path] = Head(op[o].out).record]
  /\ op' = [op EXCEPT ![o].out = Tail(@)]

\* The backend takes the oldest setNode or removeNode of the call.
Apply(o) ==
  /\ op[o].out # <<>>
  /\ store' = [store EXCEPT ![Head(op[o].out).path] = Head(op[o].out).record]
  /\ op' = [op EXCEPT ![o].out = Tail(@)]

\* The backend rejects it: the error ends up in batchError, which nobody
\* reads.
Reject(o) ==
  /\ op[o].request \in Refusable
  /\ op[o].out # <<>>
  /\ op' = [op EXCEPT ![o].out = Tail(@), ![o].refused = TRUE]
  /\ UNCHANGED store

Ack_Early(o) ==
  /\ op[o].pc = "run"
  /\ op[o].todo = {}
  /\ op' = [op EXCEPT ![o].pc = "acked"]
  /\ UNCHANGED store

\* The promise of set or update resolves.  A record that verifyParents
\* creates between the last destructure and the answer is not awaited: that
\* is VerifyParent after Ack.
Ack(o) ==
  /\ op[o].pc = "run"
  /\ op[o].todo = {}
  /\ op[o].out = <<>>
  /\ op' = [op EXCEPT ![o].pc = "acked"]
  /\ UNCHANGED store

\* verifyParents has visited the last ancestor.
End(o) ==
  /\ op[o].pc = "acked"
  /\ op[o].verify = {}
  /\ op[o].out = <<>>
  /\ op' = [op EXCEPT ![o] = Idle]
  /\ UNCHANGED store

Next ==
  \E o \in Ops :
    \/ \E r \in Writes : \E seen \in Seen(r) : Start(o, r, seen)
    \/ VerifyParent(o)
    \/ Destructure(o)
    \/ Apply(o)
    \/ Reject(o)
    \/ Ack(o)
    \/ End(o)

Spec == Init /\ [][Next]_vars

(***************************************************************************)
(* Callbacks and timers of the event loop run sooner or later, and the     *)
(* backend answers.                                                        *)
(***************************************************************************)
Progress(o) == \/ VerifyParent(o) \/ Destructure(o) \/ Apply(o) \/ Ack(o) \/ End(o)

FairSpec == Spec /\ \A o \in Ops : WF_vars(Progress(o))

----------------------------------------------------------------------------
(***************************************************************************)
(* No write leaks out of its trail: a record only ever changes while a     *)
(* call is in flight whose path lies above it, at it or below it.          *)
(***************************************************************************)
Footprint ==
  [][\A p \in Paths : store'[p] # store[p] =>
        \E o \in Ops : Busy(o) /\ OnTrail(p, op[o].request.path)]_vars

(***************************************************************************)
(* Where a get finds each entry at its place: the inline entries of an     *)
(* array come first and without a gap, and the entry 0 has a record or is  *)
(* no node of the tree.                                                    *)
(***************************************************************************)
InPlace(t, a) ==
  /\ t[a].kind = Arr =>
       \A k \in Keys : t[a].inline[k] # None =>
         /\ k \in Indexes
         /\ \A j \in Indexes : j < k => t[a].inline[j] # None
  /\ \A c \in Children(a) : Last(c) = 0 /\ InTree(t, c) => Has(t, c)

Legible(t, from, q) ==
  /\ \A a \in Paths : Under(from, a) /\ Below(a, q) => InPlace(t, a)
  /\ q = from /\ q # <<>> /\ ~Has(t, q) => Last(q) # 0

(***************************************************************************)
(* Concurrent calls on unrelated paths do not disturb each other: when the *)
(* promise of a call resolves, the records hold what the write promises    *)
(* from its target down, and a get returns it where arrays are in place,   *)
(* whatever the calls that ran meanwhile on other branches did and         *)
(* whatever the backend refused them.                                      *)
(* The records it read have to hang together: of two calls that collided   *)
(* before, one may have left records below a container the other removed,  *)
(* and a set that brings the container back shows them again.              *)
(***************************************************************************)
Alone(o) == \A q \in op[o].overlap : ~OnTrail(q, At(o))

\* No record on the trail of p hangs from nothing.
Intact(t, p) ==
  \A q \in Paths \ {<<>>} : OnTrail(q, p) /\ Has(t, q) => IsContainer(t, Parent(q))

\* What the call promises from its target down.
Promise(o) == Written(Holds(op[o].read, At(o)), op[o].request)

Delivered(o) ==
  \A q \in Paths : Under(At(o), q) =>
    /\ Holds(store, At(o))[q] = Promise(o)[q]
    /\ Legible(store, At(o), q) => Get(store, At(o))[q] = Promise(o)[q]

DisjointWritesSurvive ==
  [][\A o \in Ops :
       Ack(o) /\ Alone(o) /\ ~op[o].refused /\ Intact(op[o].read, At(o)) => Delivered(o)]_vars

\* Every call is answered and leaves nothing behind: the awaits of set and
\* update all settle, with a backend that may refuse writes too.
Answered == \A o \in Ops : Busy(o) ~> ~Busy(o)

=============================================================================
