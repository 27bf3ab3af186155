------------------------------ MODULE JsonTree ------------------------------
(***************************************************************************)
(* Paths and JSON values of the database, as sets and functions.           *)
(*                                                                         *)
(* A path is the sequence of keys below the database prefix ("root"), so   *)
(* <<>> is the prefix itself.  A string key ("a/name") belongs to an       *)
(* object, a numeric key ("a[0]") to an array.  A JSON value is laid out   *)
(* flat: a function that gives every path the kind of container, the       *)
(* atomic value or the None found there.                                   *)
(***************************************************************************)
EXTENDS Naturals, Sequences, SequencesExt

CONSTANTS
  Names,      \* keys of objects
  Indexes,    \* keys of arrays: 0, 1, ...
  Paths,      \* the paths of the instance, closed under parents
  Short,      \* atomic values below maxInlineValueSize: kept in the parent
  Long        \* strings from maxInlineValueSize on: a record of their own

Keys == Names \cup Indexes

ASSUME KeysAssumption ==
  /\ Indexes \subseteq Nat
  /\ \A i \in Indexes : 0..i \subseteq Indexes
  /\ Names \cap Indexes = {}

ASSUME PathsAssumption ==
  /\ IsFiniteSet(Paths)
  /\ Paths \subseteq Seq(Keys)
  /\ <<>> \in Paths
  /\ \A p \in Paths \ {<<>>} : Front(p) \in Paths

Obj == "obj"
Arr == "arr"
None == "none"     \* nothing at this path
Null == "null"     \* an explicit null inside the data of a write

Containers == {Obj, Arr}

Parent(p) == Front(p)

Under(p, q) == IsPrefix(p, q)
Below(p, q) == Under(p, q) /\ p # q
OnTrail(p, q) == Under(p, q) \/ Under(q, p)

Children(p) == {q \in Paths \ {<<>>} : Parent(q) = p}

\* The paths from p down to q, both included.
Between(p, q) == {a \in Paths : Under(p, a) /\ Under(a, q)}

\* The container a key implies (a number is an array index).
KindOfKey(k) == IF k \in Indexes THEN Arr ELSE Obj
KindAbove(p) == KindOfKey(Last(p))

\* The type verifyParents gives an ancestor it has to create: by the
\* ancestor's own key.
CreatedKind(p) == IF p = <<>> THEN Obj ELSE KindOfKey(Last(p))

\* An atom is none of the marks, and its size says where it is kept.
ASSUME ValuesAssumption ==
  /\ (Short \cup Long) \cap {Obj, Arr, None, Null} = {}
  /\ Short \cap Long = {}

JsonValues == Containers \cup Short \cup Long \cup {None, Null}

\* The entries of an array before the one at q.
Before(q) == {p \in Paths \ {<<>>} :
                /\ Parent(p) = Parent(q)
                /\ {Last(p), Last(q)} \subseteq Indexes
                /\ Last(p) < Last(q)}

\* Data handed to a write at p: nothing outside p, something at p, and a
\* value below another one only when that other one is a container whose
\* kind suits the key.  An array is visited from 0 to its length, so that
\* a hole in it is a null.
IsDataAt(v, p) ==
  /\ v[p] # None
  /\ \A q \in Paths : v[q] # None =>
        /\ Under(p, q)
        /\ q # p => /\ v[Parent(q)] = KindAbove(q)
                    /\ \A e \in Before(q) : v[e] # None

\* valueFitsInline: short atoms, null and empty containers stay in the
\* record of their parent.
FitsInline(v, q) ==
  \/ v[q] \in Short \cup {Null}
  \/ v[q] \in Containers /\ \A c \in Children(q) : v[c] = None

(***************************************************************************)
(* A request to write: mode "SET" or "UPDATE", the path and the data.      *)
(* Data that is no object and no array is wrapped into an update of the    *)
(* parent.                                                                 *)
(***************************************************************************)
Target(r) == IF r.value[r.path] \in Containers THEN r.path ELSE Parent(r.path)

Mode(r) == IF r.value[r.path] \in Containers THEN r.mode ELSE "UPDATE"

\* The data as the client means it: the wrapped atom and nothing else.
Asked(r) ==
  IF r.value[r.path] \in Containers
    THEN r.value
    ELSE [r.value EXCEPT ![Parent(r.path)] = KindAbove(r.path)]

\* The data as destructure visits it: an atom at index k is wrapped into an
\* array of k + 1 entries, and the holes before it count as nulls.
Content(r) ==
  IF r.value[r.path] \in Containers
    THEN r.value
    ELSE [q \in Paths |-> IF r.path # <<>> /\ q \in Before(r.path) THEN Null ELSE Asked(r)[q]]

\* The prefix itself only ever holds an object or an array.
Requests ==
  {r \in [mode : {"SET", "UPDATE"}, path : Paths, value : [Paths -> JsonValues]] :
      /\ IsDataAt(r.value, r.path)
      /\ r.path = <<>> => r.value[<<>>] \in Containers}

(***************************************************************************)
(* The document d after a request r with the data w: set replaces what is  *)
(* at the target, update merges into it, a null removes, missing ancestors *)
(* are created.                                                            *)
(***************************************************************************)
\* The key of q right below its ancestor c.
Toward(c, q) == SubSeq(q, 1, Len(c) + 1)

\* The container at c keeps the children the data does not name.
Merges(d, r, w, c) ==
  /\ Mode(r) = "UPDATE"
  /\ c = Target(r) \/ ~FitsInline(w, c)
  /\ \A a \in Between(Target(r), c) : d[a] = w[a]

After(d, r, w) ==
  LET at == Target(r)
      Kept(q) == \E c \in Paths : /\ Under(at, c) /\ Below(c, q)
                                  /\ w[c] \in Containers
                                  /\ w[Toward(c, q)] = None
                                  /\ Merges(d, r, w, c)
  IN [q \in Paths |->
        IF Under(at, q)
          THEN IF w[q] = Null THEN None
               ELSE IF w[q] # None THEN w[q]
               ELSE IF Kept(q) THEN d[q] ELSE None
        ELSE IF Below(q, at)
          THEN IF d[q] \in Containers THEN d[q] ELSE CreatedKind(q)
        ELSE d[q]]

\* What a client is promised.
Written(d, r) == After(d, r, Asked(r))
=============================================================================
