--------------------------- MODULE MDEImplements ---------------------------
(***************************************************************************)
(* One call at a time, the records implement the document: they hold what  *)
(* the writes promised, and a call in flight has not happened yet.         *)
(***************************************************************************)
EXTENDS MDE

\* The document the records stand for.  While a call is in flight it is
\* what the call itself read.
Document == IF Quiet THEN Holds(store, <<>>)
            ELSE Holds(op[CHOOSE o \in Ops : Busy(o)].read, <<>>)

JD == INSTANCE JsonDocument WITH doc <- Document

(***************************************************************************)
(* A set replaces and an update merges, nulls remove, missing ancestors    *)
(* appear: the restructuring of records in NTree.destructure, with its     *)
(* inline values, dedicated records, removals and type changes, adds up to *)
(* one step of the document.                                               *)
(***************************************************************************)
Implements == JD!Spec

(***************************************************************************)
(* Between calls a get of any path returns what the document has there,    *)
(* but for entries of an array that has a gap: NTree.get moves those.      *)
(***************************************************************************)
ReadsDocument ==
  Quiet => \A p, q \in Paths : Under(p, q) /\ Legible(store, p, q) =>
             Get(store, p)[q] = Document[q]

(***************************************************************************)
(* Between calls every record hangs from the record of a container, so no  *)
(* removed branch leaves records that a later write would bring back.      *)
(***************************************************************************)
NoOrphans ==
  Quiet => \A p \in Paths \ {<<>>} : Has(store, p) => IsContainer(store, Parent(p))

----------------------------------------------------------------------------
(***************************************************************************)
(* The conditions under which both hold for every instance.  The client    *)
(* waits for each answer of a backend that accepts every call (for         *)
(* NoOrphans it is enough that clients stay apart); no write has a long    *)
(* string above the target of another one, since verifyParents takes it    *)
(* for a container; a path is always an object or always an array, since   *)
(* emit compares two records without their kind; and an atom is written to *)
(* an entry of an array only if none comes before it, since it is wrapped  *)
(* into an array whose holes are nulls.                                    *)
(***************************************************************************)
OneCaller == (\A o, n \in Ops : o = n) /\ Refusable = {}

\* Targets of calls in flight at the same time are on branches of their own.
Apart == \A o, n \in Ops : o # n /\ Busy(o) /\ Busy(n) => ~OnTrail(At(o), At(n))

\* Some write leaves a long string at p.
TextAt(p) == \E r \in Writes : r.value[p] \in Long

\* What a write makes of p when it makes it a container.
KindsAt(p) ==
  ({Content(r)[p] : r \in Writes} \cap Containers)
    \cup (IF \E r \in Writes : Below(p, Target(r)) THEN {CreatedKind(p)} ELSE {})

SteadyWrites ==
  /\ \A r \in Writes : Content(r) = Asked(r)
  /\ \A r \in Writes, p \in Paths : Below(p, Target(r)) => ~TextAt(p)
  /\ \A p \in Paths : \A k, l \in KindsAt(p) : k = l
----------------------------------------------------------------------------
(***************************************************************************)
(* Single entries of an array can be edited, as the documentation says:    *)
(* after each write of a caller that waits the records hold what it asked  *)
(* for and what was there beside it.                                       *)
(***************************************************************************)
EntriesCanBeEdited ==
  [][\A o \in Ops : Ack(o) =>
       \A q \in Paths : Under(At(o), q) => Holds(store, At(o))[q] = Promise(o)[q]]_vars
=============================================================================
