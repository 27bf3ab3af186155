---------------------------- MODULE JsonDocument ----------------------------
(***************************************************************************)
(* What the database promises a client that writes: one JSON document,     *)
(* set replaces the value at a path, update merges into it, a null removes *)
(* it, and missing ancestors are created.                                  *)
(***************************************************************************)
EXTENDS JsonTree

CONSTANT Writes    \* the requests clients make

VARIABLE doc

Init == doc = [p \in Paths |-> None]

Write(r) == doc' = Written(doc, r)

Next == \E r \in Writes : Write(r)

Spec == Init /\ [][Next]_doc
=============================================================================
