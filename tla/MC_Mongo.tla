------------------------------ MODULE MC_Mongo ------------------------------
\* Two databases; in the second one the node "a", its child "a/c", "ab",
\* which begins like it, and the element "b[0]" of an array.
EXTENDS MongoStorage

CONSTANTS d1, a, ac, ab, b0

MCKeys == {d1, a, ac, ab, b0}
MCDatabaseOf == [k \in MCKeys |-> IF k = d1 THEN 1 ELSE 2]
MCBranch == [k \in MCKeys |-> IF k = a THEN {a, ac} ELSE {k}]
MCMatched == [k \in MCKeys |-> CASE k = a -> {a, ac, ab}
                                [] k = b0 -> {}
                                [] OTHER -> {k}]
=============================================================================
