----------------------------- MODULE MC_Sqlite -----------------------------
\* A node and its child, two statements on their way at once, one reader.
EXTENDS SqliteStorage, TLC

CONSTANTS parent, child, v1, v2, st1, st2, q1

MCRecords == {<<child, v1>>, <<child, v2>>}
MCSubtree == parent :> {parent, child} @@ child :> {child}
=============================================================================
