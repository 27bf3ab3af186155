--------------------------- MODULE SqliteStorage ---------------------------
(***************************************************************************)
(* The SQLite backend of the storage engine, the default of a server.      *)
(*                                                                         *)
(* setNode puts the row into the map "pending", sends an upsert to the     *)
(* database and resolves at once; the row leaves the map when the          *)
(* statement is over.  removeNode waits for its DELETE.  getMultiple lays  *)
(* the pending rows over the rows a SELECT finds.  The statements run in   *)
(* the threads of the sqlite3 package, which keeps no order among them.    *)
(***************************************************************************)
EXTENDS Naturals

CONSTANTS
  Paths,        \* paths of nodes below the prefix
  Subtree,      \* what "path = p OR path LIKE 'p/%'" matches, for every p
  Values,
  Records,      \* the pairs of a path and a value the engine writes
  None,         \* no row
  Statements,   \* slots for statements on their way
  Queries,      \* slots for calls of getMultiple
  MayFail       \* whether the database may refuse a statement, or the process die

ASSUME SqliteAssumption ==
  /\ None \notin Values
  /\ Records \subseteq Paths \X Values
  /\ Subtree \in [Paths -> SUBSET Paths]
  /\ \A p \in Paths : p \in Subtree[p]
  /\ MayFail \in BOOLEAN

VARIABLES
  table,       \* the rows of the table
  pending,     \* the map of rows not yet known to be in the table
  statement,   \* upserts and deletes: free, sent, or executed and not yet reported
  query,       \* calls of getMultiple
  burst,       \* history: what the last calls for a path wrote, see Recorded
  former,      \* history: the row before them
  lost         \* history: the paths where one of them was refused or died

history == <<burst, former, lost>>
vars == <<table, pending, statement, query, burst, former, lost>>

Rows == [Paths -> Values \cup {None}]
NoRows == [p \in Paths |-> None]

\* A statement with the value None is a DELETE.
Statement == [at : {"free", "sent", "done"}, path : Paths \cup {None},
              value : Values \cup {None}]

NoStatement == [at |-> "free", path |-> None, value |-> None]

\* A call of getMultiple, followed at one of the paths its pattern matches:
\* "overlay" and "row" are what it took there from the map and from the
\* table; "allowed" is history: what it may return.
Query == [at : {"idle", "sent", "done"}, path : Paths \cup {None},
          overlay : Values \cup {None}, row : Values \cup {None},
          allowed : SUBSET (Values \cup {None})]

NoQuery == [at |-> "idle", path |-> None, overlay |-> None, row |-> None, allowed |-> {}]

TypeOK ==
  /\ table \in Rows
  /\ pending \in Rows
  /\ statement \in [Statements -> Statement]
  /\ query \in [Queries -> Query]
  /\ burst \in [Paths -> SUBSET (Values \cup {None})]
  /\ former \in Rows
  /\ lost \in SUBSET Paths

Removes(s) == statement[s].value = None
Touches(s) == IF Removes(s) THEN Subtree[statement[s].path] ELSE {statement[s].path}
Active(s) == statement[s].at # "free"
Settled(p) == \A s \in Statements : Active(s) => p \notin Touches(s)

\* A table just made by initialize, and the map it creates for it.
Init ==
  /\ table = NoRows
  /\ pending = NoRows
  /\ statement = [s \in Statements |-> NoStatement]
  /\ query = [q \in Queries |-> NoQuery]
  /\ burst = [p \in Paths |-> {None}]
  /\ former = NoRows
  /\ lost = {}

(***************************************************************************)
(* History.  Nothing keeps two statements for a path apart, and the engine *)
(* itself sends some together: a removal of a branch with upserts below    *)
(* it, two upserts of one record.  Statements on their way to a path at a  *)
(* time, each sent before the others were over, are a burst.               *)
(***************************************************************************)
Recorded(ps, v) ==
  /\ burst' = [p \in Paths |-> IF p \notin ps THEN burst[p]
                               ELSE IF Settled(p) THEN {v}
                               ELSE burst[p] \cup {v}]
  /\ former' = [p \in Paths |-> IF p \in ps /\ Settled(p) THEN table[p] ELSE former[p]]
  /\ lost' = lost \ {p \in ps : Settled(p)}

\* What the last calls for p may leave in its row.
Left(p) == burst[p] \cup (IF p \in lost THEN {former[p]} ELSE {})

\* A call of getMultiple under way may from now on also return v.
Allowing(ps, v) ==
  [q \in Queries |->
     IF query[q].at = "sent" /\ query[q].path \in ps
       THEN [query[q] EXCEPT !.allowed = @ \cup {v}]
       ELSE query[q]]

Sent(s, p, v) ==
  /\ ~Active(s)
  /\ statement' = [statement EXCEPT ![s] = [at |-> "sent", path |-> p, value |-> v]]

SetNode_NoOverlay(s, p, v) ==
  /\ Sent(s, p, v)
  /\ Recorded({p}, v)
  /\ query' = Allowing({p}, v)
  /\ UNCHANGED <<table, pending>>

\* A value of null is no row and setNode ignores it; v is never None.
SetNode(s, p, v) ==
  /\ Sent(s, p, v)
  /\ pending' = [pending EXCEPT ![p] = v]
  /\ Recorded({p}, v)
  /\ query' = Allowing({p}, v)
  /\ UNCHANGED table

\* Only the row of p itself leaves the map, the DELETE takes those below too.
RemoveNode(s, p) ==
  /\ Sent(s, p, None)
  /\ pending' = [pending EXCEPT ![p] = None]
  /\ Recorded(Subtree[p], None)
  /\ query' = Allowing(Subtree[p], None)
  /\ UNCHANGED table

Execute_InsertOnly(s) ==
  /\ statement[s].at = "sent"
  /\ table' = [p \in Paths |->
                 IF p \in Touches(s) /\ (Removes(s) \/ table[p] = None)
                   THEN statement[s].value ELSE table[p]]
  /\ statement' = [statement EXCEPT ![s].at = "done"]
  /\ UNCHANGED <<pending, query, history>>

Execute_ExactPath(s) ==
  /\ statement[s].at = "sent"
  /\ table' = [table EXCEPT ![statement[s].path] = statement[s].value]
  /\ statement' = [statement EXCEPT ![s].at = "done"]
  /\ UNCHANGED <<pending, query, history>>

Execute_Flags(s) ==
  /\ statement[s].at = "sent"
  /\ table' = [p \in Paths |-> IF p \in Touches(s)
                 THEN (IF Removes(s) THEN "deleted" ELSE statement[s].value) ELSE table[p]]
  /\ statement' = [statement EXCEPT ![s].at = "done"]
  /\ UNCHANGED <<pending, query, history>>

\* A thread runs the upsert (ON CONFLICT DO UPDATE) or the DELETE.
Execute(s) ==
  /\ statement[s].at = "sent"
  /\ table' = [p \in Paths |-> IF p \in Touches(s) THEN statement[s].value ELSE table[p]]
  /\ statement' = [statement EXCEPT ![s].at = "done"]
  /\ UNCHANGED <<pending, query, history>>

\* The map forgets the row of a path when a statement for it is over,
\* whichever row it holds.
Forgotten(s) ==
  IF Removes(s) THEN pending ELSE [pending EXCEPT ![statement[s].path] = None]

\* The callback of the statement.
Report(s) ==
  /\ statement[s].at = "done"
  /\ pending' = Forgotten(s)
  /\ statement' = [statement EXCEPT ![s] = NoStatement]
  /\ UNCHANGED <<table, query, history>>

Refuse_KeepsOverlay(s) ==
  /\ MayFail
  /\ statement[s].at = "sent"
  /\ statement' = [statement EXCEPT ![s] = NoStatement]
  /\ lost' = lost \cup Touches(s)
  /\ UNCHANGED <<table, pending, query, burst, former>>

\* The callback reports an error: nothing was written, though the caller of
\* setNode was told otherwise.
Refuse(s) ==
  /\ MayFail
  /\ statement[s].at = "sent"
  /\ pending' = Forgotten(s)
  /\ statement' = [statement EXCEPT ![s] = NoStatement]
  /\ lost' = lost \cup Touches(s)
  /\ UNCHANGED <<table, query, burst, former>>

\* The process dies and starts again on the same file: the map is empty,
\* statements that had not run are gone.
Crash ==
  /\ MayFail
  /\ pending' = NoRows
  /\ statement' = [s \in Statements |-> NoStatement]
  /\ query' = [q \in Queries |-> NoQuery]
  /\ lost' = lost \cup {p \in Paths : ~Settled(p)}
  /\ UNCHANGED <<table, burst, former>>

\* A removal of p whose caller still waits.
Removing(p) == \E s \in Statements : Active(s) /\ Removes(s) /\ p \in Touches(s)

\* getMultiple copies the map and sends its SELECT.
Ask(q, p) ==
  /\ query[q].at = "idle"
  /\ query' = [query EXCEPT ![q] =
       [at |-> "sent", path |-> p, overlay |-> pending[p], row |-> None,
        allowed |-> Left(p) \cup (IF Removing(p) THEN {former[p]} ELSE {})]]
  /\ UNCHANGED <<table, pending, statement, history>>

Select(q) ==
  /\ query[q].at = "sent"
  /\ query' = [query EXCEPT ![q].at = "done", ![q].row = table[query[q].path]]
  /\ UNCHANGED <<table, pending, statement, history>>

\* The first row of a path wins, those from the map come first.
Result(q) == IF query[q].overlay # None THEN query[q].overlay ELSE query[q].row

Answer(q) ==
  /\ query[q].at = "done"
  /\ query' = [query EXCEPT ![q] = NoQuery]
  /\ UNCHANGED <<table, pending, statement, history>>

Next ==
  \/ \E s \in Statements :
       \/ \E record \in Records : SetNode(s, record[1], record[2])
       \/ \E p \in Paths : RemoveNode(s, p)
       \/ Execute(s) \/ Report(s) \/ Refuse(s)
  \/ \E q \in Queries : (\E p \in Paths : Ask(q, p)) \/ Select(q) \/ Answer(q)
  \/ Crash

Spec == Init /\ [][Next]_vars

\* The threads run every statement sooner or later and report it.
FairSpec ==
  Spec /\ \A s \in Statements : WF_vars(Execute(s)) /\ WF_vars(Report(s))

----------------------------------------------------------------------------
(***************************************************************************)
(* The map holds a row only as long as its statement is on its way, so it  *)
(* neither grows nor hides newer rows of the table for good, whatever      *)
(* order the statements are executed and reported in and also when they    *)
(* are refused.                                                            *)
(***************************************************************************)
OverlayDrains ==
  \A p \in Paths : pending[p] # None =>
    \E s \in Statements : Active(s) /\ statement[s].path = p /\ ~Removes(s)

(***************************************************************************)
(* A read returns for a path a row that one of the last calls for it       *)
(* wrote, or one that ran meanwhile, although the map and the table are    *)
(* read at different times: answering setNode before its statement has run *)
(* is not visible to readers.  The row before those calls shows only while *)
(* a removal is unanswered or when the database refused one of them.       *)
(* Of calls in one burst any may show: the end of an upsert takes the row  *)
(* of a later one out of the map.                                          *)
(***************************************************************************)
RegularReads ==
  \A q \in Queries : query[q].at = "done" => Result(q) \in query[q].allowed

(***************************************************************************)
(* Once no statement is on its way to a path its row is what one of the    *)
(* last burst of calls wrote: nothing older survives them or comes back,   *)
(* in whatever order upserts and deletes of a branch above ran, nor is a   *)
(* row at rest hurt by a crash.  Only if a call of the burst was refused   *)
(* or died may the row be the one before it.                               *)
(***************************************************************************)
LastWriteStays == \A p \in Paths : Settled(p) => table[p] \in Left(p)

(***************************************************************************)
(* An acknowledged write reaches the table: the row of a path is again and *)
(* again one of the last calls, however many follow.                       *)
(***************************************************************************)
TableCatchesUp == \A p \in Paths : []<>(table[p] \in Left(p))
=============================================================================
