---------------------------- MODULE SqliteProofs ----------------------------
(***************************************************************************)
(* Proofs about the SQLite backend, for any paths, values, statements and  *)
(* queries.  Nothing is assumed of its callers.                            *)
(***************************************************************************)
EXTENDS SqliteStorage, TLAPS

\* The engine writes values at paths.
LEMMA RecordsTyped ==
  \A record \in Records : record[1] \in Paths /\ record[2] \in Values
BY SqliteAssumption

\* What Allowing does to a query.
LEMMA AllowingMeaning ==
  ASSUME TypeOK, NEW ps \in SUBSET Paths, NEW v \in Values \cup {None}
  PROVE  /\ Allowing(ps, v) \in [Queries -> Query]
         /\ \A q \in Queries :
              /\ Allowing(ps, v)[q].at = query[q].at
              /\ Allowing(ps, v)[q].path = query[q].path
              /\ Allowing(ps, v)[q].overlay = query[q].overlay
              /\ Allowing(ps, v)[q].row = query[q].row
              /\ Allowing(ps, v)[q].allowed =
                   IF query[q].at = "sent" /\ query[q].path \in ps
                     THEN query[q].allowed \cup {v} ELSE query[q].allowed
<1> SUFFICES ASSUME NEW q \in Queries
             PROVE  /\ Allowing(ps, v)[q] \in Query
                    /\ Allowing(ps, v)[q].at = query[q].at
                    /\ Allowing(ps, v)[q].path = query[q].path
                    /\ Allowing(ps, v)[q].overlay = query[q].overlay
                    /\ Allowing(ps, v)[q].row = query[q].row
                    /\ Allowing(ps, v)[q].allowed =
                         IF query[q].at = "sent" /\ query[q].path \in ps
                           THEN query[q].allowed \cup {v} ELSE query[q].allowed
  BY DEF Allowing
<1>1. query[q] \in Query
  BY DEF TypeOK
<1>2. Allowing(ps, v)[q] = IF query[q].at = "sent" /\ query[q].path \in ps
                             THEN [query[q] EXCEPT !.allowed = query[q].allowed \cup {v}]
                             ELSE query[q]
  BY DEF Allowing
<1> QED BY <1>1, <1>2 DEF Query

\* What Recorded does to the history.
LEMMA RecordedMeaning ==
  ASSUME TypeOK, NEW ps \in SUBSET Paths, NEW v \in Values \cup {None}, Recorded(ps, v)
  PROVE  /\ burst' \in [Paths -> SUBSET (Values \cup {None})]
         /\ former' \in Rows
         /\ lost' \in SUBSET Paths
         /\ \A x \in Paths :
              /\ x \notin ps => /\ burst'[x] = burst[x]
                                /\ former'[x] = former[x]
                                /\ x \in lost' <=> x \in lost
              /\ x \in ps => v \in burst'[x]
              /\ x \in ps /\ ~Settled(x) => /\ burst'[x] = burst[x] \cup {v}
                                            /\ former'[x] = former[x]
                                            /\ x \in lost' <=> x \in lost
              /\ x \in ps /\ Settled(x) => former'[x] = table[x]
<1>1. burst' \in [Paths -> SUBSET (Values \cup {None})]
  BY DEF Recorded, TypeOK
<1>2. former' \in Rows
  BY DEF Recorded, TypeOK, Rows
<1> QED BY <1>1, <1>2 DEF Recorded, TypeOK

----------------------------------------------------------------------------
(* Types. *)

\* Statements on their way and reads under way have a path.
Addressed ==
  /\ \A s \in Statements : Active(s) => statement[s].path \in Paths
  /\ \A q \in Queries : query[q].at # "idle" => query[q].path \in Paths

\* What a statement touches are paths.
LEMMA TouchesPaths ==
  ASSUME TypeOK, NEW s \in Statements, statement[s].path \in Paths
  PROVE  Touches(s) \in SUBSET Paths
BY SqliteAssumption DEF Touches, TypeOK

LEMMA NoStatementType == NoStatement \in Statement /\ NoStatement.at = "free"
BY DEF NoStatement, Statement

LEMMA NoQueryType == NoQuery \in Query /\ NoQuery.at = "idle"
BY DEF NoQuery, Query

\* The invariant behind the type invariant.
Typed == TypeOK /\ Addressed

LEMMA InitTyped == Init => Typed
BY NoStatementType, NoQueryType DEF Init, Typed, TypeOK, Addressed, Active, NoRows, Rows

\* A call of setNode or removeNode.
LEMMA SentTyped ==
  ASSUME Typed, NEW s \in Statements, NEW p \in Paths, NEW v \in Values \cup {None},
         NEW ps \in SUBSET Paths, Sent(s, p, v), Recorded(ps, v), query' = Allowing(ps, v),
         pending' = [pending EXCEPT ![p] = v], table' = table
  PROVE  Typed'
<1> USE DEF Typed
<1>1. [at |-> "sent", path |-> p, value |-> v] \in Statement
  BY DEF Statement
<1>2. statement' \in [Statements -> Statement]
  BY <1>1 DEF Sent, TypeOK
<1>3. \A t \in Statements : Active(t)' => statement'[t].path \in Paths
  BY DEF Sent, Addressed, Active, TypeOK
<1>4. /\ query' \in [Queries -> Query]
      /\ \A q \in Queries : query'[q].at = query[q].at /\ query'[q].path = query[q].path
  <2> DEFINE S == Allowing(ps, v)
  <2>1. /\ S \in [Queries -> Query]
        /\ \A q \in Queries :
             /\ S[q].at = query[q].at
             /\ S[q].path = query[q].path
             /\ S[q].overlay = query[q].overlay
             /\ S[q].row = query[q].row
             /\ S[q].allowed = IF query[q].at = "sent" /\ query[q].path \in ps
                                 THEN query[q].allowed \cup {v} ELSE query[q].allowed
    BY AllowingMeaning
  <2>2. query' = S
    OBVIOUS
  <2> HIDE DEF S
  <2> QED BY <2>1, <2>2
<1>5. pending' \in Rows
  BY DEF TypeOK, Rows
<1>6. /\ burst' \in [Paths -> SUBSET (Values \cup {None})]
      /\ former' \in Rows
      /\ lost' \in SUBSET Paths
  BY RecordedMeaning
<1> QED BY <1>2, <1>3, <1>4, <1>5, <1>6 DEF TypeOK, Addressed

LEMMA NextTyped == Typed /\ [Next]_vars => Typed'
<1> SUFFICES ASSUME Typed, [Next]_vars PROVE Typed'
  OBVIOUS
<1> USE DEF Typed, history
<1>1. ASSUME NEW s \in Statements, NEW p \in Paths, NEW v \in Values, SetNode(s, p, v)
      PROVE  Typed'
  BY <1>1, SentTyped DEF SetNode
<1>2. ASSUME NEW s \in Statements, NEW p \in Paths, RemoveNode(s, p)
      PROVE  Typed'
  <2>1. Subtree[p] \in SUBSET Paths
    BY SqliteAssumption
  <2> QED BY <1>2, <2>1, SentTyped DEF RemoveNode
<1>3. ASSUME NEW s \in Statements, Execute(s)
      PROVE  Typed'
  <2>1. statement[s] \in Statement
    BY DEF TypeOK
  <2>2. table' \in Rows
    BY <1>3, <2>1 DEF Execute, TypeOK, Rows, Statement
  <2>3. [statement[s] EXCEPT !.at = "done"] \in Statement
    BY <2>1 DEF Statement
  <2>4. statement' = [statement EXCEPT ![s] = [statement[s] EXCEPT !.at = "done"]]
    BY <1>3 DEF Execute, TypeOK
  <2>5. statement' \in [Statements -> Statement]
    BY <2>3, <2>4 DEF TypeOK
  <2>6. Addressed'
    BY <1>3, <2>4, <2>1 DEF Execute, Addressed, Active, TypeOK, Statement
  <2> QED BY <1>3, <2>2, <2>5, <2>6 DEF Execute, TypeOK
<1>4. ASSUME NEW s \in Statements, Report(s) \/ Refuse(s)
      PROVE  Typed'
  <2>1. /\ statement' = [statement EXCEPT ![s] = NoStatement]
        /\ pending' = Forgotten(s)
        /\ Active(s)
        /\ UNCHANGED <<table, query, burst, former>>
        /\ lost' = lost \/ lost' = lost \cup Touches(s)
    BY <1>4 DEF Report, Refuse, Active
  <2>2. Forgotten(s) \in Rows
    BY DEF Forgotten, TypeOK, Rows
  <2>3. Touches(s) \in SUBSET Paths
    BY <2>1, TouchesPaths DEF Addressed
  <2>4. statement' \in [Statements -> Statement] /\ Addressed'
    BY <2>1, NoStatementType DEF TypeOK, Addressed, Active
  <2> QED BY <2>1, <2>2, <2>3, <2>4 DEF TypeOK
<1>5. ASSUME NEW q \in Queries, (\E p \in Paths : Ask(q, p)) \/ Select(q) \/ Answer(q)
      PROVE  Typed'
  <2>1. query[q] \in Query
    BY DEF TypeOK
  <2>2. query' \in [Queries -> Query] /\ Addressed'
    <3>1. ASSUME NEW p \in Paths, Ask(q, p)
          PROVE  query' \in [Queries -> Query] /\ Addressed'
      <4> DEFINE allowed == Left(p) \cup (IF Removing(p) THEN {former[p]} ELSE {})
      <4>1. allowed \in SUBSET (Values \cup {None})
        BY DEF Left, TypeOK, Rows
      <4>2. query' = [query EXCEPT ![q] = [at |-> "sent", path |-> p, overlay |-> pending[p],
                                           row |-> None, allowed |-> allowed]]
        BY <3>1 DEF Ask
      <4> HIDE DEF allowed
      <4>3. [at |-> "sent", path |-> p, overlay |-> pending[p],
             row |-> None, allowed |-> allowed] \in Query
        BY <4>1 DEF Query, TypeOK, Rows
      <4>4. statement' = statement
        BY <3>1 DEF Ask
      <4> QED BY <4>2, <4>3, <4>4 DEF TypeOK, Addressed, Active
    <3>2. CASE Select(q)
      <4>1. query' = [query EXCEPT ![q] = [query[q] EXCEPT !.at = "done", !.row = table[query[q].path]]]
        BY <3>2 DEF Select, TypeOK
      <4>2. query[q].path \in Paths
        BY <3>2 DEF Select, Addressed
      <4>3. [query[q] EXCEPT !.at = "done", !.row = table[query[q].path]] \in Query
        BY <2>1, <4>2 DEF Query, TypeOK, Rows
      <4>4. statement' = statement
        BY <3>2 DEF Select
      <4> QED BY <2>1, <4>1, <4>2, <4>3, <4>4 DEF TypeOK, Addressed, Active, Query
    <3>3. CASE Answer(q)
      BY <3>3, NoQueryType DEF Answer, TypeOK, Addressed, Active
    <3> QED BY <1>5, <3>1, <3>2, <3>3
  <2>3. UNCHANGED <<table, pending, statement, history>>
    BY <1>5 DEF Ask, Select, Answer
  <2> QED BY <2>2, <2>3 DEF TypeOK
<1>6. ASSUME Crash PROVE Typed'
  <2>1. lost' \in SUBSET Paths
    BY <1>6 DEF Crash, TypeOK
  <2> QED BY <1>6, <2>1, NoStatementType, NoQueryType
          DEF Crash, TypeOK, Addressed, Active, NoRows, Rows
<1>7. CASE UNCHANGED vars
  BY <1>7 DEF vars, TypeOK, Addressed, Active
<1> QED BY <1>1, <1>2, <1>3, <1>4, <1>5, <1>6, <1>7, RecordsTyped DEF Next

(***************************************************************************)
(* The rows, the map, the statements and the queries are well typed,       *)
(* whatever order the statements run in, refusals and crashes included.    *)
(***************************************************************************)
THEOREM TypeCorrect == Spec => []TypeOK
<1>1. Typed => TypeOK
  BY DEF Typed
<1> QED BY InitTyped, NextTyped, <1>1, PTL DEF Spec

----------------------------------------------------------------------------
(* The map of pending rows.  Nothing is assumed of the callers. *)

LEMMA InitDrains == Init => OverlayDrains
BY DEF Init, OverlayDrains, NoRows

LEMMA NextDrains == Typed /\ OverlayDrains /\ [Next]_vars => OverlayDrains'
<1> SUFFICES ASSUME Typed, OverlayDrains, [Next]_vars PROVE OverlayDrains'
  OBVIOUS
<1> USE DEF Typed
<1>1. ASSUME NEW s \in Statements, NEW p \in Paths, NEW v \in Values, SetNode(s, p, v)
      PROVE  OverlayDrains'
  <2> SUFFICES ASSUME NEW x \in Paths, pending'[x] # None
               PROVE  \E t \in Statements :
                        (Active(t) /\ statement[t].path = x /\ ~Removes(t))'
    BY DEF OverlayDrains
  <2>1. CASE x = p
    <3>1. (Active(s) /\ statement[s].path = x /\ ~Removes(s))'
      BY <1>1, <2>1, SqliteAssumption DEF SetNode, Sent, Active, Removes, TypeOK
    <3> QED BY <3>1
  <2>2. CASE x # p
    <3>1. pending[x] # None
      BY <1>1, <2>2 DEF SetNode, TypeOK, Rows
    <3>2. PICK t \in Statements : Active(t) /\ statement[t].path = x /\ ~Removes(t)
      BY <3>1 DEF OverlayDrains
    <3>3. statement'[t] = statement[t]
      BY <1>1, <3>2 DEF SetNode, Sent, TypeOK
    <3> QED BY <3>2, <3>3 DEF Active, Removes
  <2> QED BY <2>1, <2>2
<1>2. ASSUME NEW s \in Statements, NEW p \in Paths, RemoveNode(s, p)
      PROVE  OverlayDrains'
  <2> SUFFICES ASSUME NEW x \in Paths, pending'[x] # None
               PROVE  \E t \in Statements :
                        (Active(t) /\ statement[t].path = x /\ ~Removes(t))'
    BY DEF OverlayDrains
  <2>1. pending[x] # None
    BY <1>2 DEF RemoveNode, TypeOK, Rows
  <2>2. PICK t \in Statements : Active(t) /\ statement[t].path = x /\ ~Removes(t)
    BY <2>1 DEF OverlayDrains
  <2>3. statement'[t] = statement[t]
    BY <1>2, <2>2 DEF RemoveNode, Sent, TypeOK
  <2> QED BY <2>2, <2>3 DEF Active, Removes
<1>3. ASSUME NEW s \in Statements, Execute(s)
      PROVE  OverlayDrains'
  <2>1. \A t \in Statements : /\ Active(t) => Active(t)'
                             /\ statement'[t].path = statement[t].path
                             /\ statement'[t].value = statement[t].value
    BY <1>3 DEF Execute, TypeOK, Statement, Active
  <2> QED BY <1>3, <2>1 DEF Execute, OverlayDrains, Removes
<1>4. ASSUME NEW s \in Statements, Report(s) \/ Refuse(s)
      PROVE  OverlayDrains'
  <2>1. statement' = [statement EXCEPT ![s] = NoStatement] /\ pending' = Forgotten(s)
    BY <1>4 DEF Report, Refuse
  <2> SUFFICES ASSUME NEW x \in Paths, pending'[x] # None
               PROVE  \E t \in Statements :
                        (Active(t) /\ statement[t].path = x /\ ~Removes(t))'
    BY DEF OverlayDrains
  <2>2. pending[x] # None /\ (Removes(s) \/ x # statement[s].path)
    BY <2>1 DEF Forgotten, TypeOK, Rows
  <2>3. PICK t \in Statements : Active(t) /\ statement[t].path = x /\ ~Removes(t)
    BY <2>2 DEF OverlayDrains
  <2>4. t # s
    BY <2>2, <2>3
  <2>5. statement'[t] = statement[t]
    BY <2>1, <2>4 DEF TypeOK
  <2> QED BY <2>3, <2>5 DEF Active, Removes
<1>5. ASSUME NEW q \in Queries,
             (\E p \in Paths : Ask(q, p)) \/ Select(q) \/ Answer(q)
      PROVE  OverlayDrains'
  <2>1. UNCHANGED <<pending, statement>>
    BY <1>5 DEF Ask, Select, Answer
  <2> QED BY <2>1 DEF OverlayDrains, Active, Removes
<1>6. ASSUME Crash PROVE OverlayDrains'
  BY <1>6 DEF Crash, OverlayDrains, NoRows
<1>7. CASE UNCHANGED vars
  BY <1>7 DEF vars, OverlayDrains, Active, Removes
<1> QED BY <1>1, <1>2, <1>3, <1>4, <1>5, <1>6, <1>7, RecordsTyped DEF Next

(***************************************************************************)
(* A row is in the map only while its upsert is on its way, whatever the   *)
(* callers do and in whatever order the statements run.                    *)
(***************************************************************************)
THEOREM MapDrains == Spec => []OverlayDrains
<1>1. Init => Typed /\ OverlayDrains
  BY InitTyped, InitDrains
<1>2. Typed /\ OverlayDrains /\ [Next]_vars => (Typed /\ OverlayDrains)'
  BY NextTyped, NextDrains
<1> QED BY <1>1, <1>2, PTL DEF Spec

----------------------------------------------------------------------------
(* Rows and reads, whatever statements are on their way together. *)

\* A statement on its way is one of the burst of each path it touches, and
\* once it has run the row of such a path is of the burst.
Going ==
  \A s \in Statements : Active(s) => \A p \in Paths : p \in Touches(s) =>
    /\ statement[s].value \in burst[p]
    /\ statement[s].at = "done" => table[p] \in burst[p]

\* Before one has run, the row is the one before the burst.
Rowed ==
  \A p \in Paths : table[p] \notin burst[p] =>
    /\ table[p] = former[p]
    /\ p \in lost \/ \E s \in Statements : statement[s].at = "sent" /\ p \in Touches(s)

\* The map hides that row.
Covered ==
  \A p \in Paths :
    /\ pending[p] # None => pending[p] \in burst[p]
    /\ pending[p] = None /\ table[p] \notin burst[p] => p \in lost \/ Removing(p)

\* What a read under way has collected, and what it may still find.
Collected ==
  \A q \in Queries : query[q].at = "sent" =>
    /\ query[q].overlay # None => query[q].overlay \in query[q].allowed
    /\ query[q].overlay = None =>
         /\ table[query[q].path] \in query[q].allowed
         /\ \A s \in Statements : Active(s) /\ query[q].path \in Touches(s) =>
              statement[s].value \in query[q].allowed

Inv == Typed /\ OverlayDrains /\ Going /\ Rowed /\ Covered /\ Collected /\ RegularReads

LEMMA InitInv == Init => Inv
<1> SUFFICES ASSUME Init PROVE Inv
  OBVIOUS
<1>1. Typed /\ OverlayDrains
  BY InitTyped, InitDrains
<1>2. (\A s \in Statements : ~Active(s)) /\ (\A q \in Queries : query[q].at = "idle")
  BY DEF Init, Active, NoStatement, NoQuery
<1>3. Going /\ Rowed /\ Covered
  BY <1>2 DEF Init, Going, Rowed, Covered, NoRows
<1> QED BY <1>1, <1>2, <1>3 DEF Inv, Collected, RegularReads

\* A path with a row in the map is not settled.
LEMMA MapUnsettled ==
  ASSUME Typed, OverlayDrains, NEW x \in Paths, pending[x] # None
  PROVE  ~Settled(x)
<1>1. PICK s \in Statements : Active(s) /\ statement[s].path = x /\ ~Removes(s)
  BY DEF OverlayDrains
<1> QED BY <1>1 DEF Settled, Touches

\* A call of setNode or removeNode sends a statement.
LEMMA SentInv ==
  ASSUME Inv, NEW s \in Statements, NEW p \in Paths, NEW v \in Values \cup {None},
         NEW ps \in SUBSET Paths, ps = IF v = None THEN Subtree[p] ELSE {p},
         Sent(s, p, v), Recorded(ps, v), query' = Allowing(ps, v),
         pending' = [pending EXCEPT ![p] = v], table' = table
  PROVE  Going' /\ Rowed' /\ Covered' /\ Collected' /\ RegularReads'
<1> USE DEF Inv, Typed
<1>1. /\ statement'[s].at = "sent" /\ statement'[s].path = p /\ statement'[s].value = v
      /\ \A t \in Statements : t # s => statement'[t] = statement[t]
      /\ ~Active(s)
  BY DEF Sent, TypeOK
<1>2. Active(s)' /\ Touches(s)' = ps /\ (Removes(s)' <=> v = None)
  BY <1>1 DEF Active, Touches, Removes
<1>3. \A t \in Statements : t # s => /\ Active(t)' = Active(t)
                                     /\ Touches(t)' = Touches(t)
                                     /\ Removes(t)' = Removes(t)
  BY <1>1 DEF Active, Touches, Removes
<1>4. \A x \in Paths :
        /\ x \notin ps => /\ burst'[x] = burst[x]
                          /\ former'[x] = former[x]
                          /\ x \in lost' <=> x \in lost
        /\ x \in ps => v \in burst'[x]
        /\ x \in ps /\ ~Settled(x) => /\ burst'[x] = burst[x] \cup {v}
                                      /\ former'[x] = former[x]
                                      /\ x \in lost' <=> x \in lost
        /\ x \in ps /\ Settled(x) => former'[x] = table[x]
  BY RecordedMeaning
<1>5. p \in ps
  BY SqliteAssumption
<1>6. \A x \in Paths : ~Settled(x) => burst[x] \subseteq burst'[x]
  BY <1>4
<1>7. Going'
  <2> SUFFICES ASSUME NEW t \in Statements, Active(t)', NEW x \in Paths, x \in Touches(t)'
               PROVE  /\ statement'[t].value \in burst'[x]
                      /\ statement'[t].at = "done" => table'[x] \in burst'[x]
    BY DEF Going
  <2>1. CASE t = s
    BY <1>1, <1>2, <1>4, <2>1
  <2>2. CASE t # s
    <3>1. Active(t) /\ x \in Touches(t) /\ statement'[t] = statement[t]
      BY <1>1, <1>3, <2>2
    <3>2. ~Settled(x)
      BY <3>1 DEF Settled
    <3> QED BY <1>6, <3>1, <3>2 DEF Going
  <2> QED BY <2>1, <2>2
<1>8. Rowed'
  <2> SUFFICES ASSUME NEW x \in Paths, table[x] \notin burst'[x]
               PROVE  /\ table[x] = former'[x]
                      /\ \/ x \in lost'
                         \/ \E t \in Statements : statement'[t].at = "sent" /\ x \in Touches(t)'
    BY DEF Rowed
  <2>1. CASE x \in ps /\ Settled(x)
    BY <1>1, <1>2, <1>4, <2>1
  <2>2. CASE ~(x \in ps /\ Settled(x))
    <3>1. table[x] \notin burst[x]
      BY <1>4, <2>2
    <3>2. table[x] = former[x] /\ former'[x] = former[x] /\ (x \in lost' <=> x \in lost)
      BY <1>4, <2>2, <3>1 DEF Rowed
    <3>3. ASSUME x \notin lost
          PROVE  \E t \in Statements : statement'[t].at = "sent" /\ x \in Touches(t)'
      <4>1. PICK t \in Statements : statement[t].at = "sent" /\ x \in Touches(t)
        BY <3>1, <3>3 DEF Rowed
      <4>2. t # s
        BY <1>1, <4>1 DEF Active
      <4> QED BY <1>1, <1>3, <4>1, <4>2
    <3> QED BY <3>2, <3>3
  <2> QED BY <2>1, <2>2
<1>9. \A x \in Paths : pending'[x] = IF x = p THEN v ELSE pending[x]
  BY DEF TypeOK, Rows
<1>10. Covered'
  <2> SUFFICES ASSUME NEW x \in Paths
               PROVE  /\ pending'[x] # None => pending'[x] \in burst'[x]
                      /\ pending'[x] = None /\ table[x] \notin burst'[x] =>
                           x \in lost' \/ Removing(x)'
    BY DEF Covered
  <2>1. Removing(x) => Removing(x)'
    <3> SUFFICES ASSUME NEW t \in Statements, Active(t), Removes(t), x \in Touches(t)
                 PROVE  Removing(x)'
      BY DEF Removing
    <3>1. t # s
      BY <1>1
    <3> QED BY <1>3, <3>1 DEF Removing
  <2>2. v = None /\ x \in ps => Removing(x)'
    BY <1>2 DEF Removing
  <2>3. CASE x = p
    BY <1>4, <1>5, <1>9, <2>2, <2>3
  <2>4. CASE x # p
    <3>1. pending'[x] = pending[x] /\ (x \in ps => v = None)
      BY <1>9, <2>4
    <3>2. ASSUME pending[x] # None PROVE pending[x] \in burst'[x]
      <4>1. ~Settled(x) /\ pending[x] \in burst[x]
        BY <3>2, MapUnsettled DEF Covered
      <4> QED BY <1>6, <4>1
    <3>3. ASSUME pending[x] = None, table[x] \notin burst'[x] PROVE x \in lost' \/ Removing(x)'
      <4>1. CASE x \in ps
        BY <2>2, <3>1, <4>1
      <4>2. CASE x \notin ps
        <5>1. table[x] \notin burst[x] /\ (x \in lost' <=> x \in lost)
          BY <1>4, <3>3, <4>2
        <5> QED BY <2>1, <3>3, <5>1 DEF Covered
      <4> QED BY <4>1, <4>2
    <3> QED BY <3>1, <3>2, <3>3
  <2> QED BY <2>3, <2>4
<1>11. \A q \in Queries :
         /\ query'[q].at = query[q].at
         /\ query'[q].path = query[q].path
         /\ query'[q].overlay = query[q].overlay
         /\ query'[q].row = query[q].row
         /\ query'[q].allowed = IF query[q].at = "sent" /\ query[q].path \in ps
                                  THEN query[q].allowed \cup {v} ELSE query[q].allowed
  <2> DEFINE S == Allowing(ps, v)
  <2>1. /\ S \in [Queries -> Query]
        /\ \A q \in Queries :
             /\ S[q].at = query[q].at
             /\ S[q].path = query[q].path
             /\ S[q].overlay = query[q].overlay
             /\ S[q].row = query[q].row
             /\ S[q].allowed = IF query[q].at = "sent" /\ query[q].path \in ps
                                 THEN query[q].allowed \cup {v} ELSE query[q].allowed
    BY AllowingMeaning
  <2>2. query' = S
    OBVIOUS
  <2> HIDE DEF S
  <2> QED BY <2>1, <2>2
<1>12. Collected'
  <2> SUFFICES ASSUME NEW q \in Queries, query'[q].at = "sent"
               PROVE  /\ query'[q].overlay # None => query'[q].overlay \in query'[q].allowed
                      /\ query'[q].overlay = None =>
                           /\ table[query'[q].path] \in query'[q].allowed
                           /\ \A t \in Statements :
                                Active(t)' /\ query'[q].path \in Touches(t)' =>
                                  statement'[t].value \in query'[q].allowed
    BY DEF Collected
  <2>1. /\ query[q].overlay # None => query[q].overlay \in query[q].allowed
        /\ query[q].overlay = None =>
             /\ table[query[q].path] \in query[q].allowed
             /\ \A t \in Statements : Active(t) /\ query[q].path \in Touches(t) =>
                  statement[t].value \in query[q].allowed
    BY <1>11 DEF Collected
  <2>2. ASSUME query[q].overlay = None, NEW t \in Statements,
               Active(t)', query[q].path \in Touches(t)'
        PROVE  statement'[t].value \in query'[q].allowed
    <3>1. CASE t = s
      BY <1>1, <1>2, <1>11, <2>2, <3>1
    <3>2. CASE t # s
      BY <1>1, <1>3, <1>11, <2>1, <2>2, <3>2
    <3> QED BY <3>1, <3>2
  <2>3. /\ query'[q].overlay = query[q].overlay
        /\ query'[q].path = query[q].path
        /\ query[q].allowed \subseteq query'[q].allowed
    BY <1>11
  <2> QED BY <2>1, <2>2, <2>3
<1>13. RegularReads'
  BY <1>11 DEF RegularReads, Result
<1> QED BY <1>7, <1>8, <1>10, <1>12, <1>13

\* A statement runs.
LEMMA ExecuteInv ==
  ASSUME Inv, NEW s \in Statements, Execute(s)
  PROVE  Going' /\ Rowed' /\ Covered' /\ Collected' /\ RegularReads'
<1> USE DEF Inv, Typed, history
<1>1. Active(s) /\ statement[s].at = "sent" /\ UNCHANGED <<pending, query, burst, former, lost>>
  BY DEF Execute, Active
<1>2. \A x \in Paths : table'[x] = IF x \in Touches(s) THEN statement[s].value ELSE table[x]
  BY DEF Execute
<1>3. \A t \in Statements :
        /\ Active(t)' = Active(t) /\ Touches(t)' = Touches(t) /\ Removes(t)' = Removes(t)
        /\ statement'[t].value = statement[t].value
        /\ t # s => statement'[t] = statement[t]
  <2> SUFFICES ASSUME NEW t \in Statements
               PROVE  /\ Active(t)' = Active(t) /\ Touches(t)' = Touches(t)
                      /\ Removes(t)' = Removes(t)
                      /\ statement'[t].value = statement[t].value
                      /\ t # s => statement'[t] = statement[t]
    OBVIOUS
  <2>1. /\ statement'[t].value = statement[t].value
        /\ statement'[t].path = statement[t].path
        /\ t # s => statement'[t] = statement[t]
        /\ t = s => statement'[t].at = "done"
    BY DEF Execute, TypeOK, Statement
  <2> QED BY <1>1, <2>1 DEF Active, Touches, Removes
<1>4. \A x \in Paths : x \in Touches(s) => table'[x] \in burst[x]
  BY <1>1, <1>2 DEF Going
<1>5. Going'
  <2> SUFFICES ASSUME NEW t \in Statements, Active(t)', NEW x \in Paths, x \in Touches(t)'
               PROVE  /\ statement'[t].value \in burst[x]
                      /\ statement'[t].at = "done" => table'[x] \in burst[x]
    BY <1>1 DEF Going
  <2>1. Active(t) /\ x \in Touches(t)
    BY <1>3
  <2>2. statement'[t].value \in burst[x]
    BY <1>3, <2>1 DEF Going
  <2>3. CASE x \in Touches(s)
    BY <1>4, <2>2, <2>3
  <2>4. CASE x \notin Touches(s)
    <3>1. statement'[t] = statement[t] /\ table'[x] = table[x]
      BY <1>2, <1>3, <2>1, <2>4
    <3> QED BY <2>1, <2>2, <3>1 DEF Going
  <2> QED BY <2>3, <2>4
<1>6. Rowed'
  <2> SUFFICES ASSUME NEW x \in Paths, table'[x] \notin burst[x]
               PROVE  /\ table'[x] = former[x]
                      /\ \/ x \in lost
                         \/ \E t \in Statements : statement'[t].at = "sent" /\ x \in Touches(t)'
    BY <1>1 DEF Rowed
  <2>1. x \notin Touches(s) /\ table'[x] = table[x]
    BY <1>2, <1>4
  <2>2. table[x] = former[x]
    BY <2>1 DEF Rowed
  <2>3. ASSUME x \notin lost
        PROVE  \E t \in Statements : statement'[t].at = "sent" /\ x \in Touches(t)'
    <3>1. PICK t \in Statements : statement[t].at = "sent" /\ x \in Touches(t)
      BY <2>1, <2>3 DEF Rowed
    <3>2. t # s
      BY <2>1, <3>1
    <3> QED BY <1>3, <3>1, <3>2
  <2> QED BY <2>1, <2>2, <2>3
<1>7. Covered'
  <2> SUFFICES ASSUME NEW x \in Paths
               PROVE  /\ pending[x] # None => pending[x] \in burst[x]
                      /\ pending[x] = None /\ table'[x] \notin burst[x] =>
                           x \in lost \/ Removing(x)'
    BY <1>1 DEF Covered
  <2>1. Removing(x)' = Removing(x)
    BY <1>3 DEF Removing
  <2>2. table'[x] \notin burst[x] => table[x] \notin burst[x]
    BY <1>2, <1>4
  <2> QED BY <2>1, <2>2 DEF Covered
<1>8. Collected'
  <2> SUFFICES ASSUME NEW q \in Queries, query[q].at = "sent"
               PROVE  /\ query[q].overlay # None => query[q].overlay \in query[q].allowed
                      /\ query[q].overlay = None =>
                           /\ table'[query[q].path] \in query[q].allowed
                           /\ \A t \in Statements :
                                Active(t)' /\ query[q].path \in Touches(t)' =>
                                  statement'[t].value \in query[q].allowed
    BY <1>1 DEF Collected
  <2>1. query[q].path \in Paths
    BY DEF Addressed
  <2> QED BY <1>1, <1>2, <1>3, <2>1 DEF Collected
<1>9. RegularReads'
  BY <1>1 DEF RegularReads, Result
<1> QED BY <1>5, <1>6, <1>7, <1>8, <1>9

\* A statement is reported or refused.
LEMMA OverInv ==
  ASSUME Inv, NEW s \in Statements, Report(s) \/ Refuse(s)
  PROVE  Going' /\ Rowed' /\ Covered' /\ Collected' /\ RegularReads'
<1> USE DEF Inv, Typed, history
<1>1. /\ Active(s) /\ pending' = Forgotten(s)
      /\ statement' = [statement EXCEPT ![s] = NoStatement]
      /\ UNCHANGED <<table, query, burst, former>>
  BY DEF Report, Refuse, Active
<1>2. \A t \in Statements : t # s =>
        /\ statement'[t] = statement[t]
        /\ Active(t)' = Active(t) /\ Touches(t)' = Touches(t) /\ Removes(t)' = Removes(t)
  BY <1>1 DEF TypeOK, Active, Touches, Removes
<1>3. ~Active(s)' /\ statement'[s].at = "free"
  BY <1>1, NoStatementType DEF Active, TypeOK
<1>4. /\ lost \subseteq lost'
      /\ \A x \in Paths : x \in Touches(s) => x \in lost' \/ table[x] \in burst[x]
  <2>1. CASE Report(s)
    BY <1>1, <2>1 DEF Report, Going
  <2>2. CASE Refuse(s)
    BY <2>2 DEF Refuse
  <2> QED BY <2>1, <2>2
<1>5. Going'
  BY <1>1, <1>2, <1>3 DEF Going
<1>6. Rowed'
  <2> SUFFICES ASSUME NEW x \in Paths, table[x] \notin burst[x], x \notin lost'
               PROVE  \E t \in Statements : statement'[t].at = "sent" /\ x \in Touches(t)'
    BY <1>1 DEF Rowed
  <2>1. PICK t \in Statements : statement[t].at = "sent" /\ x \in Touches(t)
    BY <1>4 DEF Rowed
  <2>2. t # s
    BY <1>4, <2>1
  <2> QED BY <1>2, <2>1, <2>2
<1>7. Covered'
  <2> SUFFICES ASSUME NEW x \in Paths
               PROVE  /\ pending'[x] # None => pending'[x] \in burst[x]
                      /\ pending'[x] = None /\ table[x] \notin burst[x] =>
                           x \in lost' \/ Removing(x)'
    BY <1>1 DEF Covered
  <2>1. \/ pending'[x] = pending[x]
        \/ pending'[x] = None /\ ~Removes(s) /\ x = statement[s].path
    BY <1>1 DEF Forgotten, TypeOK, Rows
  <2>2. ASSUME table[x] \notin burst[x], x \notin lost', Removing(x) PROVE Removing(x)'
    <3>1. PICK t \in Statements : Active(t) /\ Removes(t) /\ x \in Touches(t)
      BY <2>2 DEF Removing
    <3>2. t # s
      BY <1>4, <2>2, <3>1
    <3> QED BY <1>2, <3>1, <3>2 DEF Removing
  <2>3. CASE pending'[x] = pending[x]
    BY <1>4, <2>2, <2>3 DEF Covered
  <2>4. CASE pending'[x] = None /\ ~Removes(s) /\ x = statement[s].path
    <3>1. x \in Touches(s)
      BY <2>4 DEF Touches
    <3> QED BY <1>4, <2>4, <3>1
  <2> QED BY <2>1, <2>3, <2>4
<1>8. Collected'
  BY <1>1, <1>2, <1>3 DEF Collected
<1>9. RegularReads'
  BY <1>1 DEF RegularReads, Result
<1> QED BY <1>5, <1>6, <1>7, <1>8, <1>9

\* A query takes the map and the table at two times and still finds rows
\* it may return.
LEMMA QueryInv ==
  ASSUME Inv, NEW q \in Queries, (\E p \in Paths : Ask(q, p)) \/ Select(q) \/ Answer(q)
  PROVE  Going' /\ Rowed' /\ Covered' /\ Collected' /\ RegularReads'
<1> USE DEF Inv, Typed, history
<1>1. UNCHANGED <<table, pending, statement, burst, former, lost>>
      /\ \A r \in Queries : r # q => query'[r] = query[r]
  BY DEF Ask, Select, Answer, TypeOK
<1>2. Going' /\ Rowed' /\ Covered'
  BY <1>1 DEF Going, Rowed, Covered, Removing, Active, Touches, Removes
<1>3. query[q] \in Query
  BY DEF TypeOK
<1>4. \A t \in Statements : Active(t)' = Active(t) /\ Touches(t)' = Touches(t)
  BY <1>1 DEF Active, Touches, Removes
<1>5. ASSUME NEW p \in Paths, Ask(q, p)
      PROVE  Collected' /\ RegularReads'
  <2>1. /\ query'[q].at = "sent"
        /\ query'[q].path = p
        /\ query'[q].overlay = pending[p]
        /\ query'[q].allowed = Left(p) \cup (IF Removing(p) THEN {former[p]} ELSE {})
    BY <1>5 DEF Ask, TypeOK
  <2>2. pending[p] # None => pending[p] \in query'[q].allowed
    BY <2>1 DEF Covered, Left
  <2>3. pending[p] = None => table[p] \in query'[q].allowed
    <3>1. CASE table[p] \in burst[p]
      BY <2>1, <3>1 DEF Left
    <3>2. CASE table[p] \notin burst[p]
      BY <2>1, <3>2 DEF Left, Covered, Rowed
    <3> QED BY <3>1, <3>2
  <2>4. \A t \in Statements : Active(t) /\ p \in Touches(t) =>
          statement[t].value \in query'[q].allowed
    BY <2>1 DEF Going, Left
  <2>5. Collected'
    BY <1>1, <1>4, <2>1, <2>2, <2>3, <2>4 DEF Collected
  <2>6. RegularReads'
    BY <1>1, <2>1 DEF RegularReads, Result
  <2> QED BY <2>5, <2>6
<1>6. CASE Select(q)
  <2>1. /\ query[q].at = "sent"
        /\ query'[q].at = "done"
        /\ query'[q].overlay = query[q].overlay
        /\ query'[q].row = table[query[q].path]
        /\ query'[q].allowed = query[q].allowed
    BY <1>3, <1>6 DEF Select, TypeOK, Query
  <2>2. Collected'
    BY <1>1, <1>4, <2>1 DEF Collected
  <2>3. Result(q)' \in query'[q].allowed
    BY <2>1 DEF Collected, Result
  <2>4. \A r \in Queries : r # q => Result(r)' = Result(r)
    BY <1>1 DEF Result
  <2>5. RegularReads'
    BY <1>1, <2>1, <2>3, <2>4 DEF RegularReads
  <2> QED BY <1>2, <2>2, <2>5
<1>7. CASE Answer(q)
  <2>1. query'[q].at = "idle"
    BY <1>7, NoQueryType DEF Answer, TypeOK
  <2>2. Collected'
    BY <1>1, <1>4, <2>1 DEF Collected
  <2>3. RegularReads'
    BY <1>1, <2>1 DEF RegularReads, Result
  <2> QED BY <1>2, <2>2, <2>3
<1> QED BY <1>2, <1>5, <1>6, <1>7

\* A crash takes the map and what was on its way.
LEMMA CrashInv ==
  ASSUME Inv, Crash
  PROVE  Going' /\ Rowed' /\ Covered' /\ Collected' /\ RegularReads'
<1> USE DEF Inv, Typed
<1>1. /\ \A s \in Statements : ~Active(s)'
      /\ \A q \in Queries : query'[q].at = "idle"
      /\ pending' = NoRows
      /\ UNCHANGED <<table, burst, former>>
      /\ lost' = lost \cup {p \in Paths : ~Settled(p)}
  BY NoStatementType, NoQueryType DEF Crash, Active
<1>2. \A x \in Paths : table[x] \notin burst[x] => x \in lost' /\ table[x] = former[x]
  <2> SUFFICES ASSUME NEW x \in Paths, table[x] \notin burst[x]
               PROVE  x \in lost' /\ table[x] = former[x]
    OBVIOUS
  <2>1. table[x] = former[x]
    BY DEF Rowed
  <2>2. CASE x \in lost
    BY <1>1, <2>1, <2>2
  <2>3. CASE x \notin lost
    <3>1. PICK s \in Statements : statement[s].at = "sent" /\ x \in Touches(s)
      BY <2>3 DEF Rowed
    <3>2. ~Settled(x)
      BY <3>1 DEF Settled, Active
    <3> QED BY <1>1, <2>1, <3>2
  <2> QED BY <2>2, <2>3
<1> QED BY <1>1, <1>2 DEF Going, Rowed, Covered, Collected, RegularReads, NoRows

LEMMA NextInv == Inv /\ [Next]_vars => Inv'
<1> SUFFICES ASSUME Inv, [Next]_vars PROVE Inv'
  OBVIOUS
<1>1. Typed' /\ OverlayDrains'
  BY NextTyped, NextDrains DEF Inv
<1> DEFINE Rest == Going' /\ Rowed' /\ Covered' /\ Collected' /\ RegularReads'
<1>2. ASSUME NEW s \in Statements, NEW p \in Paths, NEW v \in Values, SetNode(s, p, v)
      PROVE  Rest
  BY <1>2, SentInv, SqliteAssumption DEF SetNode
<1>3. ASSUME NEW s \in Statements, NEW p \in Paths, RemoveNode(s, p)
      PROVE  Rest
  <2>1. Subtree[p] \in SUBSET Paths
    BY SqliteAssumption
  <2> QED BY <1>3, <2>1, SentInv DEF RemoveNode
<1>4. ASSUME NEW s \in Statements, Execute(s) \/ Report(s) \/ Refuse(s)
      PROVE  Rest
  BY <1>4, ExecuteInv, OverInv
<1>5. ASSUME NEW q \in Queries, (\E p \in Paths : Ask(q, p)) \/ Select(q) \/ Answer(q)
      PROVE  Rest
  BY <1>5, QueryInv
<1>6. ASSUME Crash PROVE Rest
  BY <1>6, CrashInv
<1>7. ASSUME UNCHANGED vars PROVE Rest
  BY <1>7 DEF vars, Inv, Going, Rowed, Covered, Collected, RegularReads, Result,
              Removing, Active, Touches, Removes
<1> QED BY <1>1, <1>2, <1>3, <1>4, <1>5, <1>6, <1>7, RecordsTyped DEF Next, Inv

(***************************************************************************)
(* Reads are regular, however many statements are on their way to a path:  *)
(* they return what one of the last calls wrote although setNode answers   *)
(* early.                                                                  *)
(***************************************************************************)
THEOREM ReadsAreRegular == Spec => []RegularReads
<1>1. Inv => RegularReads
  BY DEF Inv
<1> QED BY InitInv, NextInv, <1>1, PTL DEF Spec

(***************************************************************************)
(* A path at rest has the row of one of the last calls, in whatever order  *)
(* their statements ran.                                                   *)
(***************************************************************************)
THEOREM LastWriteStaysHolds == Spec => []LastWriteStays
<1>1. Inv => LastWriteStays
  <2> SUFFICES ASSUME Inv, NEW p \in Paths, Settled(p) PROVE table[p] \in Left(p)
    BY DEF LastWriteStays
  <2>1. \A s \in Statements : ~(statement[s].at = "sent" /\ p \in Touches(s))
    BY DEF Settled, Active
  <2> QED BY <2>1 DEF Inv, Rowed, Left
<1> QED BY InitInv, NextInv, <1>1, PTL DEF Spec
=============================================================================
