--------------------------- MODULE JsonFileProofs ---------------------------
(***************************************************************************)
(* Proofs about JsonFileStorage, for callers that wait for "ready".        *)
(***************************************************************************)
EXTENDS JsonFileStorage, TLAPS

\* The process writes and saves only when it is ready; what readFile has
\* read is still in the file when Load takes it over.
Course ==
  /\ saving \/ timer # "off" => phase = "ready"
  /\ saving => file = Torn
  /\ phase = "loading" => memory = NoRows /\ image \in {Unread, file}

Inv == TypeOK /\ Course /\ NothingForgotten

LEMMA RowsExcept ==
  ASSUME NEW r \in Rows, NEW k \in Keys, NEW c \in Contents \cup {None}
  PROVE  [r EXCEPT ![k] = c] \in Rows
  BY DEF Rows

LEMMA NoRowsIsRows == NoRows \in Rows
  BY DEF Rows, NoRows

\* Load leaves exactly what the file held.
LEMMA LoadedIsImage ==
  ASSUME image \in Rows, memory = NoRows
  PROVE  Loaded = image
<1>1. ASSUME NEW k \in Keys PROVE Loaded[k] = image[k]
  <2>1. CASE Named(k[1])
    BY <2>1, <1>1 DEF Loaded
  <2>2. CASE ~Named(k[1])
    <3>1. k = <<k[1], k[2]>> /\ k[2] \in Paths
      BY <1>1 DEF Keys
    <3>2. image[k] = None
      BY <2>2, <3>1 DEF Named
    <3> QED
      BY <2>2, <3>2, <1>1 DEF Loaded, NoRows
  <2> QED
    BY <2>1, <2>2
<1> QED
  BY <1>1 DEF Loaded, Rows

LEMMA InitInv == Init => Inv
  BY NoRowsIsRows DEF Init, Inv, TypeOK, Course, NothingForgotten

\* One case for every action.
LEMMA StepInv ==
  ASSUME Patient, Inv, [Next]_vars
  PROVE  Inv'
<1> USE JsonFileAssumption
<1>1. CASE ReadFile
  BY <1>1 DEF ReadFile, Inv, TypeOK, Course, NothingForgotten
<1>2. CASE Load
  <2>1. image \in Rows /\ image = file /\ memory = NoRows
    BY <1>2 DEF Load, Inv, TypeOK, Course
  <2>2. Loaded = file
    BY <2>1, LoadedIsImage
  <2> QED
    BY <1>2, <2>1, <2>2 DEF Load, Running, Inv, TypeOK, Course, NothingForgotten
<1>3. CASE LoadFails
  BY <1>3 DEF LoadFails, Running, Inv, TypeOK, Course, NothingForgotten
<1>4. ASSUME NEW k \in Keys, NEW c \in Contents \cup {None}, Write(k, c)
      PROVE  Inv'
  <2>1. memory' \in Rows
    BY <1>4, RowsExcept DEF Write, Inv, TypeOK
  <2> QED
    BY <1>4, <2>1 DEF Write, Running, Inv, TypeOK, Course, NothingForgotten
<1>5. CASE Elapse
  BY <1>5 DEF Elapse, Inv, TypeOK, Course, NothingForgotten
<1>6. CASE SaveFile
  BY <1>6 DEF SaveFile, Running, Inv, TypeOK, Course, NothingForgotten
<1>7. CASE SaveEnds
  BY <1>7 DEF SaveEnds, Inv, TypeOK, Course, NothingForgotten
<1>8. CASE Crash
  BY <1>8 DEF Crash, Inv, TypeOK, Course, NothingForgotten
<1>9. CASE Start
  BY <1>9, NoRowsIsRows DEF Start, Inv, TypeOK, Course, NothingForgotten
<1>10. CASE UNCHANGED vars
  BY <1>10 DEF vars, Inv, TypeOK, Course, NothingForgotten
<1> QED
  BY <1>1, <1>2, <1>3, <1>4, <1>5, <1>6, <1>7, <1>8, <1>9, <1>10 DEF Next

THEOREM InvHolds == ASSUME Patient PROVE Spec => []Inv
<1>1. Inv /\ [Next]_vars => Inv'
  BY StepInv
<1> QED
  BY <1>1, InitInv, PTL DEF Spec

(***************************************************************************)
(* The types of the variables, for every set of databases and paths.       *)
(***************************************************************************)
THEOREM TypeCorrect == ASSUME Patient PROVE Spec => []TypeOK
<1>1. Inv => TypeOK
  BY DEF Inv
<1> QED
  BY <1>1, InvHolds, PTL

(***************************************************************************)
(* clearTimeout never drops the save of a write: with no save due or       *)
(* running the file is what memory is.                                     *)
(***************************************************************************)
THEOREM NothingIsForgotten == ASSUME Patient PROVE Spec => []NothingForgotten
<1>1. Inv => NothingForgotten
  BY DEF Inv
<1> QED
  BY <1>1, InvHolds, PTL

----------------------------------------------------------------------------
\* The view of memory and file as a DurableStore.
Current == IF Loading THEN file ELSE memory
Durable == IF saving THEN memory ELSE file

LEMMA InitRefines == Init => DS!Init
  BY DEF Init, DS!Init, Loading

\* A save is one step: the emptying of the file.
LEMMA StepRefines ==
  ASSUME Inv, Inv', Patient, [Next]_vars
  PROVE  [DS!Next]_<<Current, Durable>>
<1> USE JsonFileAssumption DEF Current, Durable, Loading
<1>1. CASE ReadFile
  BY <1>1 DEF ReadFile
<1>2. CASE Load
  <2>1. image \in Rows /\ image = file /\ memory = NoRows
    BY <1>2 DEF Load, Inv, TypeOK, Course
  <2>2. Loaded = file
    BY <2>1, LoadedIsImage
  <2> QED
    BY <1>2, <2>2 DEF Load, Running
<1>3. CASE LoadFails
  BY <1>3 DEF LoadFails, Running
<1>4. ASSUME NEW k \in Keys, NEW c \in Contents \cup {None}, Write(k, c)
      PROVE  [DS!Next]_<<Current, Durable>>
  <2>1. phase = "ready" /\ ~saving /\ memory # Torn
    BY <1>4 DEF Write, Running, Inv, TypeOK
  <2>2. DS!Write
    BY <1>4, <2>1 DEF Write, DS!Write
  <2> QED
    BY <2>2 DEF DS!Next
<1>5. CASE Elapse
  BY <1>5 DEF Elapse
<1>6. CASE SaveFile
  <2>1. phase = "ready"
    BY <1>6 DEF SaveFile, Inv, Course
  <2>2. DS!Save
    BY <1>6, <2>1 DEF SaveFile, DS!Save
  <2> QED
    BY <2>2 DEF DS!Next
<1>7. CASE SaveEnds
  BY <1>7 DEF SaveEnds, Inv, Course
<1>8. CASE Crash
  <2>1. CASE saving
    <3>1. DS!Spoil
      BY <1>8, <2>1 DEF Crash, Inv, Course, DS!Spoil
    <3> QED
      BY <3>1 DEF DS!Next
  <2>2. CASE ~saving
    <3>1. DS!Restart
      BY <1>8, <2>2 DEF Crash, DS!Restart
    <3> QED
      BY <3>1 DEF DS!Next
  <2> QED
    BY <2>1, <2>2
<1>9. CASE Start
  BY <1>9 DEF Start, Inv, Course, TypeOK
<1>10. CASE UNCHANGED vars
  BY <1>10 DEF vars
<1> QED
  BY <1>1, <1>2, <1>3, <1>4, <1>5, <1>6, <1>7, <1>8, <1>9, <1>10 DEF Next

(***************************************************************************)
(* Loading, debounced saves and crashes implement DurableStore: a restart  *)
(* brings back one state memory went through, or the spoiled file that a   *)
(* crash within writeFileSync leaves.                                      *)
(***************************************************************************)
THEOREM ImplementsDurableStore == ASSUME Patient PROVE Spec => IsDurableStore
<1>1. Inv /\ Inv' /\ [Next]_vars => [DS!Next]_<<Current, Durable>>
  BY StepRefines
<1> QED
  BY <1>1, InitRefines, InvHolds, PTL DEF Spec, IsDurableStore, DS!Spec, Current, Durable
=============================================================================
