-------------------------- MODULE JsonFileStorage --------------------------
(***************************************************************************)
(* The JSON file backend: every database is a Map in memory, and the file  *)
(* holds all of them.  A start reads the file in the background and takes  *)
(* the Maps from it.  Every write restarts a timer of one second, whose    *)
(* end rewrites the whole file in place.                                   *)
(***************************************************************************)
CONSTANTS
  Databases,
  Paths,
  Contents,      \* what a row may hold
  None,          \* no row
  Torn,          \* a file that is not JSON
  Unread,
  Patient        \* whether callers wait for the "ready" event

Keys == Databases \X Paths
Rows == [Keys -> Contents \cup {None}]
NoRows == [k \in Keys |-> None]

ASSUME JsonFileAssumption ==
  /\ None \notin Contents
  /\ Torn \notin Rows
  /\ Unread \notin Rows \cup {Torn}
  /\ Patient \in BOOLEAN

VARIABLES
  memory,        \* the Maps
  file,          \* the file
  phase,         \* of the process: down, loading or ready
  image,         \* what readFile has read
  timer,         \* of the save: off, waiting, or due
  saving         \* whether writeFileSync has emptied the file

vars == <<memory, file, phase, image, timer, saving>>

TypeOK ==
  /\ memory \in Rows
  /\ file \in Rows \cup {Torn}
  /\ phase \in {"down", "loading", "ready"}
  /\ image \in Rows \cup {Torn, Unread}
  /\ timer \in {"off", "waiting", "due"}
  /\ saving \in BOOLEAN

\* The constructor has made the file if there was none.
Init ==
  /\ memory = NoRows
  /\ file = NoRows
  /\ phase = "loading"
  /\ image = Unread
  /\ timer = "off"
  /\ saving = FALSE

Running == phase # "down" /\ ~saving

ReadFile ==
  /\ phase = "loading"
  /\ image = Unread
  /\ image' = file
  /\ UNCHANGED <<memory, file, phase, timer, saving>>

\* The file names only databases that had a row.
Named(d) == \E p \in Paths : image[<<d, p>>] # None

Loaded_Only == [k \in {n \in Keys : Named(n[1])} |-> image[k]]

Loaded == [k \in Keys |-> IF Named(k[1]) THEN image[k] ELSE memory[k]]

\* The callback of readFile replaces the Maps of the databases named.
Load ==
  /\ Running
  /\ phase = "loading"
  /\ image \notin {Torn, Unread}
  /\ memory' = Loaded
  /\ phase' = "ready"
  /\ UNCHANGED <<file, image, timer, saving>>

\* JSON.parse throws in that callback: nobody catches it.
LoadFails ==
  /\ Running
  /\ phase = "loading"
  /\ image = Torn
  /\ phase' = "down"
  /\ timer' = "off"
  /\ UNCHANGED <<memory, file, image, saving>>

Write_Unscheduled(k, c) ==
  /\ Running
  /\ Patient => phase = "ready"
  /\ memory' = [memory EXCEPT ![k] = c]
  /\ timer' = IF timer = "due" THEN "due" ELSE "off"
  /\ UNCHANGED <<file, phase, image, saving>>

\* setNode, or removeNode when c is None; both restart the timer.
Write(k, c) ==
  /\ Running
  /\ Patient => phase = "ready"
  /\ memory' = [memory EXCEPT ![k] = c]
  /\ timer' = "waiting"
  /\ UNCHANGED <<file, phase, image, saving>>

\* A second has passed since the last write.
Elapse ==
  /\ timer = "waiting"
  /\ timer' = "due"
  /\ UNCHANGED <<memory, file, phase, image, saving>>

\* The timer calls back; writeFileSync first empties the file.
SaveFile ==
  /\ Running
  /\ timer = "due"
  /\ file' = Torn
  /\ timer' = "off"
  /\ saving' = TRUE
  /\ UNCHANGED <<memory, phase, image>>

SaveEnds_Stale ==
  /\ saving
  /\ file' = IF image \in {Torn, Unread} THEN memory ELSE image
  /\ saving' = FALSE
  /\ UNCHANGED <<memory, phase, image, timer>>

SaveEnds ==
  /\ saving
  /\ file' = memory
  /\ saving' = FALSE
  /\ UNCHANGED <<memory, phase, image, timer>>

\* The process dies, within writeFileSync too.
Crash ==
  /\ phase # "down"
  /\ phase' = "down"
  /\ timer' = "off"
  /\ saving' = FALSE
  /\ UNCHANGED <<memory, file, image>>

\* A new process: empty Maps.
Start ==
  /\ phase = "down"
  /\ phase' = "loading"
  /\ memory' = NoRows
  /\ image' = Unread
  /\ UNCHANGED <<file, timer, saving>>

Next ==
  \/ ReadFile \/ Load \/ LoadFails
  \/ \E k \in Keys, c \in Contents \cup {None} : Write(k, c)
  \/ Elapse \/ SaveFile \/ SaveEnds
  \/ Crash \/ Start

Spec == Init /\ [][Next]_vars

\* The thread pool, timers and the rest of a callback run; writes and
\* crashes may happen, a supervisor starts the process again.
FairSpec ==
  /\ Spec
  /\ WF_vars(ReadFile) /\ WF_vars(Load) /\ WF_vars(LoadFails)
  /\ WF_vars(Elapse) /\ WF_vars(SaveFile) /\ WF_vars(SaveEnds)
  /\ WF_vars(Start)

----------------------------------------------------------------------------
Loading == phase # "ready"

DS == INSTANCE DurableStore WITH
        Contents <- Contents \cup {None},
        Unreadable <- Torn,
        current <- IF Loading THEN file ELSE memory,
        durable <- IF saving THEN memory ELSE file

(***************************************************************************)
(* Loading, the debounced save and crashes at any point keep the promise   *)
(* of DurableStore: a restart brings back one state that memory went       *)
(* through, whatever was being loaded or saved; only a crash within        *)
(* writeFileSync spoils the file.                                          *)
(***************************************************************************)
IsDurableStore == DS!Spec

(***************************************************************************)
(* Nothing is forgotten: when no save is due or running, the file holds    *)
(* what memory holds, so clearTimeout never drops the save of a write.     *)
(***************************************************************************)
NothingForgotten == phase = "ready" /\ timer = "off" /\ ~saving => file = memory

(***************************************************************************)
(* A write reaches the disk, provided that writes pause and the process    *)
(* lives: the timer that every write restarts fires in the end.            *)
(***************************************************************************)
Writes == \E k \in Keys, c \in Contents \cup {None} : Write(k, c)

SavedWhenQuiet ==
  \/ []<><<Writes>>_vars
  \/ []<><<Crash \/ LoadFails>>_vars
  \/ []<>(phase = "ready" /\ file = memory)
=============================================================================
