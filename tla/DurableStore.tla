---------------------------- MODULE DurableStore ----------------------------
(***************************************************************************)
(* What a backend that answers from memory and saves in the background     *)
(* promises: readers see every write at once, the disk holds a state that  *)
(* memory went through, and a restart falls back to that state as a whole, *)
(* never to a mixture of two.                                              *)
(***************************************************************************)
CONSTANTS Keys, Contents, Unreadable

VARIABLES
  current,    \* what readers see
  durable     \* what a restart would bring back

Init == durable = current

Write == /\ current # Unreadable
         /\ \E k \in Keys, c \in Contents : current' = [current EXCEPT ![k] = c]
         /\ UNCHANGED durable

Save == /\ durable' = current
        /\ UNCHANGED current

Restart == /\ current' = durable
           /\ UNCHANGED durable

\* The process dies within a save.
Spoil == /\ durable' = Unreadable
         /\ current' = Unreadable

Next == Write \/ Save \/ Restart \/ Spoil

Spec == Init /\ [][Next]_<<current, durable>>
=============================================================================
