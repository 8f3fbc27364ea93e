------------------------------ MODULE Connection ------------------------------
(***************************************************************************)
(* What the life of a connection is for the server registry: it is made,   *)
(* lost and made again, and destroying it returns when its thread has      *)
(* ended the association.                                                  *)
(***************************************************************************)

VARIABLES
  state,    \* of the IedConnection: "down", "up", "closing", "gone"
  linked,   \* there is an association and its thread reads from it
  clean     \* no connect has met a thread that was closing

vars == <<state, linked, clean>>

Init == state = "down" /\ linked = FALSE /\ clean = TRUE

(* A loss before the state is set is overwritten: up without association. *)
Connect == state = "down" /\ state' = "up" /\ linked' \in BOOLEAN

Lose == state = "up" /\ linked /\ state' = "down" /\ linked' = FALSE

Close == state \in {"down", "up"} /\ state' = "closing" /\ UNCHANGED linked

Stop == state = "closing" /\ linked /\ linked' = FALSE /\ UNCHANGED state

Gone == state = "closing" /\ ~linked /\ state' = "gone" /\ UNCHANGED linked

(* Nothing is promised of a connection that is made while the thread of    *)
(* its last association is still closing.                                  *)
Race == clean' = FALSE

Next == (UNCHANGED clean /\ (Connect \/ Lose \/ Close \/ Stop \/ Gone)) \/ Race

Spec == Init /\ [][Next]_vars
===============================================================================
