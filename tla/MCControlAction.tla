--------------------------- MODULE MCControlAction ---------------------------
(* Two controllable objects of any two control models. *)
EXTENDS ControlAction, TLC

CONSTANTS door, gate
MCObjects == {door, gate}
Symmetry == Permutations(MCObjects)
=============================================================================
