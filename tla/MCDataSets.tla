----------------------------- MODULE MCDataSets -----------------------------
(* A configured data set, one that users create and delete, two attributes. *)
EXTENDS DataSets

CONSTANTS dsFixed, dsUser, a, b
MCNames == {dsFixed, dsUser}
MCMembers == {a, b}
MCFixed == {dsFixed}
MCSets0 == [n \in MCNames |-> IF n = dsFixed THEN {a} ELSE None]
=============================================================================
