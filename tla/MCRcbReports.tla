---------------------------- MODULE MCRcbReports ----------------------------
(* Two control blocks and two data sets: "small" has one attribute, "large"  *)
(* has two, the first of the type of the one in "small".                     *)
EXTENDS RcbReports, TLC

CONSTANTS r1, r2, id1, id2, small, large, a1, a2, a3, p1, p2

MCMembers == small :> <<a1>> @@ large :> <<a2, a3>>
MCType == a1 :> "int" @@ a2 :> "int" @@ a3 :> "float"
MCOrder == <<r1, r2>>

Read0(id, d) == [rptId |-> id, rptEna |-> FALSE, datSet |-> d, other |-> p1]
MCConfig0 == r1 :> Read0(id1, small) @@ r2 :> Read0(id2, large)

(* One control block, which may be given the id of nobody. *)
OneOrder == <<r1>>
OneConfig0 == r1 :> Read0(id1, large)

Regular == {"rptEna", "other"}
Settings == {"rptEna", "datSet"}
=============================================================================
