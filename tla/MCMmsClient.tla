----------------------------- MODULE MCMmsClient -----------------------------
(* Three calls on a connection that can be made twice, and a report. *)
EXTENDS MmsClient
==============================================================================
