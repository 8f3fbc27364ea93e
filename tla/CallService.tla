----------------------------- MODULE CallService -----------------------------
(***************************************************************************)
(* What the callers of libIEC61850 rely on: a request gets one outcome,    *)
(* its own answer or an error.  A call that fails leaves the connection    *)
(* unsound: later answers may then be taken from the wrong message.        *)
(***************************************************************************)

VARIABLES
  phase,     \* "free", "busy" during a call, "dead" when the process died
  outcome,   \* of the call: "none" so far, its "own" answer, "refused" by the server,
             \* "failed" without answer, or "other": taken from another message
  sound      \* no call has failed so far

vars == <<phase, outcome, sound>>

Init == phase = "free" /\ outcome = "none" /\ sound = TRUE

Begin == phase = "free" /\ phase' = "busy" /\ outcome' = "none" /\ UNCHANGED sound

Pending == phase = "busy" /\ outcome = "none"

Answered ==
  /\ Pending
  /\ outcome' \in {"own", "refused"} \cup (IF sound THEN {} ELSE {"other"})
  /\ UNCHANGED <<phase, sound>>

Failed ==
  /\ Pending
  /\ outcome' = "failed" /\ sound' = FALSE
  /\ UNCHANGED phase

Return ==
  /\ phase = "busy" /\ outcome # "none"
  /\ phase' = "free"
  /\ UNCHANGED <<outcome, sound>>

Die == phase # "dead" /\ phase' = "dead" /\ UNCHANGED <<outcome, sound>>

Finish == Answered \/ Failed \/ Return

Next == Begin \/ Finish \/ Die

Spec == Init /\ [][Next]_vars /\ WF_vars(Finish)
==============================================================================
