------------------------------- MODULE Registry -------------------------------
(***************************************************************************)
(* What the user of the DSLink relies on: at most one server per key, that *)
(* comes by Add or Edit, goes by Remove or Edit, and is connected or not.  *)
(* An Edit is two steps: between them neither server is there.             *)
(***************************************************************************)

CONSTANTS Keys, None

VARIABLES
  servers,   \* the keys of the servers in the tree
  known,     \* those whose connection the handlers find
  online,    \* those with an association
  job,       \* "none", "work" on one server, "leave" and then perhaps "enter"
  heir,      \* the key of the server that follows the one that leaves
  leaving,   \* the server that leaves still has its association
  sound,     \* no call of the SDK has failed
  alive      \* the process has not died

vars == <<servers, known, online, job, heir, leaving, sound, alive>>

Init ==
  /\ servers = {} /\ known = {} /\ online = {}
  /\ job = "none" /\ heir = None /\ leaving = FALSE
  /\ sound = TRUE /\ alive = TRUE

(* What fails stays failed. *)
MayFail == sound' \in BOOLEAN /\ (sound' => sound)

(* A server without an entry in serverMap is left by a failed call only. *)
Appear(k) ==
  /\ k \notin servers
  /\ servers' = servers \cup {k}
  /\ known' \in {known, known \cup {k}}
  /\ online' \in {online, online \cup {k}}
  /\ MayFail /\ (k \in known' \/ ~sound')

Add(k) == job = "none" /\ Appear(k) /\ UNCHANGED <<job, heir, leaving>>

AddFails ==
  /\ job = "none" /\ sound' = FALSE
  /\ UNCHANGED <<servers, known, online, job, heir, leaving>>

(* Remove, or the first step of an Edit to the key "to". *)
Depart(k, to) ==
  /\ job = "none" /\ k \in known
  /\ servers' = servers \ {k} /\ known' = known \ {k} /\ online' = online \ {k}
  /\ job' = "leave" /\ heir' = to
  /\ leaving' = (k \in online)
  /\ UNCHANGED sound

Silence ==
  /\ leaving /\ leaving' = FALSE
  /\ UNCHANGED <<servers, known, online, job, heir, sound>>

(* The server is gone once its association has ended. *)
Gone ==
  /\ job = "leave" /\ ~leaving
  /\ job' = IF heir = None THEN "none" ELSE "enter"
  /\ UNCHANGED <<servers, known, online, heir, leaving, sound>>

(* The edited server is lost if another one has the new key or a call of   *)
(* the SDK fails, and only then.                                           *)
Enter ==
  /\ job = "enter" /\ job' = "none" /\ heir' = None
  /\ \/ Appear(heir)
     \/ /\ UNCHANGED <<servers, known, online>>
        /\ MayFail /\ (heir \in servers \/ ~sound')
  /\ UNCHANGED leaving

Reconnect(k) ==
  /\ job = "none" /\ k \in known
  /\ online' = online \cup {k}
  /\ UNCHANGED <<servers, known, job, heir, leaving, sound>>

Lose(k) ==
  /\ online' = online \ {k}
  /\ UNCHANGED <<servers, known, job, heir, leaving, sound>>

Work ==
  /\ job = "none" /\ known # {} /\ job' = "work"
  /\ UNCHANGED <<servers, known, online, heir, leaving, sound>>

WorkEnds ==
  /\ job = "work" /\ job' = "none"
  /\ UNCHANGED <<servers, known, online, heir, leaving, sound>>

(* A DSLink without associations, without a server that a failed call has  *)
(* left half made, and without work under way does not die.                *)
Die ==
  /\ job = "work" \/ online # {} \/ leaving \/ servers # known
  /\ alive' = FALSE
  /\ UNCHANGED <<servers, known, online, job, heir, leaving, sound>>

Next ==
  /\ alive
  /\ \/ /\ UNCHANGED alive
        /\ \/ AddFails \/ Silence \/ Gone \/ Enter \/ Work \/ WorkEnds
           \/ \E k \in Keys : Add(k) \/ Reconnect(k) \/ Lose(k)
           \/ \E k \in Keys, to \in Keys \cup {None} : Depart(k, to)
     \/ Die

Spec == Init /\ [][Next]_vars
===============================================================================
