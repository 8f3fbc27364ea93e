----------------------------- MODULE Operations -----------------------------
(***************************************************************************)
(* What the invocations of controlAction are for the objects of a server:  *)
(* each operates its object at most once, whatever times out or is lost,   *)
(* and an object that is selected first is operated by the invocation that *)
(* holds it.                                                               *)
(***************************************************************************)
EXTENDS Naturals, Sequences

CONSTANTS Objects

VARIABLES
  needs,  \* objects that are selected before they are operated
  once,   \* objects that are let go when their operation is over
  asked,  \* the object of each invocation so far
  open,   \* invocations that may still operate
  held,   \* the invocation that has selected each object, or 0
  doing   \* the invocation whose operation each object carries out, or 0

vars == <<needs, once, asked, open, held, doing>>

Of(o) == {e \in 1..Len(asked) : asked[e] = o}
Free == [o \in Objects |-> 0]

Init ==
  /\ needs \in SUBSET Objects /\ once \in SUBSET Objects
  /\ asked = <<>> /\ open = {} /\ held = Free /\ doing = Free

Invoke(o) ==
  /\ asked' = Append(asked, o)
  /\ open' = open \cup {Len(asked) + 1}
  /\ UNCHANGED <<held, doing>>

(* A select may come late, when its invocation has no more use for it. *)
Hold(o) ==
  /\ o \in needs /\ held[o] = 0 /\ doing[o] = 0
  /\ \E e \in Of(o) : held' = [held EXCEPT ![o] = e]
  /\ UNCHANGED <<asked, open, doing>>

(* An invocation whose turn it is to operate has no other after it. *)
Operates(o, e) ==
  /\ doing[o] = 0
  /\ o \in needs => held[o] = e
  /\ open' = open \ {e}
  /\ UNCHANGED asked

Begin(o) ==
  /\ \E e \in Of(o) \cap open : Operates(o, e) /\ doing' = [doing EXCEPT ![o] = e]
  /\ UNCHANGED held

LetGo(o) == held' = IF o \in once THEN [held EXCEPT ![o] = 0] ELSE held

(* The server refuses to begin, and the use of the selection is over. *)
Refuse(o) ==
  /\ \E e \in Of(o) \cap open : Operates(o, e)
  /\ LetGo(o)
  /\ UNCHANGED doing

End(o) ==
  /\ doing[o] # 0 /\ doing' = [doing EXCEPT ![o] = 0]
  /\ LetGo(o)
  /\ UNCHANGED <<asked, open>>

Expire(o) ==
  /\ held[o] # 0 /\ doing[o] = 0
  /\ held' = [held EXCEPT ![o] = 0]
  /\ UNCHANGED <<asked, open, doing>>

(* An invocation ends, or its request cannot succeed. *)
GiveUp ==
  /\ \E e \in open : open' = open \ {e}
  /\ UNCHANGED <<asked, held, doing>>

(* The client is lost: what is under way ends, and a selection may be found *)
(* again that had expired, but not of an object that is let go.             *)
Lose ==
  /\ doing' = Free
  /\ open' \subseteq open
  /\ DOMAIN held' = Objects
  /\ \A o \in Objects :
       held'[o] \in {0, held[o]} \/ (o \in needs \ once /\ held'[o] \in Of(o))
  /\ UNCHANGED asked

Next ==
  /\ UNCHANGED <<needs, once>>
  /\ \/ Lose \/ GiveUp
     \/ \E o \in Objects : Invoke(o) \/ Hold(o) \/ Begin(o) \/ Refuse(o) \/ End(o) \/ Expire(o)

Spec == Init /\ [][Next]_vars
=============================================================================
