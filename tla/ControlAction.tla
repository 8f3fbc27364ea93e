---------------------------- MODULE ControlAction ----------------------------
(***************************************************************************)
(* Operating the controllable objects of one server: controlAction runs in *)
(* the event loop, creates a ControlObjectClient, selects and operates the *)
(* object as its control model demands, waits a second for the command     *)
(* termination, reads the status value and destroys the control.  The      *)
(* receive thread hands over answers and visits the controls of the        *)
(* connection, without a lock, for each report about a control.            *)
(*                                                                         *)
(* Requests, answers and reports keep their order.  The answer to a        *)
(* request that timed out is dropped; MmsClient has the cases where it is  *)
(* not.  An operation is numbered by the invocation it belongs to.         *)
(***************************************************************************)
EXTENDS Naturals, Sequences, Functions

CONSTANTS
  Objects,   \* the controllable data objects
  Models,    \* the control models they may have, of those in AllModels
  MaxOps     \* bound: invocations

AllModels == {"status", "direct", "sbo", "directEnhanced", "sboEnhanced"}

ASSUME ControlAssumption == Models \subseteq AllModels /\ MaxOps \in Nat

VARIABLES
  model,     \* ctlModel of each object
  once,      \* the objects whose sboClass is operate-once
  target,    \* the object of each invocation so far
  loop,      \* where the event loop stands, and the answer it has got
  num,       \* ctlNum of the control
  refs,      \* controls that have their objectReference
  linked,    \* clientControls of the connection
  live,      \* controls that are allocated
  bad,       \* controls whose lastApplError.error is not 0
  rx,        \* the report the receive thread handles and the control it visits
  toSrv,     \* requests on their way
  wire,      \* answers and reports on their way
  srv,       \* the control objects of the server
  up,        \* the association exists
  crashed,   \* the process has died
  logs,      \* (for the properties) command terminations that were logged
  doubt,     \* (for the properties) operations with a request that got no answer
  outlived,  \* (for the properties) operations the server or the receive thread was
             \* not done with when the control was destroyed
  touched    \* (for the properties) controls visited after they were freed

controlVars == <<num, refs, linked, live>>
serverVars == <<model, once, srv>>
linkVars == <<toSrv, wire, up>>
ghosts == <<logs, doubt, outlived, touched>>
vars == <<serverVars, target, loop, controlVars, bad, rx, linkVars, crashed, ghosts>>

Sbo(o) == model[o] \in {"sbo", "sboEnhanced"}
Enhanced(o) == model[o] \in {"directEnhanced", "sboEnhanced"}

Stages == {"creating", "selecting", "operating", "reading"}
Requests == [at : Stages, op : Nat, num : Nat]
Parts == {"error", "termination"}
Messages == [kind : {"answer", "report"}, at : Stages, op : Nat, bad : BOOLEAN, parts : Seq(Parts)]

Answer(r, ok) == [kind |-> "answer", at |-> r.at, op |-> r.op, bad |-> ~ok, parts |-> <<>>]
Report(e, minus, parts) ==
  [kind |-> "report", at |-> "operating", op |-> e, bad |-> minus, parts |-> parts]

Rested == [state |-> "ready", op |-> 0, sel |-> 0, num |-> 0]
Waiting == [op |-> 0, bad |-> FALSE, parts |-> <<>>, at |-> 0, using |-> FALSE]

TypeOK ==
  /\ model \in [Objects -> Models] /\ once \in SUBSET Objects
  /\ target \in Seq(Objects)
  /\ loop \in [at : Stages \cup {"idle", "sleeping", "unlinking", "freeing"},
               ans : {"none", "yes", "no"}]
  /\ num \in Nat
  /\ live \in SUBSET Nat /\ refs \in SUBSET live /\ linked \in SUBSET live /\ bad \in SUBSET Nat
  /\ rx \in [op : Nat, bad : BOOLEAN, parts : Seq(Parts), at : Nat, using : BOOLEAN]
  /\ toSrv \in Seq(Requests) /\ wire \in Seq(Messages)
  /\ srv \in [Objects -> [state : {"ready", "selected", "waiting", "executing"},
                          op : Nat, sel : Nat, num : Nat]]
  /\ up \in BOOLEAN /\ crashed \in BOOLEAN
  /\ logs \in SUBSET [ctl : Nat, from : Nat, says : BOOLEAN, was : BOOLEAN]
  /\ doubt \in SUBSET Nat /\ outlived \in SUBSET Nat /\ touched \in SUBSET Nat

Init ==
  /\ model \in [Objects -> Models] /\ once \in SUBSET Objects
  /\ target = <<>> /\ loop = [at |-> "idle", ans |-> "none"] /\ num = 0
  /\ refs = {} /\ linked = {} /\ live = {} /\ bad = {}
  /\ rx = Waiting /\ toSrv = <<>> /\ wire = <<>>
  /\ srv = [o \in Objects |-> Rested]
  /\ up = TRUE /\ crashed = FALSE
  /\ logs = {} /\ doubt = {} /\ outlived = {} /\ touched = {}

-----------------------------------------------------------------------------
(* controlAction *)

Cur == Len(target)
Object == target[Cur]
At(stage) == ~crashed /\ loop.at = stage
Answered(stage) == At(stage) /\ loop.ans # "none"
Yes == loop.ans = "yes"
(* A call whose answer came just before the connection was lost may fail.  *)
No == loop.ans = "no" \/ ~up

(* A request of the event loop.  A read fails at once when there is no     *)
(* association; a write does not look, and meets the socket that the       *)
(* receive thread has freed.                                               *)
Ask(stage, e, n, isWrite) ==
  /\ loop' = [at |-> stage, ans |-> IF up THEN "none" ELSE "no"]
  /\ toSrv' = IF up THEN Append(toSrv, [at |-> stage, op |-> e, num |-> n]) ELSE toSrv
  /\ doubt' = IF up THEN doubt ELSE doubt \cup {e}
  /\ IF isWrite /\ ~up THEN crashed' \in BOOLEAN ELSE UNCHANGED crashed

(* ControlObjectClient_create asks for the control model. *)
Control(o) ==
  /\ At("idle") /\ Cur < MaxOps
  /\ target' = Append(target, o)
  /\ Ask("creating", Cur + 1, 0, FALSE)
  /\ UNCHANGED <<serverVars, controlVars, bad, rx, wire, up, logs, outlived, touched>>

(* Mutant: ctlNum is counted again for an object that was selected. *)
OperateCountsTwice ==
  /\ num' = num + 1
  /\ bad' = bad \ {Cur}
  /\ Ask("operating", Cur, num', TRUE)
(* ControlObjectClient_operate: resetLastApplError, and a new ctlNum only  *)
(* when no select has made one.                                            *)
Operate ==
  /\ num' = IF Sbo(Object) THEN num ELSE num + 1
  /\ bad' = bad \ {Cur}
  /\ Ask("operating", Cur, num', TRUE)

(* A select of a normal object reads, one with value writes. *)
Select ==
  /\ num' = num + 1
  /\ bad' = bad \ {Cur}
  /\ Ask("selecting", Cur, num', Enhanced(Object))

ReadStatus == Ask("reading", Cur, 0, FALSE) /\ UNCHANGED <<num, bad>>

(* Without a control the first use of it follows a null pointer. *)
CreateFailed ==
  /\ Answered("creating") /\ No
  /\ crashed' = TRUE
  /\ UNCHANGED <<serverVars, target, loop, controlVars, bad, rx, linkVars, ghosts>>

Created ==
  /\ Answered("creating") /\ Yes
  /\ refs' = refs \cup {Cur} /\ linked' = linked \cup {Cur} /\ live' = live \cup {Cur}
  /\ \/ model[Object] = "status" /\ ReadStatus
     \/ Sbo(Object) /\ Select
     \/ model[Object] \in {"direct", "directEnhanced"} /\ Operate
  /\ UNCHANGED <<serverVars, target, rx, wire, up, logs, outlived, touched>>

(* After an enhanced control the action sleeps for a second, whatever came *)
(* of it, and then reads the status value; after others it reads at once.  *)
Conclude ==
  IF Enhanced(Object)
  THEN /\ loop' = [at |-> "sleeping", ans |-> "none"]
       /\ doubt' = IF up THEN doubt ELSE doubt \cup {Cur}
       /\ UNCHANGED <<num, bad, toSrv, crashed>>
  ELSE ReadStatus

(* Mutant: the answer to the select is not looked at. *)
SelectedAnyhow ==
  /\ Answered("selecting")
  /\ Operate
  /\ UNCHANGED <<serverVars, target, refs, linked, live, rx, wire, up,
                 logs, outlived, touched>>
(* A select without value succeeds with what it has read, whatever happened *)
(* since.                                                                  *)
Selected ==
  /\ Answered("selecting")
  /\ \/ Yes /\ Operate
     \/ No /\ (Yes => Enhanced(Object)) /\ Conclude
  /\ UNCHANGED <<serverVars, target, refs, linked, live, rx, wire, up,
                 logs, outlived, touched>>

(* Mutant: an operate that has got no answer is sent again. *)
OperatedAgain ==
  /\ Answered("operating")
  /\ \/ Yes /\ Conclude
     \/ No /\ Operate
  /\ UNCHANGED <<serverVars, target, refs, linked, live, rx, wire, up,
                 logs, outlived, touched>>
Operated ==
  /\ Answered("operating")
  /\ Conclude
  /\ UNCHANGED <<serverVars, target, refs, linked, live, rx, wire, up,
                 logs, outlived, touched>>

Slept ==
  /\ At("sleeping")
  /\ ReadStatus
  /\ UNCHANGED <<serverVars, target, refs, linked, live, rx, wire, up,
                 logs, outlived, touched>>

-----------------------------------------------------------------------------
(* ControlObjectClient_destroy, in the order of its steps *)

Pending == Range(toSrv)
Sent == Range(wire)

(* (for the properties) Something about an operation is still to come. *)
Concerns(e) ==
  \/ \E r \in Pending : r.op = e /\ r.at \in {"selecting", "operating"}
  \/ \E o \in Objects : srv[o].op = e
  \/ \E m \in Sent : m.op = e /\ m.kind = "report"
  \/ rx.op = e

(* The value is at its node, if it was read; the destruction begins. *)
StatusRead ==
  /\ Answered("reading")
  /\ loop' = [at |-> "unlinking", ans |-> "none"]
  /\ refs' = refs \ {Cur}
  /\ outlived' = outlived \cup {e \in 1..Cur : Concerns(e)}
  /\ UNCHANGED <<serverVars, target, num, linked, live, bad, rx, linkVars, crashed,
                 logs, doubt, touched>>

(* Mutant: the control stays in the list of the connection. *)
UnlinkForgotten ==
  /\ At("unlinking")
  /\ loop' = [loop EXCEPT !.at = "freeing"]
  /\ UNCHANGED <<serverVars, target, controlVars, bad, rx, linkVars, crashed, ghosts>>
Unlink ==
  /\ At("unlinking")
  /\ loop' = [loop EXCEPT !.at = "freeing"]
  /\ linked' = linked \ {Cur}
  /\ UNCHANGED <<serverVars, target, num, refs, live, bad, rx, linkVars, crashed, ghosts>>

(* The next control is a new one, with its ctlNum and lastApplError at 0. *)
Free ==
  /\ At("freeing")
  /\ loop' = [loop EXCEPT !.at = "idle"]
  /\ live' = live \ {Cur} /\ bad' = bad \ {Cur} /\ num' = 0
  /\ UNCHANGED <<serverVars, target, refs, linked, rx, linkVars, crashed, ghosts>>

-----------------------------------------------------------------------------
(* The server *)

Serving(stage) == toSrv # <<>> /\ Head(toSrv).at = stage
Reply(ms) == toSrv' = Tail(toSrv) /\ wire' = wire \o ms
Serves == UNCHANGED <<model, once, target, loop, controlVars, bad, rx, up, crashed, ghosts>>
Error(e, minus) == Report(e, minus, <<"error">>)

(* An operation is over, carried out or not: an object that is operated    *)
(* once is unselected, others stay selected.                               *)
Over(o) == [srv[o] EXCEPT !.op = 0, !.state = IF Sbo(o) /\ o \notin once THEN "selected" ELSE "ready"]

ServeRead ==
  /\ Serving("creating") \/ Serving("reading")
  /\ \E ok \in BOOLEAN : Reply(<<Answer(Head(toSrv), ok)>>)
  /\ Serves /\ UNCHANGED srv

ServeSelect ==
  /\ Serving("selecting")
  /\ LET r == Head(toSrv) IN
     LET o == target[r.op] IN
     \/ /\ srv[o].state = "ready"
        /\ srv' = [srv EXCEPT ![o] = [state |-> "selected", op |-> 0, sel |-> r.op, num |-> r.num]]
        /\ Reply(<<Answer(r, TRUE)>>)
     \/ /\ UNCHANGED srv
        /\ IF Enhanced(o) THEN \E minus \in BOOLEAN : Reply(<<Error(r.op, minus), Answer(r, FALSE)>>)
                          ELSE Reply(<<Answer(r, FALSE)>>)
  /\ Serves

(* What an operate finds: an enhanced object wants the parameters of the   *)
(* select again; of these the values are taken to agree.                   *)
Operable(o, r) ==
  IF Sbo(o) THEN srv[o].state = "selected" /\ (Enhanced(o) => srv[o].num = r.num)
            ELSE srv[o].state = "ready"

ServeOperate ==
  /\ Serving("operating")
  /\ LET r == Head(toSrv) IN
     LET o == target[r.op] IN
     \/ /\ Operable(o, r)
        /\ srv' = [srv EXCEPT ![o].state = "waiting", ![o].op = r.op]
        /\ Reply(<<>>)
     \/ /\ Operable(o, r)
        /\ srv' = [srv EXCEPT ![o] = Over(o)]
        /\ Reply(<<Answer(r, FALSE)>>)
     \/ /\ ~Operable(o, r)
        /\ UNCHANGED srv
        /\ IF srv[o].op # 0
           THEN Reply(<<Answer(r, FALSE)>>)
           ELSE \E minus \in BOOLEAN : Reply(<<Error(r.op, minus), Answer(r, FALSE)>>)
  /\ Serves

(* The dynamic check; the answer comes after it, before the operation. *)
Execute(o) ==
  /\ srv[o].state = "waiting"
  /\ \E ok \in BOOLEAN :
       /\ wire' = Append(wire, Answer([at |-> "operating", op |-> srv[o].op], ok))
       /\ srv' = [srv EXCEPT ![o] = IF ok THEN [@ EXCEPT !.state = "executing"] ELSE Over(o)]
  /\ UNCHANGED toSrv /\ Serves

(* The end of the operation; a failure is told by a LastApplError and the  *)
(* termination in one report.                                              *)
Finish(o) ==
  /\ srv[o].state = "executing"
  /\ srv' = [srv EXCEPT ![o] = Over(o)]
  /\ \E minus \in BOOLEAN :
       wire' = IF ~Enhanced(o) THEN wire
               ELSE Append(wire, Report(srv[o].op, minus, IF minus THEN <<"error", "termination">>
                                                                   ELSE <<"termination">>))
  /\ UNCHANGED toSrv /\ Serves

SelectionExpires(o) ==
  /\ Sbo(o) /\ srv[o].state = "selected"
  /\ srv' = [srv EXCEPT ![o].state = "ready"]
  /\ UNCHANGED <<toSrv, wire>> /\ Serves

-----------------------------------------------------------------------------
(* The receive thread *)

Idle == ~crashed /\ rx.parts = <<>>

(* An answer the event loop waits for is handed over, others are dropped. *)
Deliver ==
  /\ Idle /\ wire # <<>> /\ Head(wire).kind = "answer"
  /\ wire' = Tail(wire)
  /\ loop' = IF Head(wire).op = Cur /\ Head(wire).at = loop.at /\ loop.ans = "none"
             THEN [loop EXCEPT !.ans = IF Head(wire).bad THEN "no" ELSE "yes"]
             ELSE loop
  /\ UNCHANGED <<serverVars, target, controlVars, bad, rx, toSrv, up, crashed, ghosts>>

TakeReport ==
  /\ Idle /\ wire # <<>> /\ Head(wire).kind = "report"
  /\ wire' = Tail(wire)
  /\ rx' = [Waiting EXCEPT !.op = Head(wire).op, !.bad = Head(wire).bad, !.parts = Head(wire).parts]
  /\ UNCHANGED <<serverVars, target, loop, controlVars, bad, toSrv, up, crashed, ghosts>>

(* Following a freed pointer is undefined. *)
Touch(c) == touched' = touched \cup {c} /\ crashed' \in BOOLEAN

Beyond == {c \in linked : c > rx.at}
AfterList == IF Len(rx.parts) = 1 THEN Waiting
             ELSE [rx EXCEPT !.parts = Tail(@), !.at = 0, !.using = FALSE]

(* To the next control of the list, from an element that may be freed. *)
Step ==
  /\ ~crashed /\ rx.parts # <<>> /\ ~rx.using
  /\ IF rx.at # 0 /\ rx.at \notin linked THEN Touch(rx.at) ELSE UNCHANGED <<touched, crashed>>
  /\ IF Beyond = {}
     THEN rx' = AfterList
     ELSE \E c \in Beyond : /\ \A d \in Beyond : c <= d
                            /\ rx' = [rx EXCEPT !.at = c, !.using = TRUE]
  /\ UNCHANGED <<serverVars, target, loop, controlVars, bad, linkVars, logs, doubt, outlived>>

(* Mutant: the comparison stops before the name of the object. *)
MatchesAny(c) == rx.op > 0
(* doesReportMatchControlObject, private_IedConnection_doesControlObjectMatch *)
Matches(c) == target[c] = target[rx.op]

(* What a part of the report does to the control that is visited. *)
Visit ==
  /\ ~crashed /\ rx.using
  /\ rx' = [rx EXCEPT !.using = FALSE]
  /\ IF rx.at \notin refs \cap live
     THEN Touch(rx.at) /\ UNCHANGED <<bad, logs>>
     ELSE /\ UNCHANGED <<touched, crashed>>
          /\ bad' = IF Matches(rx.at) /\ Head(rx.parts) = "error"
                    THEN IF rx.bad THEN bad \cup {rx.at} ELSE bad \ {rx.at}
                    ELSE bad
          /\ logs' = IF Matches(rx.at) /\ Head(rx.parts) = "termination" /\ Enhanced(target[rx.at])
                     THEN logs \cup {[ctl |-> rx.at, from |-> rx.op, says |-> rx.at \in bad, was |-> rx.bad]}
                     ELSE logs
  /\ UNCHANGED <<serverVars, target, loop, controlVars, linkVars, doubt, outlived>>

-----------------------------------------------------------------------------
(* Faults *)

(* The event loop stops waiting: the time-out, or it sees the loss. *)
GiveUp ==
  /\ ~crashed /\ loop.at \in Stages /\ loop.ans = "none"
  /\ loop' = [loop EXCEPT !.ans = "no"]
  /\ doubt' = doubt \cup {Cur}
  /\ UNCHANGED <<serverVars, target, controlVars, bad, rx, linkVars, crashed, logs, outlived, touched>>

(* The receive thread sees the end of the connection.  The server lets the *)
(* operations end; its search for selections to give up stops at the first *)
(* object of the client.                                                   *)
Lose ==
  /\ Idle /\ up
  /\ up' = FALSE /\ toSrv' = <<>> /\ wire' = <<>>
  /\ \E gone \in SUBSET {o \in Objects : srv[o].sel # 0} :
       srv' = [o \in Objects |-> IF srv[o].op # 0 \/ o \in gone THEN Over(o) ELSE srv[o]]
  /\ UNCHANGED <<model, once, target, loop, controlVars, bad, rx, crashed, ghosts>>

Next ==
  \/ \E o \in Objects : Control(o)
  \/ Created \/ CreateFailed \/ Selected \/ Operated \/ Slept
  \/ StatusRead \/ Unlink \/ Free
  \/ ServeRead \/ ServeSelect \/ ServeOperate
  \/ \E o \in Objects : Execute(o) \/ Finish(o) \/ SelectionExpires(o)
  \/ Deliver \/ TakeReport \/ Step \/ Visit
  \/ GiveUp \/ Lose

Spec == Init /\ [][Next]_vars

-----------------------------------------------------------------------------
(* Properties *)

(* An object that is selected before it is operated carries out an         *)
(* operation only under the selection of the same invocation: controlAction*)
(* operates after its own select succeeded, and a selection that a timed   *)
(* out select left on the server refuses the next select.                  *)
OwnSelection ==
  \A o \in Objects : Sbo(o) /\ srv[o].op # 0 => srv[o].sel = srv[o].op

(* Between invocations no object that is operated once stays selected,     *)
(* unless a request of the invocation that selected it got no answer: the  *)
(* action has no cancel, it relies on its operate to end the selection.    *)
NoSelectionLeft ==
  loop.at = "idle" /\ ~crashed =>
    \A o \in once : srv[o].state = "selected" => srv[o].sel \in doubt

(* commandTerminationHandler logs the termination of the operation its     *)
(* control sent, with its outcome, unless an earlier operation on the      *)
(* object outlived its control: terminations are matched by object only.   *)
TerminationTold ==
  \A l \in logs :
    \/ l.ctl = l.from /\ l.says = l.was
    \/ \E e \in outlived : e < l.ctl /\ target[e] = target[l.ctl]

(* What was selected is operated or given up by the invocation that        *)
(* selected it: no other invocation uses the selection, and none is left   *)
(* behind.                                                                 *)
SelectionsOwned == OwnSelection /\ NoSelectionLeft

(* The receive thread follows a freed control only when an operation       *)
(* outlived the sleep of its action: ControlObjectClient_destroy takes the *)
(* control out of the list, but does not wait for the receive thread.      *)
FreedUntouched ==
  \A c \in touched : \E e \in outlived : e <= c

(* What Operations sees: the invocations whose operate is on its way or    *)
(* still to be sent, and whose selection and operation the server has.     *)
MayOperate ==
  {e \in 1..Cur : \/ e = Cur /\ loop.at \in {"creating", "selecting"}
                  \/ \E r \in Pending : r.op = e /\ r.at = "operating"}
Holder == [o \in Objects |-> IF Sbo(o) /\ srv[o].state # "ready" THEN srv[o].sel ELSE 0]
Carries == [o \in Objects |-> srv[o].op]

Uses == INSTANCE Operations WITH
  needs <- {o \in Objects : Sbo(o)}, asked <- target, open <- MayOperate,
  held <- Holder, doing <- Carries

(* Each invocation operates its object at most once and under its own      *)
(* selection, whatever is refused, times out or is lost: controlAction     *)
(* sends one operate and does not repeat it, a late one included.          *)
OperationsImplemented == Uses!Spec
=============================================================================
