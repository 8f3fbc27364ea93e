----------------------------- MODULE RcbReports -----------------------------
(***************************************************************************)
(* The report control blocks (RCB) of one server between two discoveries:  *)
(* the set, read and GI actions on their nodes, the requests they send and *)
(* the reports that come back.                                             *)
(*                                                                         *)
(* The event loop runs one action at a time and waits for its answer or a  *)
(* time-out.  The receive thread takes reports and answers in the order    *)
(* the server sent them; it parses a report into the arrays of the report  *)
(* handler (ClientReport) and calls reportCallbackFunction, which writes   *)
(* values to the nodes of data attributes.  A value is represented by the  *)
(* attribute it was read from.                                             *)
(***************************************************************************)
EXTENDS Naturals, Sequences

CONSTANTS
  Rcbs,         \* report control blocks
  Order,        \* the order in which discovery installed their handlers
  Ids, DataSets, Params,
  Attrs,        \* data attributes
  Members,      \* the attributes of a data set, in order (dataSetDirectory)
  Type,         \* the MMS type of an attribute
  Config0,      \* the RCB values read at discovery
  Settable,     \* the fields users set
  Opened,       \* attributes that have a node: nodes are made when a user opens their parent
  MaxQueue,     \* bound: requests in flight
  MaxWire,      \* bound: messages from the server in flight
  None

(* "other" stands for bufTm, intgPd, optFlds and trgOps. *)
Fields == {"rptId", "rptEna", "datSet", "other"}
Config == [rptId : Ids, rptEna : BOOLEAN, datSet : DataSets, other : Params]
FieldValues(f) == CASE f = "rptId" -> Ids        [] f = "rptEna" -> BOOLEAN
                    [] f = "datSet" -> DataSets  [] f = "other"  -> Params

ASSUME RcbAssumption ==
  /\ Members \in [DataSets -> Seq(Attrs)]
  /\ \A d \in DataSets : \A i, j \in DOMAIN Members[d] :
       Members[d][i] = Members[d][j] => i = j
  /\ Config0 \in [Rcbs -> Config]
  /\ Order \in Seq(Rcbs)
  /\ \A r \in Rcbs : \E i \in DOMAIN Order : Order[i] = r
  /\ Settable \subseteq Fields
  /\ Opened \subseteq Attrs
  /\ MaxQueue \in Nat /\ MaxQueue >= 2 /\ MaxWire \in Nat
  /\ None \notin Attrs \cup Rcbs \cup [to : Rcbs, of : Rcbs]

VARIABLES
  srv,       \* the configuration of each RCB in the server
  loc,       \* its ClientReportControlBlock, which the nodes below the RCB node show
  toSrv,     \* requests on their way
  wire,      \* reports and answers on their way, oldest first
  loop,      \* what the event loop waits for
  rx,        \* the report that was parsed and not yet delivered, None if none
  buf,       \* dataSetValues of each report handler, <<>> before its first report
  incl,      \* positions whose reasonForInclusion is not NOT_INCLUDED
  shown,     \* the attribute whose value the node of an attribute shows
  up,        \* the association exists
  crashed,   \* the process has died
  doubt      \* (for the properties) RCBs whose last read-back failed or that a lost
             \* connection disabled, until their next successful read

cfgVars == <<srv, loc>>
handlerVars == <<buf, incl, shown>>
vars == <<cfgVars, toSrv, wire, loop, rx, handlerVars, up, crashed, doubt>>

Idle == [op |-> "idle", rcb |-> None, ans |-> None]

SizeOf(d) == Len(Members[d])
Positions == UNION {DOMAIN Members[d] : d \in DataSets}
Contents == UNION {[DOMAIN Members[d] -> Attrs \cup {None}] : d \in DataSets}
Reports == [kind : {"report"}, rcb : Rcbs, id : Ids, vals : Contents]
Answers == [kind : {"answer"}, ok : BOOLEAN, late : BOOLEAN, cfg : Config \cup {None}]
Ops == {"write", "read", "gi"}
Requests == [op : Ops, rcb : Rcbs, field : Fields \cup {None},
             val : Ids \cup BOOLEAN \cup DataSets \cup Params \cup {None}, late : BOOLEAN]

TypeOK ==
  /\ srv \in [Rcbs -> Config]
  /\ loc \in [Rcbs -> Config]
  /\ toSrv \in Seq(Requests) /\ Len(toSrv) <= MaxQueue
  /\ wire \in Seq(Reports \cup Answers) /\ Len(wire) <= MaxWire
  /\ loop \in [op : Ops \cup {"idle"}, rcb : Rcbs \cup {None},
               ans : [ok : BOOLEAN, cfg : Config \cup {None}] \cup {None}]
  /\ rx \in [to : Rcbs, of : Rcbs] \cup {None}
  /\ buf \in [Rcbs -> Contents \cup {<<>>}]
  /\ incl \in [Rcbs -> SUBSET Positions]
  /\ shown \in [Attrs -> Attrs \cup {None}]
  /\ up \in BOOLEAN /\ crashed \in BOOLEAN
  /\ doubt \in SUBSET Rcbs

Init ==
  /\ srv = Config0 /\ loc = Config0
  /\ toSrv = <<>> /\ wire = <<>>
  /\ loop = Idle /\ rx = None
  /\ buf = [r \in Rcbs |-> <<>>]
  /\ incl = [r \in Rcbs |-> {}]
  /\ shown = [a \in Attrs |-> None]
  /\ up = TRUE /\ crashed = FALSE /\ doubt = {}

-----------------------------------------------------------------------------
(* The event loop: actions of an RCB node *)

Request(op, r, f, v) == [op |-> op, rcb |-> r, field |-> f, val |-> v, late |-> FALSE]

(* Sends q behind "queue" and waits for its answer. *)
SendAfter(queue, q) ==
  /\ toSrv' = Append(queue, q)
  /\ loop' = [op |-> q.op, rcb |-> q.rcb, ans |-> None]

Read(r) == Request("read", r, None, None)

Return == loop' = Idle /\ UNCHANGED toSrv

(* The bound leaves room for the requests an action may send. *)
Invocable(requests) == loop = Idle /\ ~crashed /\ Len(toSrv) + requests <= MaxQueue

(* A write on a lost connection goes to the socket that the receive thread *)
(* has freed: the process dies or the write fails.                         *)
WriteUnconnected == crashed' \in BOOLEAN /\ Return

(* setRptEnaAction and its siblings: the control block and the node first, *)
(* then the server.  Without connection the read-back fails as well and    *)
(* the value stays.                                                        *)
SetField(r, f, v) ==
  /\ Invocable(2)
  /\ loc' = [loc EXCEPT ![r][f] = v]
  /\ IF up THEN SendAfter(toSrv, Request("write", r, f, v)) /\ UNCHANGED <<doubt, crashed>>
          ELSE WriteUnconnected /\ doubt' = doubt \cup {r}
  /\ UNCHANGED <<srv, wire, rx, handlerVars, up>>

(* readRCBAction; a read looks at the association first. *)
ReadRcb(r) ==
  /\ Invocable(1) /\ up
  /\ SendAfter(toSrv, Read(r))
  /\ UNCHANGED <<cfgVars, wire, rx, handlerVars, up, crashed, doubt>>

(* forceGIRCBAction: its result is only logged. *)
ForceGI(r) ==
  /\ Invocable(1)
  /\ IF up THEN SendAfter(toSrv, Request("gi", r, None, None)) /\ UNCHANGED crashed
          ELSE WriteUnconnected
  /\ UNCHANGED <<cfgVars, wire, rx, handlerVars, up, doubt>>

Answered(op) == loop.op = op /\ loop.ans # None /\ ~crashed

(* A write that failed is followed by a read of the whole RCB. *)
WriteDone ==
  /\ Answered("write")
  /\ IF loop.ans.ok \/ ~up THEN Return ELSE SendAfter(toSrv, Read(loop.rcb))
  /\ doubt' = IF loop.ans.ok \/ up THEN doubt ELSE doubt \cup {loop.rcb}
  /\ UNCHANGED <<cfgVars, wire, rx, handlerVars, up, crashed>>

(* Mutant: the values read go to the nodes only, not to the control block. *)
ReadDoneNoUpdate ==
  /\ Answered("read")
  /\ Return
  /\ doubt' = IF up THEN doubt \ {loop.rcb} ELSE doubt
  /\ UNCHANGED <<cfgVars, wire, rx, handlerVars, up, crashed>>

(* private_ClientReportControlBlock_updateValues, then setNodeRCBValues. *)
ReadDone ==
  /\ Answered("read")
  /\ loc' = [loc EXCEPT ![loop.rcb] = loop.ans.cfg]
  /\ Return
  /\ doubt' = IF up THEN doubt \ {loop.rcb} ELSE doubt
  /\ UNCHANGED <<srv, wire, rx, handlerVars, up, crashed>>

GIDone ==
  /\ Answered("gi")
  /\ Return
  /\ UNCHANGED <<cfgVars, wire, rx, handlerVars, up, crashed, doubt>>

(* The answer, when it comes, carries an invoke id nobody waits for. *)
Late(queue) ==
  [i \in DOMAIN queue |->
     IF "late" \in DOMAIN queue[i] THEN [queue[i] EXCEPT !.late = TRUE] ELSE queue[i]]

Expires ==
  /\ loop # Idle /\ loop.ans = None /\ ~crashed
  /\ wire' = Late(wire)
  /\ doubt' = IF loop.op = "read" THEN doubt \cup {loop.rcb} ELSE doubt
  /\ UNCHANGED <<cfgVars, rx, handlerVars, up, crashed>>

(* Mutant: a read-back that timed out is tried again. *)
TimeoutRetries ==
  /\ Expires
  /\ CASE loop.op = "write" -> SendAfter(Late(toSrv), Read(loop.rcb))
       [] loop.op = "read"  -> UNCHANGED <<toSrv, loop>>
       [] OTHER             -> loop' = Idle /\ toSrv' = Late(toSrv)

(* sendRequestAndWaitForResponse gives up.  A write is followed by the     *)
(* read-back, a read or a GI by nothing.                                   *)
Timeout ==
  /\ Expires
  /\ IF loop.op = "write" THEN SendAfter(Late(toSrv), Read(loop.rcb))
                          ELSE loop' = Idle /\ toSrv' = Late(toSrv)

(* Edit of an unchanged server connects again. *)
Reconnect ==
  /\ loop = Idle /\ ~up /\ ~crashed
  /\ up' = TRUE
  /\ UNCHANGED <<cfgVars, toSrv, wire, loop, rx, handlerVars, crashed, doubt>>

-----------------------------------------------------------------------------
(* The server (external): it answers requests in order, takes settings     *)
(* only while the RCB is disabled, or refuses them, and reports the values *)
(* of the data set of an enabled RCB.                                      *)

Answer(q, ok) == [kind |-> "answer", ok |-> ok, late |-> q.late,
                  cfg |-> IF q.op = "read" THEN srv[q.rcb] ELSE None]

ServerAnswers ==
  /\ toSrv # <<>> /\ Len(wire) < MaxWire /\ ~crashed
  /\ LET q == Head(toSrv) IN
     \/ /\ q.op = "write"
        /\ q.field = "rptEna" \/ ~srv[q.rcb].rptEna
        /\ srv' = [srv EXCEPT ![q.rcb][q.field] = q.val]
        /\ wire' = Append(wire, Answer(q, TRUE))
     \/ /\ q.op # "read"
        /\ wire' = Append(wire, Answer(q, FALSE))
        /\ UNCHANGED srv
     \/ /\ q.op # "write"
        /\ wire' = Append(wire, Answer(q, TRUE))
        /\ UNCHANGED srv
  /\ toSrv' = Tail(toSrv)
  /\ UNCHANGED <<loc, loop, rx, handlerVars, up, crashed, doubt>>

ServerReports(r) ==
  /\ up /\ srv[r].rptEna /\ Len(wire) < MaxWire /\ ~crashed
  /\ LET all == Members[srv[r].datSet] IN
     \E inc \in SUBSET DOMAIN all \ {{}} :
       wire' = Append(wire, [kind |-> "report", rcb |-> r, id |-> srv[r].rptId,
                             vals |-> [i \in DOMAIN all |-> IF i \in inc THEN all[i] ELSE None]])
  /\ UNCHANGED <<cfgVars, toSrv, loop, rx, handlerVars, up, crashed, doubt>>

-----------------------------------------------------------------------------
(* The receive thread *)

(* Mutant: the first handler takes every report. *)
MatchFirst(id) == {Order[1]}

(* private_IedConnection_handleReport takes the first handler with the     *)
(* report id that was read at discovery.                                   *)
Match(id) ==
  LET fits == {i \in DOMAIN Order : Config0[Order[i]].rptId = id}
  IN  {Order[i] : i \in {j \in fits : \A k \in fits : j <= k}}

(* MmsValue_update keeps the old value if the types differ. *)
Update(old, new) == IF old = None \/ Type[old] = Type[new] THEN new ELSE old

(* Mutant: the arrays have room for the included values. *)
ArraysForIncluded(old, vals) ==
  IF old # <<>> THEN old
  ELSE [i \in 1..Len(SelectSeq(vals, LAMBDA v : v # None)) |-> None]

(* dataSetValues and reasonForInclusion are made for the first report. *)
Arrays(old, vals) == IF old # <<>> THEN old ELSE [i \in DOMAIN vals |-> None]

(* Mutant: the values are stored in the order they come. *)
ParsedShifted(arr, vals) ==
  LET packed == SelectSeq(vals, LAMBDA v : v # None)
  IN  [i \in DOMAIN arr |-> IF i \in DOMAIN packed THEN Update(arr[i], packed[i]) ELSE arr[i]]

(* Mutant: a value that is not included is reset. *)
ParsedAfresh(arr, vals) ==
  [i \in DOMAIN arr |-> IF i \in DOMAIN vals THEN vals[i] ELSE None]

(* MmsValue_setElement ignores a position beyond the array. *)
Parsed(arr, vals) ==
  [i \in DOMAIN arr |->
     IF i \in DOMAIN vals /\ vals[i] # None THEN Update(arr[i], vals[i]) ELSE arr[i]]

(* The positions beyond the report keep their reason. *)
Included(old, arr, vals) ==
  {i \in DOMAIN arr : IF i \in DOMAIN vals THEN vals[i] # None ELSE i \in old}

(* A report larger than the arrays is written behind reasonForInclusion:   *)
(* the process dies or goes on.                                            *)
Parse(h, rep) ==
  LET arr == Arrays(buf[h], rep.vals) IN
  /\ buf' = [buf EXCEPT ![h] = Parsed(arr, rep.vals)]
  /\ incl' = [incl EXCEPT ![h] = Included(@, arr, rep.vals)]
  /\ crashed' \in IF Len(rep.vals) > Len(arr) THEN BOOLEAN ELSE {FALSE}
  /\ rx' = [to |-> h, of |-> rep.rcb]

ReportArrives ==
  /\ rx = None /\ ~crashed
  /\ wire # <<>> /\ Head(wire).kind = "report"
  /\ LET rep == Head(wire) IN
     \/ \E h \in Match(rep.id) : Parse(h, rep)
     \/ Match(rep.id) = {} /\ UNCHANGED <<buf, incl, rx, crashed>>
  /\ wire' = Tail(wire)
  /\ UNCHANGED <<cfgVars, toSrv, loop, shown, up, doubt>>

(* reportCallbackFunction goes through the directory of the data set that  *)
(* the control block names now.  Beyond the arrays the reason is read from *)
(* other memory: the entry is skipped, or a missing value is followed.  An *)
(* attribute without a node is skipped.                                    *)
ReportDelivered ==
  /\ rx # None /\ ~crashed
  /\ LET dir == Members[loc[rx.to].datSet]
         arr == buf[rx.to]
     IN /\ shown' = [a \in Attrs |->
                       IF \E i \in DOMAIN dir \cap incl[rx.to] : dir[i] = a /\ a \in Opened
                         THEN arr[CHOOSE i \in DOMAIN dir : dir[i] = a]
                         ELSE shown[a]]
        /\ crashed' \in IF Len(dir) > Len(arr) THEN BOOLEAN ELSE {FALSE}
  /\ rx' = None
  /\ UNCHANGED <<cfgVars, toSrv, wire, loop, buf, incl, up, doubt>>

(* Mutant: reports are delivered by a thread of their own. *)
AnswerOvertakes ==
  /\ ~crashed
  /\ wire # <<>> /\ Head(wire).kind = "answer"
  /\ loop' = IF Head(wire).late THEN loop
             ELSE [loop EXCEPT !.ans = [ok |-> Head(wire).ok, cfg |-> Head(wire).cfg]]
  /\ wire' = Tail(wire)
  /\ UNCHANGED <<cfgVars, toSrv, rx, handlerVars, up, crashed, doubt>>

(* Mutant: an answer goes to whatever call waits. *)
AnswerForAnyone ==
  /\ rx = None /\ ~crashed
  /\ wire # <<>> /\ Head(wire).kind = "answer"
  /\ loop' = IF loop = Idle THEN loop
             ELSE [loop EXCEPT !.ans = [ok |-> Head(wire).ok, cfg |-> Head(wire).cfg]]
  /\ wire' = Tail(wire)
  /\ UNCHANGED <<cfgVars, toSrv, rx, handlerVars, up, crashed, doubt>>

(* mmsIsoCallback: an answer goes to the call that waits for its id. *)
AnswerArrives ==
  /\ rx = None /\ ~crashed
  /\ wire # <<>> /\ Head(wire).kind = "answer"
  /\ loop' = IF Head(wire).late THEN loop
             ELSE [loop EXCEPT !.ans = [ok |-> Head(wire).ok, cfg |-> Head(wire).cfg]]
  /\ wire' = Tail(wire)
  /\ UNCHANGED <<cfgVars, toSrv, rx, handlerVars, up, crashed, doubt>>

(* The connection is lost.  The server disables the RCBs of this client; a *)
(* request that waits fails, and so does the read-back that follows; an    *)
(* answer already handed over may still be taken.                          *)
ConnectionLost ==
  /\ up /\ rx = None /\ ~crashed
  /\ up' = FALSE
  /\ srv' = [r \in Rcbs |-> [srv[r] EXCEPT !.rptEna = FALSE]]
  /\ toSrv' = <<>> /\ wire' = <<>>
  /\ loop' = Idle \/ (loop.ans # None /\ UNCHANGED loop)
  /\ doubt' = doubt \cup {r \in Rcbs : srv[r].rptEna} \cup {r \in Rcbs : loop.rcb = r}
  /\ UNCHANGED <<loc, rx, handlerVars, crashed>>

-----------------------------------------------------------------------------
LoopSteps == WriteDone \/ ReadDone \/ GIDone \/ Timeout

(* A dead process. *)
Dead == crashed /\ UNCHANGED vars

Next ==
  \/ \E r \in Rcbs, f \in Settable : \E v \in FieldValues(f) : SetField(r, f, v)
  \/ \E r \in Rcbs : ReadRcb(r) \/ ForceGI(r) \/ ServerReports(r)
  \/ LoopSteps \/ Reconnect
  \/ ServerAnswers \/ ConnectionLost
  \/ ReportArrives \/ ReportDelivered \/ AnswerArrives
  \/ Dead

Spec == Init /\ [][Next]_vars

(* The event loop runs; while it waits, the clock goes on. *)
FairSpec == Spec /\ WF_vars(LoopSteps)

-----------------------------------------------------------------------------
(* Properties *)

(* The node of an attribute shows no value of another attribute: reports   *)
(* are decoded by position, with the directory the control block names at  *)
(* the time (reportCallbackFunction).  It is what the documentation of     *)
(* IedConnection_installReportHandler makes depend on installing the       *)
(* handler again after a change of the data set.                           *)
ValuesLand == \A a \in Attrs : shown[a] \in {a, None}

(* A report that is taken from the wire goes to the handler of the RCB     *)
(* that sent it: "the report handler will be called whenever a report for  *)
(* the specified RCB is received" (IedConnection_installReportHandler).    *)
ReportsHeard ==
  [][\A r \in Rcbs :
       (ReportArrives /\ Head(wire).rcb = r) => rx' # None /\ rx'.to = r]_vars

(* While the connection lasts the process does not die of a report, as     *)
(* long as no data set is changed: no report is written or read outside    *)
(* the arrays of its handler (private_IedConnection_handleReport and       *)
(* reportCallbackFunction).                                                *)
NoOverrun == crashed => ~up

(* Every position with a reason for inclusion has a value, whatever mix of *)
(* data sets the handler has seen: setValueNodeFromMMS follows the value   *)
(* without a test.                                                         *)
ReasonHasValue == \A r \in Rcbs : \A i \in incl[r] : i \in DOMAIN buf[r] /\ buf[r][i] # None

(* After a set action the node and the control block agree with the        *)
(* server, whether the write was accepted, was refused or timed out: the   *)
(* read-back is served after the write.  Only a read-back that fails, or a *)
(* lost connection, leaves them apart, until the RCB is read again (set    *)
(* actions of report_handler.c).                                           *)
LocalTracksServer == loop = Idle => \A r \in Rcbs \ doubt : loc[r] = srv[r]

(* Once an RCB is shown as disabled none of its reports is delivered any   *)
(* more: they came before the answer, and connectionHandlingThread         *)
(* delivers in the order of arrival.                                       *)
QuietAfterDisable ==
  loop = Idle =>
    \A r \in Rcbs \ doubt : ~loc[r].rptEna =>
      /\ rx # None => rx.of # r
      /\ \A i \in DOMAIN wire : wire[i].kind = "report" => wire[i].rcb # r

(* Whoever invokes an action of an RCB gets the event loop back, whatever  *)
(* the server and the connection do (the request time-out).                *)
ActionReturns == loop # Idle ~> (loop = Idle \/ crashed)

-----------------------------------------------------------------------------
(* The inductive invariant *)

Current(m) == m.kind = "answer" /\ ~m.late

CallInv ==
  /\ loop.op = "idle" => loop = Idle
  /\ loop.op # "idle" => loop.rcb \in Rcbs
  /\ loop.op = "write" => Len(toSrv) < MaxQueue
  /\ loop # Idle /\ ~up => loop.rcb \in doubt

(* Only the youngest request is waited for, and it has no answer yet.      *)
QueueInv ==
  \A i \in DOMAIN toSrv :
    LET q == toSrv[i] IN
    /\ q.op = "write" => q.field \in Settable /\ q.val \in FieldValues(q.field)
    /\ ~q.late =>
         /\ i = Len(toSrv)
         /\ loop = [op |-> q.op, rcb |-> q.rcb, ans |-> None]
         /\ \A j \in DOMAIN wire : ~Current(wire[j])
         /\ q.op = "write" /\ q.rcb \notin doubt => loc[q.rcb] = [srv[q.rcb] EXCEPT ![q.field] = q.val]
    (* A write that may still be carried out leaves its RCB in doubt, or a  *)
    (* read-back follows it.                                                *)
    /\ q.late /\ q.op = "write" => q.rcb \in doubt \/ (loop.op = "read" /\ loop.rcb = q.rcb)

(* What an answer to the call that waits says of the server.  It is the    *)
(* answer to the youngest request, so nothing changes it any more.         *)
AnswerTrue(ok, cfg) ==
  /\ toSrv = <<>>
  /\ loop.op = "write" /\ ok /\ loop.rcb \notin doubt => loc[loop.rcb] = srv[loop.rcb]
  /\ loop.op = "read" => cfg \in Config /\ (up => cfg = srv[loop.rcb])

(* Reports behind the answer come from an RCB that is enabled.             *)
ReportsOf(r, from) == \E j \in DOMAIN wire : j > from /\ wire[j].kind = "report" /\ wire[j].rcb = r

AnswerInv ==
  /\ \A i \in DOMAIN wire : Current(wire[i]) =>
       /\ loop # Idle /\ loop.ans = None
       /\ AnswerTrue(wire[i].ok, wire[i].cfg)
       /\ ReportsOf(loop.rcb, i) => srv[loop.rcb].rptEna
       /\ \A j \in DOMAIN wire : Current(wire[j]) => i = j
  /\ loop.ans # None =>
       /\ \A i \in DOMAIN wire : ~Current(wire[i])
       /\ AnswerTrue(loop.ans.ok, loop.ans.cfg)
       /\ ReportsOf(loop.rcb, 0) \/ (rx # None /\ rx.of = loop.rcb) => srv[loop.rcb].rptEna

(* An RCB that no set or read action is working on.                        *)
Steady(r) == r \notin doubt /\ (loop.rcb = r => loop.op = "gi")

SteadyInv ==
  \A r \in Rcbs : Steady(r) =>
    /\ loc[r] = srv[r]
    /\ ReportsOf(r, 0) \/ (rx # None /\ rx.of = r) => srv[r].rptEna

IInv == CallInv /\ QueueInv /\ AnswerInv /\ SteadyInv
=============================================================================
