-------------------------- MODULE RcbReportsProofs --------------------------
(***************************************************************************)
(* What RcbReports guarantees for any control blocks, data sets, types and *)
(* bounds.                                                                 *)
(***************************************************************************)
EXTENDS RcbReports, TLAPS

(* The inductive form of ReasonHasValue: the arrays of the handlers exist, *)
(* one pair for each RCB.                                                  *)
ArraysInv ==
  /\ DOMAIN buf = Rcbs /\ DOMAIN incl = Rcbs
  /\ ReasonHasValue

(* MmsValue_update leaves no empty value behind, whichever way it goes.    *)
LEMMA UpdateValue ==
  ASSUME NEW old, NEW new, new # None
  PROVE  Update(old, new) # None
BY DEF Update

(* Parsing a report keeps a value under every reason: the positions it     *)
(* names get one, the positions beyond it keep theirs.                     *)
LEMMA ParseValue ==
  ASSUME NEW old, NEW reasons, NEW vals,
         \A i \in reasons : i \in DOMAIN old /\ old[i] # None,
         NEW i \in Included(reasons, Arrays(old, vals), vals)
  PROVE  /\ i \in DOMAIN Parsed(Arrays(old, vals), vals)
         /\ Parsed(Arrays(old, vals), vals)[i] # None
<1> DEFINE arr == Arrays(old, vals)
<1>1. i \in DOMAIN arr  BY DEF Included
<1>2. DOMAIN Parsed(arr, vals) = DOMAIN arr  BY DEF Parsed
<1>3. CASE i \in DOMAIN vals
  <2>1. vals[i] # None  BY <1>3 DEF Included
  <2>2. Parsed(arr, vals)[i] = Update(arr[i], vals[i])  BY <1>1, <1>3, <2>1 DEF Parsed
  <2> QED  BY <1>1, <1>2, <2>1, <2>2, UpdateValue
<1>4. CASE i \notin DOMAIN vals
  <2>1. i \in reasons  BY <1>4 DEF Included
  <2>2. i \in DOMAIN old /\ old[i] # None  BY <2>1
  <2>3. arr = old  BY <2>2 DEF Arrays
  <2>4. Parsed(arr, vals)[i] = arr[i]  BY <1>1, <1>4 DEF Parsed
  <2> QED  BY <1>1, <1>2, <2>2, <2>3, <2>4
<1> QED  BY <1>3, <1>4

(* One parsed report disturbs the arrays of one handler.                   *)
LEMMA ParseInv ==
  ASSUME ArraysInv, NEW h, NEW rep, Parse(h, rep)
  PROVE  ArraysInv'
<1> DEFINE arr == Arrays(buf[h], rep.vals)
<1>1. buf' = [buf EXCEPT ![h] = Parsed(arr, rep.vals)]  BY DEF Parse
<1>2. incl' = [incl EXCEPT ![h] = Included(incl[h], arr, rep.vals)]  BY DEF Parse
<1>3. DOMAIN buf' = Rcbs /\ DOMAIN incl' = Rcbs  BY <1>1, <1>2 DEF ArraysInv
<1>4. ASSUME NEW r \in Rcbs, NEW i \in incl'[r]
      PROVE  i \in DOMAIN buf'[r] /\ buf'[r][i] # None
  <2>1. CASE r = h
    <3>1. \A j \in incl[h] : j \in DOMAIN buf[h] /\ buf[h][j] # None
      BY <2>1 DEF ArraysInv, ReasonHasValue
    <3>2. i \in Included(incl[h], arr, rep.vals)  BY <1>2, <1>4, <2>1 DEF ArraysInv
    <3>3. buf'[r] = Parsed(arr, rep.vals)  BY <1>1, <2>1 DEF ArraysInv
    <3> QED  BY <3>1, <3>2, <3>3, ParseValue
  <2>2. CASE r # h
    <3>1. buf'[r] = buf[r] /\ incl'[r] = incl[r]  BY <1>1, <1>2, <2>2 DEF ArraysInv
    <3> QED  BY <1>4, <3>1 DEF ArraysInv, ReasonHasValue
  <2> QED  BY <2>1, <2>2
<1> QED  BY <1>3, <1>4 DEF ArraysInv, ReasonHasValue

(* Only the arrival of a report touches the arrays. *)
LEMMA ArraysStep == ArraysInv /\ [Next]_vars => ArraysInv'
<1> SUFFICES ASSUME ArraysInv, [Next]_vars PROVE ArraysInv'  OBVIOUS
<1>1. ASSUME UNCHANGED <<buf, incl>> PROVE ArraysInv'
  BY <1>1 DEF ArraysInv, ReasonHasValue
<1>2. CASE ReportArrives
  <2>1. CASE \E h \in Match(Head(wire).id) : Parse(h, Head(wire))  BY <2>1, ParseInv
  <2>2. CASE UNCHANGED <<buf, incl>>  BY <1>1, <2>2
  <2> QED  BY <1>2, <2>1, <2>2 DEF ReportArrives
<1>3. ASSUME NEW r \in Rcbs, NEW f, NEW v, SetField(r, f, v) PROVE ArraysInv'
  BY <1>1, <1>3 DEF SetField, handlerVars
<1>4. ASSUME NEW r \in Rcbs, ReadRcb(r) \/ ForceGI(r) \/ ServerReports(r) PROVE ArraysInv'
  BY <1>1, <1>4 DEF ReadRcb, ForceGI, ServerReports, handlerVars
<1>5. CASE LoopSteps
  BY <1>1, <1>5 DEF LoopSteps, WriteDone, ReadDone, GIDone, Timeout, Expires, handlerVars
<1>6. CASE Reconnect \/ ServerAnswers \/ ConnectionLost
  BY <1>1, <1>6 DEF Reconnect, ServerAnswers, ConnectionLost, handlerVars
<1>7. CASE ReportDelivered \/ AnswerArrives
  BY <1>1, <1>7 DEF ReportDelivered, AnswerArrives, handlerVars
<1>8. CASE UNCHANGED vars  BY <1>1, <1>8 DEF vars, handlerVars
<1> QED  BY <1>2, <1>3, <1>4, <1>5, <1>6, <1>7, <1>8 DEF Next, Dead

(* Every position with a reason for inclusion has a value, whatever data   *)
(* sets a handler has seen: setValueNodeFromMMS, which follows the value   *)
(* without a test, never meets an empty one within the arrays.             *)
THEOREM ReasonsHaveValues == Spec => []ReasonHasValue
<1>1. Init => ArraysInv  BY DEF Init, ArraysInv, ReasonHasValue
<1>2. ArraysInv => ReasonHasValue  BY DEF ArraysInv
<1> QED  BY <1>1, <1>2, ArraysStep, PTL DEF Spec

-----------------------------------------------------------------------------
(* Types *)

(* A value of a field fits into the configuration of an RCB.               *)
LEMMA FieldType ==
  ASSUME NEW c \in Config, NEW f \in Fields, NEW v \in FieldValues(f)
  PROVE  /\ [c EXCEPT ![f] = v] \in Config
         /\ v \in Ids \cup BOOLEAN \cup DataSets \cup Params
         /\ f # "rptEna" => [c EXCEPT ![f] = v].rptEna = c.rptEna
<1>1. CASE f = "rptId"   BY <1>1 DEF Config, FieldValues
<1>2. CASE f = "rptEna"  BY <1>2 DEF Config, FieldValues
<1>3. CASE f = "datSet"  BY <1>3 DEF Config, FieldValues
<1>4. CASE f = "other"   BY <1>4 DEF Config, FieldValues
<1> QED  BY <1>1, <1>2, <1>3, <1>4 DEF Fields

(* Requests that timed out are marked and otherwise left alone.            *)
LEMMA LateRequests ==
  ASSUME NEW queue \in Seq(Requests)
  PROVE  /\ Late(queue) \in Seq(Requests) /\ Len(Late(queue)) = Len(queue)
         /\ DOMAIN Late(queue) = DOMAIN queue
         /\ \A i \in DOMAIN queue : Late(queue)[i] = [queue[i] EXCEPT !.late = TRUE]
<1>1. \A i \in DOMAIN queue : queue[i] \in Requests  OBVIOUS
<1>2. \A q \in Requests : "late" \in DOMAIN q /\ [q EXCEPT !.late = TRUE] \in Requests
  BY DEF Requests
<1>3. Late(queue) = [i \in DOMAIN queue |-> [queue[i] EXCEPT !.late = TRUE]]
  BY <1>1, <1>2 DEF Late
<1> QED  BY <1>1, <1>2, <1>3

(* Answers that nobody waits for any more are marked, reports are left     *)
(* alone.                                                                  *)
LEMMA LateMessages ==
  ASSUME NEW queue \in Seq(Reports \cup Answers)
  PROVE  /\ Late(queue) \in Seq(Reports \cup Answers) /\ Len(Late(queue)) = Len(queue)
         /\ DOMAIN Late(queue) = DOMAIN queue
         /\ \A i \in DOMAIN queue : /\ Late(queue)[i].kind = queue[i].kind
                                    /\ ~Current(Late(queue)[i])
                                    /\ queue[i].kind = "report" => Late(queue)[i] = queue[i]
<1>1. \A i \in DOMAIN queue : queue[i] \in Reports \/ queue[i] \in Answers  OBVIOUS
<1>2. \A m \in Answers : /\ "late" \in DOMAIN m /\ [m EXCEPT !.late = TRUE] \in Answers
                         /\ m.kind = "answer" /\ ~Current([m EXCEPT !.late = TRUE])
                         /\ [m EXCEPT !.late = TRUE].kind = "answer"
  BY DEF Answers, Current
<1>3. \A m \in Reports : "late" \notin DOMAIN m /\ m.kind = "report" /\ ~Current(m)
  BY DEF Reports, Current
<1> DEFINE mark(i) == IF "late" \in DOMAIN queue[i] THEN [queue[i] EXCEPT !.late = TRUE] ELSE queue[i]
<1>4. Late(queue) = [i \in DOMAIN queue |-> mark(i)]
  BY DEF Late
<1>5. \A i \in DOMAIN queue :
        /\ mark(i) \in Reports \cup Answers /\ mark(i).kind = queue[i].kind /\ ~Current(mark(i))
        /\ queue[i].kind = "report" => mark(i) = queue[i]
  BY <1>1, <1>2, <1>3
<1> HIDE DEF mark
<1> QED  BY <1>4, <1>5

LEMMA RequestType ==
  ASSUME NEW r \in Rcbs
  PROVE  /\ Read(r) \in Requests /\ Read(r).op = "read" /\ Read(r).rcb = r /\ ~Read(r).late
         /\ Request("gi", r, None, None) \in Requests
         /\ \A f \in Fields : \A v \in FieldValues(f) : Request("write", r, f, v) \in Requests
<1>1. \A f \in Fields : \A v \in FieldValues(f) : Request("write", r, f, v) \in Requests
  <2> TAKE f \in Fields
  <2> TAKE v \in FieldValues(f)
  <2>1. v \in Ids \cup BOOLEAN \cup DataSets \cup Params
    <3>1. CASE f = "rptId"   BY <3>1 DEF FieldValues
    <3>2. CASE f = "rptEna"  BY <3>2 DEF FieldValues
    <3>3. CASE f = "datSet"  BY <3>3 DEF FieldValues
    <3>4. CASE f = "other"   BY <3>4 DEF FieldValues
    <3> QED  BY <3>1, <3>2, <3>3, <3>4 DEF Fields
  <2> QED  BY <2>1 DEF Request, Requests, Ops
<1>2. Request("gi", r, None, None) \in Requests  BY DEF Request, Requests, Ops
<1>3. Read(r) \in Requests /\ Read(r).op = "read" /\ Read(r).rcb = r /\ ~Read(r).late
  BY DEF Read, Request, Requests, Ops
<1> QED  BY <1>1, <1>2, <1>3

(* What holds of the queue and the event loop after a request was sent.    *)
LEMMA SendType ==
  ASSUME NEW queue \in Seq(Requests), NEW q \in Requests, SendAfter(queue, q)
  PROVE  /\ toSrv' \in Seq(Requests) /\ Len(toSrv') = Len(queue) + 1
         /\ \A i \in DOMAIN toSrv' : \/ i \in DOMAIN queue /\ toSrv'[i] = queue[i] /\ i # Len(toSrv')
                                     \/ i = Len(toSrv') /\ toSrv'[i] = q
         /\ loop' \in [op : Ops \cup {"idle"}, rcb : Rcbs \cup {None},
                       ans : [ok : BOOLEAN, cfg : Config \cup {None}] \cup {None}]
         /\ loop'.op = q.op /\ loop'.rcb = q.rcb /\ loop'.ans = None
         /\ loop' = [op |-> q.op, rcb |-> q.rcb, ans |-> None]
         /\ loop' # Idle /\ loop'.op # "idle" /\ loop'.rcb \in Rcbs
<1>1. q.op \in Ops /\ q.rcb \in Rcbs /\ q.op # "idle"  BY DEF Requests, Ops
<1>2. loop' = [op |-> q.op, rcb |-> q.rcb, ans |-> None]  BY DEF SendAfter
<1>3. toSrv' = Append(queue, q)  BY DEF SendAfter
<1>4. loop' # Idle  BY <1>1, <1>2 DEF Idle
<1> QED  BY <1>1, <1>2, <1>3, <1>4

LEMMA IdleType ==
  /\ Idle \in [op : Ops \cup {"idle"}, rcb : Rcbs \cup {None},
               ans : [ok : BOOLEAN, cfg : Config \cup {None}] \cup {None}]
  /\ Idle.op = "idle" /\ Idle.rcb = None /\ Idle.ans = None
BY DEF Idle

(* The actions that change what a user set or read.                        *)
LEMMA TypeSetField ==
  ASSUME TypeOK, CallInv, NEW r \in Rcbs, NEW f \in Settable, NEW v \in FieldValues(f), SetField(r, f, v)
  PROVE  TypeOK' /\ CallInv'
<1>1. f \in Fields  BY RcbAssumption
<1>2. loc' = [loc EXCEPT ![r] = [loc[r] EXCEPT ![f] = v]]  BY DEF SetField
<1>3. loc' \in [Rcbs -> Config]  BY <1>1, <1>2, FieldType DEF TypeOK
<1>4. loop = Idle /\ ~crashed /\ Len(toSrv) + 2 <= MaxQueue  BY DEF SetField, Invocable
<1>5. UNCHANGED <<srv, wire, rx, buf, incl, shown, up>>  BY DEF SetField, handlerVars
<1>6. CASE up
  <2> DEFINE q == Request("write", r, f, v)
  <2>1. q \in Requests /\ q.op = "write"  BY <1>1, RequestType DEF Request
  <2>2. SendAfter(toSrv, q) /\ UNCHANGED <<doubt, crashed>>  BY <1>6 DEF SetField
  <2> HIDE DEF q
  <2>3. toSrv \in Seq(Requests)  BY DEF TypeOK
  <2>4. Len(toSrv') <= MaxQueue /\ Len(toSrv') < MaxQueue
    BY <1>4, <2>1, <2>2, <2>3, SendType, RcbAssumption
  <2>5. TypeOK'
    BY <1>3, <1>5, <2>1, <2>2, <2>3, <2>4, SendType DEF TypeOK
  <2>6. CallInv'  BY <1>5, <1>6, <2>1, <2>2, <2>3, <2>4, SendType DEF CallInv
  <2> QED  BY <2>5, <2>6
<1>7. CASE ~up
  <2>1. crashed' \in BOOLEAN /\ loop' = Idle /\ UNCHANGED toSrv /\ doubt' = doubt \cup {r}
    BY <1>7 DEF SetField, WriteUnconnected, Return
  <2> QED  BY <1>3, <1>5, <2>1, IdleType DEF TypeOK, CallInv
<1> QED  BY <1>6, <1>7 DEF TypeOK

LEMMA TypeRead ==
  ASSUME TypeOK, CallInv, NEW r \in Rcbs, ReadRcb(r) \/ ForceGI(r)
  PROVE  TypeOK' /\ CallInv'
<1>1. loop = Idle /\ ~crashed /\ Len(toSrv) + 1 <= MaxQueue /\ toSrv \in Seq(Requests)
  BY DEF ReadRcb, ForceGI, Invocable, TypeOK
<1>2. UNCHANGED <<srv, loc, wire, rx, buf, incl, shown, up, doubt>>
  BY DEF ReadRcb, ForceGI, handlerVars, cfgVars
<1>3. ASSUME NEW q \in Requests, q.op # "write", up, SendAfter(toSrv, q), UNCHANGED crashed
      PROVE  TypeOK' /\ CallInv'
  <2>1. Len(toSrv') <= MaxQueue  BY <1>1, <1>3, SendType
  <2>2. TypeOK'  BY <1>1, <1>2, <1>3, <2>1, SendType DEF TypeOK
  <2>3. CallInv'  BY <1>1, <1>2, <1>3, SendType DEF CallInv
  <2> QED  BY <2>2, <2>3
<1>4. CASE ReadRcb(r)
  <2>1. up /\ SendAfter(toSrv, Read(r)) /\ UNCHANGED crashed  BY <1>4 DEF ReadRcb
  <2> QED  BY <1>3, <2>1, RequestType
<1>5. CASE ForceGI(r) /\ up
  <2>1. SendAfter(toSrv, Request("gi", r, None, None)) /\ UNCHANGED crashed  BY <1>5 DEF ForceGI
  <2>2. Request("gi", r, None, None).op # "write"  BY DEF Request
  <2> QED  BY <1>3, <1>5, <2>1, <2>2, RequestType
<1>6. CASE ForceGI(r) /\ ~up
  <2>1. crashed' \in BOOLEAN /\ loop' = Idle /\ UNCHANGED toSrv
    BY <1>6 DEF ForceGI, WriteUnconnected, Return
  <2> QED  BY <1>2, <2>1, IdleType DEF TypeOK, CallInv
<1> QED  BY <1>4, <1>5, <1>6

LEMMA TypeDone ==
  ASSUME TypeOK, CallInv, AnswerInv, WriteDone \/ ReadDone \/ GIDone
  PROVE  TypeOK' /\ CallInv'
<1>1. toSrv \in Seq(Requests) /\ loop.rcb \in Rcbs /\ ~crashed
  BY DEF WriteDone, ReadDone, GIDone, Answered, TypeOK, CallInv
<1>2. UNCHANGED <<srv, wire, rx, buf, incl, shown, up, crashed>>
  BY DEF WriteDone, ReadDone, GIDone, handlerVars, cfgVars
<1>3. loc' \in [Rcbs -> Config]
  <2>1. CASE ReadDone
    <3>1. loop.ans.cfg \in Config  BY <2>1 DEF ReadDone, Answered, AnswerInv, AnswerTrue
    <3> QED  BY <1>1, <2>1, <3>1 DEF ReadDone, TypeOK
  <2>2. CASE ~ReadDone  BY <2>2 DEF WriteDone, GIDone, cfgVars, TypeOK
  <2> QED  BY <2>1, <2>2
<1>4. doubt' \in SUBSET Rcbs  BY <1>1 DEF WriteDone, ReadDone, GIDone, TypeOK
<1>5. CASE Return
  <2>1. loop' = Idle /\ UNCHANGED toSrv  BY <1>5 DEF Return
  <2> QED  BY <1>2, <1>3, <1>4, <2>1, IdleType DEF TypeOK, CallInv
<1>6. CASE WriteDone /\ ~Return
  <2>1. SendAfter(toSrv, Read(loop.rcb)) /\ up /\ UNCHANGED doubt /\ loop.op = "write"
    BY <1>6 DEF WriteDone, Answered
  <2>2. Len(toSrv) < MaxQueue  BY <2>1 DEF CallInv
  <2>3. /\ Read(loop.rcb) \in Requests /\ Read(loop.rcb).op = "read"
    BY <1>1, RequestType
  <2>4. Len(toSrv') <= MaxQueue  BY <1>1, <2>1, <2>2, <2>3, SendType, RcbAssumption
  <2>5. TypeOK'  BY <1>1, <1>2, <1>3, <1>4, <2>1, <2>3, <2>4, SendType DEF TypeOK
  <2>6. CallInv'  BY <1>1, <1>2, <2>1, <2>3, SendType DEF CallInv
  <2> QED  BY <2>5, <2>6
<1> QED  BY <1>5, <1>6 DEF ReadDone, GIDone

LEMMA TypeTimeout ==
  ASSUME TypeOK, CallInv, Timeout
  PROVE  TypeOK' /\ CallInv'
<1>1. toSrv \in Seq(Requests) /\ wire \in Seq(Reports \cup Answers)  BY DEF TypeOK
<1>2. loop # Idle /\ loop.rcb \in Rcbs /\ ~crashed  BY DEF Timeout, Expires, CallInv, TypeOK, Ops, Idle
<1>3. UNCHANGED <<srv, loc, rx, buf, incl, shown, up, crashed>>
  BY DEF Timeout, Expires, handlerVars, cfgVars
<1>4. wire' \in Seq(Reports \cup Answers) /\ Len(wire') <= MaxWire
  BY <1>1, LateMessages DEF Timeout, Expires, TypeOK
<1>5. doubt' \in SUBSET Rcbs /\ doubt \subseteq doubt'  BY <1>2 DEF Timeout, Expires, TypeOK
<1>6. Late(toSrv) \in Seq(Requests) /\ Len(Late(toSrv)) = Len(toSrv)  BY <1>1, LateRequests
<1>7. CASE loop.op = "write"
  <2>1. SendAfter(Late(toSrv), Read(loop.rcb))  BY <1>7 DEF Timeout
  <2>2. Len(toSrv) < MaxQueue  BY <1>7 DEF CallInv
  <2>3. /\ Read(loop.rcb) \in Requests /\ Read(loop.rcb).op = "read" /\ Read(loop.rcb).rcb = loop.rcb
    BY <1>2, RequestType
  <2>4. Len(toSrv') <= MaxQueue  BY <1>1, <1>6, <2>1, <2>2, <2>3, SendType, RcbAssumption
  <2>5. TypeOK'  BY <1>3, <1>4, <1>5, <1>6, <2>1, <2>3, <2>4, SendType DEF TypeOK
  <2>6. CallInv'  BY <1>2, <1>3, <1>5, <1>6, <2>1, <2>3, SendType DEF CallInv
  <2> QED  BY <2>5, <2>6
<1>8. CASE loop.op # "write"
  <2>1. loop' = Idle /\ toSrv' = Late(toSrv)  BY <1>8 DEF Timeout
  <2> QED  BY <1>3, <1>4, <1>5, <1>6, <2>1, IdleType DEF TypeOK, CallInv
<1> QED  BY <1>7, <1>8

LEMMA TypeServerAnswers ==
  ASSUME TypeOK, CallInv, QueueInv, ServerAnswers
  PROVE  TypeOK' /\ CallInv'
<1> DEFINE q == Head(toSrv)
<1>1. /\ toSrv \in Seq(Requests) /\ toSrv # <<>> /\ wire \in Seq(Reports \cup Answers)
      /\ Len(wire) < MaxWire /\ toSrv' = Tail(toSrv)
  BY DEF ServerAnswers, TypeOK
<1>2. q \in Requests /\ q = toSrv[1] /\ 1 \in DOMAIN toSrv  BY <1>1
<1>3. toSrv' \in Seq(Requests) /\ Len(toSrv') < Len(toSrv)  BY <1>1
<1>4. UNCHANGED <<loc, loop, rx, buf, incl, shown, up, crashed, doubt>>
  BY DEF ServerAnswers, handlerVars
<1>5. srv' \in [Rcbs -> Config]
  <2>1. CASE UNCHANGED srv  BY <2>1 DEF TypeOK
  <2>2. CASE q.op = "write" /\ srv' = [srv EXCEPT ![q.rcb][q.field] = q.val]
    <3>1. q.field \in Fields /\ q.val \in FieldValues(q.field) /\ q.rcb \in Rcbs
      BY <1>2, <2>2, RcbAssumption DEF QueueInv, Requests
    <3>2. srv' = [srv EXCEPT ![q.rcb] = [srv[q.rcb] EXCEPT ![q.field] = q.val]]  BY <2>2
    <3>3. [srv[q.rcb] EXCEPT ![q.field] = q.val] \in Config  BY <3>1, FieldType DEF TypeOK
    <3> QED  BY <3>1, <3>2, <3>3 DEF TypeOK
  <2> QED  BY <2>1, <2>2 DEF ServerAnswers
<1>6. \A ok \in BOOLEAN : Answer(q, ok) \in Answers
  BY <1>2 DEF Answer, Answers, Requests, TypeOK
<1>7. PICK ok \in BOOLEAN : wire' = Append(wire, Answer(q, ok))  BY DEF ServerAnswers
<1> HIDE DEF q
<1>8. wire' \in Seq(Reports \cup Answers) /\ Len(wire') <= MaxWire
  <2>1. Answer(q, ok) \in Reports \cup Answers  BY <1>6
  <2> HIDE DEF Answer
  <2> QED  BY <1>1, <1>7, <2>1, RcbAssumption
<1>9. Len(toSrv') \in Nat /\ Len(toSrv) \in Nat  BY <1>1, <1>3
<1>10. Len(toSrv') <= MaxQueue  BY <1>3, <1>9, RcbAssumption DEF TypeOK
<1>11. Len(toSrv) < MaxQueue => Len(toSrv') < MaxQueue  BY <1>3, <1>9, RcbAssumption
<1>12. TypeOK'  BY <1>3, <1>4, <1>5, <1>8, <1>10 DEF TypeOK
<1>13. CallInv'  BY <1>4, <1>11 DEF CallInv
<1> QED  BY <1>12, <1>13

LEMMA TypeServerReports ==
  ASSUME TypeOK, CallInv, NEW r \in Rcbs, ServerReports(r)
  PROVE  TypeOK' /\ CallInv'
<1> DEFINE all == Members[srv[r].datSet]
           report(inc) == [kind |-> "report", rcb |-> r, id |-> srv[r].rptId,
                           vals |-> [i \in DOMAIN all |-> IF i \in inc THEN all[i] ELSE None]]
<1>1. PICK inc \in SUBSET DOMAIN all \ {{}} : wire' = Append(wire, report(inc))
  BY DEF ServerReports
<1>2. srv[r] \in Config /\ srv[r].datSet \in DataSets /\ srv[r].rptId \in Ids  BY DEF TypeOK, Config
<1>3. all \in Seq(Attrs)  BY <1>2, RcbAssumption
<1>4. \A i \in DOMAIN all : all[i] \in Attrs  BY <1>3
<1>5. report(inc).vals \in [DOMAIN Members[srv[r].datSet] -> Attrs \cup {None}]  BY <1>4
<1>6. report(inc).vals \in Contents  BY <1>2, <1>5 DEF Contents
<1>7. report(inc) \in Reports  BY <1>2, <1>6 DEF Reports
<1> HIDE DEF report
<1>8. wire \in Seq(Reports \cup Answers) /\ Len(wire) < MaxWire  BY DEF ServerReports, TypeOK
<1>9. wire' \in Seq(Reports \cup Answers) /\ Len(wire') <= MaxWire
  BY <1>1, <1>7, <1>8, RcbAssumption
<1>10. UNCHANGED <<srv, loc, toSrv, loop, rx, buf, incl, shown, up, crashed, doubt>>
  BY DEF ServerReports, cfgVars, handlerVars
<1> QED  BY <1>9, <1>10 DEF TypeOK, CallInv

LEMMA MatchType ==
  ASSUME NEW id, NEW h \in Match(id)
  PROVE  h \in Rcbs /\ Config0[h].rptId = id
BY RcbAssumption DEF Match

(* The arrays after a report are those of a data set.                      *)
LEMMA TypeParse ==
  ASSUME TypeOK, NEW h \in Rcbs, NEW rep \in Reports, Parse(h, rep)
  PROVE  /\ buf' \in [Rcbs -> Contents \cup {<<>>}] /\ incl' \in [Rcbs -> SUBSET Positions]
         /\ rx' = [to |-> h, of |-> rep.rcb] /\ rx' \in [to : Rcbs, of : Rcbs]
         /\ crashed' \in BOOLEAN
         /\ ~(Len(rep.vals) > Len(Arrays(buf[h], rep.vals))) => ~crashed'
<1> DEFINE arr == Arrays(buf[h], rep.vals)
<1>1. rep.vals \in Contents /\ rep.rcb \in Rcbs  BY DEF Reports
<1>2. PICK d \in DataSets : arr \in [DOMAIN Members[d] -> Attrs \cup {None}]
  <2>1. CASE buf[h] # <<>>
    <3>1. buf[h] \in Contents  BY <2>1 DEF TypeOK
    <3> QED  BY <2>1, <3>1 DEF Arrays, Contents
  <2>2. CASE buf[h] = <<>>
    <3>1. PICK e \in DataSets : rep.vals \in [DOMAIN Members[e] -> Attrs \cup {None}]
      BY <1>1 DEF Contents
    <3> QED  BY <2>2, <3>1 DEF Arrays
  <2> QED  BY <2>1, <2>2
<1>3. Parsed(arr, rep.vals) \in [DOMAIN Members[d] -> Attrs \cup {None}]
  <2>1. PICK e \in DataSets : rep.vals \in [DOMAIN Members[e] -> Attrs \cup {None}]
    BY <1>1 DEF Contents
  <2>2. \A i \in DOMAIN arr : i \in DOMAIN rep.vals => Update(arr[i], rep.vals[i]) \in Attrs \cup {None}
    BY <1>2, <2>1 DEF Update
  <2> HIDE DEF arr
  <2> QED  BY <1>2, <2>2 DEF Parsed
<1>4. Parsed(arr, rep.vals) \in Contents  BY <1>3 DEF Contents
<1>5. Included(incl[h], arr, rep.vals) \subseteq DOMAIN Members[d]  BY <1>2 DEF Included
<1>6. Included(incl[h], arr, rep.vals) \in SUBSET Positions  BY <1>5 DEF Positions
<1>7. /\ buf' = [buf EXCEPT ![h] = Parsed(arr, rep.vals)]
      /\ incl' = [incl EXCEPT ![h] = Included(incl[h], arr, rep.vals)]
      /\ rx' = [to |-> h, of |-> rep.rcb]
      /\ crashed' \in IF Len(rep.vals) > Len(arr) THEN BOOLEAN ELSE {FALSE}
  BY DEF Parse
<1> HIDE DEF arr
<1>8. buf' \in [Rcbs -> Contents \cup {<<>>}]  BY <1>4, <1>7 DEF TypeOK
<1>9. incl' \in [Rcbs -> SUBSET Positions]  BY <1>6, <1>7 DEF TypeOK
<1>10. crashed' \in BOOLEAN /\ (~(Len(rep.vals) > Len(arr)) => ~crashed')  BY <1>7
<1> QED  BY <1>1, <1>7, <1>8, <1>9, <1>10 DEF arr

LEMMA TypeReportArrives ==
  ASSUME TypeOK, CallInv, ReportArrives
  PROVE  TypeOK' /\ CallInv'
<1>1. wire \in Seq(Reports \cup Answers) /\ wire # <<>> /\ Head(wire).kind = "report"
  BY DEF ReportArrives, TypeOK
<1>2. Head(wire) \in Reports  BY <1>1 DEF Answers
<1>3. wire' \in Seq(Reports \cup Answers) /\ Len(wire') <= Len(wire)  BY <1>1 DEF ReportArrives
<1>4. UNCHANGED <<srv, loc, toSrv, loop, shown, up, doubt>>  BY DEF ReportArrives, cfgVars
<1>5. Len(wire') <= MaxWire  BY <1>1, <1>3, RcbAssumption DEF TypeOK
<1>6. CASE \E h \in Match(Head(wire).id) : Parse(h, Head(wire))
  <2>1. PICK h \in Rcbs : Parse(h, Head(wire))  BY <1>6, MatchType
  <2> QED  BY <1>2, <1>3, <1>4, <1>5, <2>1, TypeParse DEF TypeOK, CallInv
<1>7. CASE UNCHANGED <<buf, incl, rx, crashed>>
  BY <1>3, <1>4, <1>5, <1>7 DEF TypeOK, CallInv
<1> QED  BY <1>6, <1>7 DEF ReportArrives

LEMMA TypeReportDelivered ==
  ASSUME TypeOK, CallInv, ReasonHasValue, ReportDelivered
  PROVE  TypeOK' /\ CallInv'
<1>1. rx # None /\ rx.to \in Rcbs  BY DEF ReportDelivered, TypeOK
<1> DEFINE d == loc[rx.to].datSet
           dir == Members[d]
           arr == buf[rx.to]
           at(a) == CHOOSE i \in DOMAIN dir : dir[i] = a
           has(a) == \E i \in DOMAIN dir \cap incl[rx.to] : dir[i] = a /\ a \in Opened
<1>2. d \in DataSets  BY <1>1 DEF TypeOK, Config
<1>3. \A i, j \in DOMAIN dir : dir[i] = dir[j] => i = j  BY <1>2, RcbAssumption
<1>4. ASSUME NEW a \in Attrs, has(a) PROVE arr[at(a)] \in Attrs \cup {None}
  <2>1. PICK i \in DOMAIN dir \cap incl[rx.to] : dir[i] = a  BY <1>4
  <2>2. at(a) = i  BY <1>3, <2>1
  <2>3. i \in DOMAIN arr /\ arr[i] # None  BY <1>1, <2>1 DEF ReasonHasValue
  <2>4. arr \in Contents \cup {<<>>}  BY <1>1 DEF TypeOK
  <2>5. CASE arr = <<>>  BY <2>3, <2>5
  <2>6. CASE arr \in Contents
    <3>1. PICK e \in DataSets : arr \in [DOMAIN Members[e] -> Attrs \cup {None}]  BY <2>6 DEF Contents
    <3> HIDE DEF arr, at
    <3> QED  BY <2>2, <2>3, <3>1
  <2> QED  BY <2>4, <2>5, <2>6
<1>5. shown' = [a \in Attrs |-> IF has(a) THEN arr[at(a)] ELSE shown[a]]  BY DEF ReportDelivered
<1>6. crashed' \in BOOLEAN  BY DEF ReportDelivered
<1>7. shown' \in [Attrs -> Attrs \cup {None}]
  <2> HIDE DEF has, at, arr
  <2> QED  BY <1>4, <1>5 DEF TypeOK
<1>8. rx' = None /\ UNCHANGED <<srv, loc, toSrv, wire, loop, buf, incl, up, doubt>>
  BY DEF ReportDelivered, cfgVars
<1> QED  BY <1>6, <1>7, <1>8 DEF TypeOK, CallInv

LEMMA TypeAnswerArrives ==
  ASSUME TypeOK, CallInv, AnswerInv, AnswerArrives
  PROVE  TypeOK' /\ CallInv'
<1>1. wire \in Seq(Reports \cup Answers) /\ wire # <<>> /\ Head(wire).kind = "answer"
  BY DEF AnswerArrives, TypeOK
<1>2. Head(wire) \in Answers /\ Head(wire) = wire[1] /\ 1 \in DOMAIN wire  BY <1>1 DEF Reports
<1>3. wire' \in Seq(Reports \cup Answers) /\ Len(wire') <= MaxWire
  BY <1>1, RcbAssumption DEF AnswerArrives, TypeOK
<1>4. UNCHANGED <<srv, loc, toSrv, rx, buf, incl, shown, up, crashed, doubt>>
  BY DEF AnswerArrives, cfgVars, handlerVars
<1>5. CASE Head(wire).late
  BY <1>3, <1>4, <1>5 DEF AnswerArrives, TypeOK, CallInv
<1>6. CASE ~Head(wire).late
  <2> DEFINE ans == [ok |-> Head(wire).ok, cfg |-> Head(wire).cfg]
  <2>1. ans \in [ok : BOOLEAN, cfg : Config \cup {None}]  BY <1>2 DEF Answers
  <2>2. loop' = [loop EXCEPT !.ans = ans]  BY <1>6 DEF AnswerArrives
  <2>3. loop # Idle  BY <1>2, <1>6 DEF AnswerInv, Current, Answers
  <2> HIDE DEF ans
  <2>4. loop.op # "idle"  BY <2>3 DEF CallInv
  <2>5. /\ loop'.op = loop.op /\ loop'.rcb = loop.rcb /\ loop' # Idle
        /\ loop' \in [op : Ops \cup {"idle"}, rcb : Rcbs \cup {None},
                      ans : [ok : BOOLEAN, cfg : Config \cup {None}] \cup {None}]
    BY <2>1, <2>2, <2>4 DEF TypeOK, Idle
  <2> QED  BY <1>3, <1>4, <2>3, <2>4, <2>5 DEF TypeOK, CallInv
<1> QED  BY <1>5, <1>6

LEMMA TypeConnection ==
  ASSUME TypeOK, CallInv, ConnectionLost \/ Reconnect
  PROVE  TypeOK' /\ CallInv'
<1>1. CASE Reconnect
  BY <1>1 DEF Reconnect, cfgVars, handlerVars, TypeOK, CallInv
<1>2. CASE ConnectionLost
  <2>1. /\ up' = FALSE /\ toSrv' = <<>> /\ wire' = <<>>
        /\ srv' = [r \in Rcbs |-> [srv[r] EXCEPT !.rptEna = FALSE]]
        /\ loop' = Idle \/ UNCHANGED loop
        /\ doubt' = doubt \cup {r \in Rcbs : srv[r].rptEna} \cup {r \in Rcbs : loop.rcb = r}
        /\ UNCHANGED <<loc, rx, buf, incl, shown, crashed>>
    BY <1>2 DEF ConnectionLost, handlerVars
  <2>2. srv' \in [Rcbs -> Config]
    <3>1. \A c \in Config : [c EXCEPT !.rptEna = FALSE] \in Config  BY DEF Config
    <3>2. \A r \in Rcbs : srv[r] \in Config  BY DEF TypeOK
    <3> QED  BY <2>1, <3>1, <3>2
  <2>3. toSrv' \in Seq(Requests) /\ Len(toSrv') = 0 /\ wire' \in Seq(Reports \cup Answers) /\ Len(wire') = 0
    BY <2>1
  <2>4. Len(toSrv') <= MaxQueue /\ Len(wire') <= MaxWire  BY <2>3, RcbAssumption
  <2>5. loop' \in [op : Ops \cup {"idle"}, rcb : Rcbs \cup {None},
                   ans : [ok : BOOLEAN, cfg : Config \cup {None}] \cup {None}]
    BY <2>1, IdleType DEF TypeOK
  <2>6. doubt' \in SUBSET Rcbs  BY <2>1 DEF TypeOK
  <2>7. TypeOK'  BY <2>1, <2>2, <2>3, <2>4, <2>5, <2>6 DEF TypeOK
  <2>8. loop.op # "idle" => loop.rcb \in doubt'  BY <2>1 DEF CallInv
  <2>9. CallInv'  BY <2>1, <2>3, <2>8, IdleType, RcbAssumption DEF CallInv
  <2> QED  BY <2>7, <2>9
<1> QED  BY <1>1, <1>2

-----------------------------------------------------------------------------
(* The order of requests, answers and reports *)

LEMMA ReportsShift ==
  ASSUME wire \in Seq(Reports \cup Answers), wire # <<>>, wire' = Tail(wire), NEW r, NEW i \in Nat,
         ReportsOf(r, i)'
  PROVE  ReportsOf(r, i + 1) /\ ReportsOf(r, 0)
<1>1. PICK j \in DOMAIN wire' : j > i /\ wire'[j].kind = "report" /\ wire'[j].rcb = r
  BY DEF ReportsOf
<1>2. j + 1 \in DOMAIN wire /\ wire[j + 1] = wire'[j] /\ j + 1 > i + 1 /\ j + 1 > 0  BY <1>1
<1> QED  BY <1>1, <1>2 DEF ReportsOf

LEMMA ReportsBeforeAnswer ==
  ASSUME wire \in Seq(Reports \cup Answers), NEW m \in Reports \cup Answers, m.kind = "answer",
         wire' = Append(wire, m), NEW r, NEW i \in Nat, ReportsOf(r, i)'
  PROVE  ReportsOf(r, i)
<1>1. PICK j \in DOMAIN wire' : j > i /\ wire'[j].kind = "report" /\ wire'[j].rcb = r
  BY DEF ReportsOf
<1>2. j \in DOMAIN wire /\ wire[j] = wire'[j]  BY <1>1
<1> QED  BY <1>1, <1>2 DEF ReportsOf

LEMMA ReportsMarked ==
  ASSUME wire \in Seq(Reports \cup Answers), wire' = Late(wire), NEW r, ReportsOf(r, 0)'
  PROVE  ReportsOf(r, 0)
<1>1. PICK j \in DOMAIN wire' : j > 0 /\ wire'[j].kind = "report" /\ wire'[j].rcb = r
  BY DEF ReportsOf
<1>2. j \in DOMAIN wire /\ wire[j] = wire'[j]  BY <1>1, LateMessages
<1> QED  BY <1>1, <1>2 DEF ReportsOf

(* What the invariant says of an RCB that is steady.                       *)
Tracked(r) ==
  /\ loc[r] = srv[r]
  /\ ReportsOf(r, 0) \/ (rx # None /\ rx.of = r) => srv[r].rptEna

(* What it says while the event loop is idle.                              *)
IdleInv ==
  /\ \A i \in DOMAIN toSrv :
       /\ toSrv[i].late
       /\ toSrv[i].op = "write" =>
            /\ toSrv[i].field \in Settable /\ toSrv[i].val \in FieldValues(toSrv[i].field)
            /\ toSrv[i].rcb \in doubt
  /\ \A i \in DOMAIN wire : ~Current(wire[i])
  /\ \A r \in Rcbs : r \notin doubt => Tracked(r)

LEMMA IdleIn ==
  ASSUME TypeOK, IInv, loop = Idle
  PROVE  IdleInv
<1>1. loop.op = "idle" /\ loop.rcb = None /\ loop.ans = None  BY DEF Idle
<1>2. ASSUME NEW i \in DOMAIN toSrv
      PROVE  /\ toSrv[i].late
             /\ toSrv[i].op = "write" =>
                  /\ toSrv[i].field \in Settable /\ toSrv[i].val \in FieldValues(toSrv[i].field)
                  /\ toSrv[i].rcb \in doubt
  <2>1. toSrv \in Seq(Requests)  BY DEF TypeOK
  <2>2. toSrv[i] \in Requests  BY <2>1
  <2>3. toSrv[i].op # "idle" /\ toSrv[i].late \in BOOLEAN  BY <2>2 DEF Requests, Ops
  <2>4. ASSUME ~toSrv[i].late  PROVE loop.op = toSrv[i].op
    <3>1. loop = [op |-> toSrv[i].op, rcb |-> toSrv[i].rcb, ans |-> None]  BY <2>4 DEF IInv, QueueInv
    <3> QED  BY <3>1
  <2>5. toSrv[i].late  BY <1>1, <2>3, <2>4
  <2> QED  BY <1>1, <2>5 DEF IInv, QueueInv
<1>3. \A i \in DOMAIN wire : ~Current(wire[i])  BY DEF IInv, AnswerInv
<1>4. \A r \in Rcbs : r \notin doubt => Tracked(r)
  BY <1>1, RcbAssumption DEF IInv, SteadyInv, Steady, Tracked
<1> QED  BY <1>2, <1>3, <1>4 DEF IdleInv

LEMMA IdleOut ==
  ASSUME loop' = Idle, IdleInv'
  PROVE  QueueInv' /\ AnswerInv' /\ SteadyInv'
<1>1. loop'.ans = None  BY DEF Idle
<1>2. QueueInv'  BY DEF IdleInv, QueueInv
<1>3. AnswerInv'  BY <1>1 DEF IdleInv, AnswerInv
<1>4. SteadyInv'  BY DEF IdleInv, SteadyInv, Steady, Tracked
<1> QED  BY <1>2, <1>3, <1>4

(* An idle event loop sends a request.                                     *)
LEMMA IdleSends ==
  ASSUME TypeOK, IdleInv, NEW q \in Requests, ~q.late, SendAfter(toSrv, q),
         UNCHANGED <<srv, wire, rx, doubt>>,
         q.op = "write" => q.field \in Settable /\ q.val \in FieldValues(q.field),
         q.op = "write" /\ q.rcb \notin doubt => loc'[q.rcb] = [srv[q.rcb] EXCEPT ![q.field] = q.val],
         \A r \in Rcbs : r # q.rcb \/ q.op = "gi" => loc'[r] = loc[r]
  PROVE  QueueInv' /\ AnswerInv' /\ SteadyInv'
<1>1. toSrv \in Seq(Requests)  BY DEF TypeOK
<1>2. loop' = [op |-> q.op, rcb |-> q.rcb, ans |-> None] /\ loop'.op = q.op /\ loop'.rcb = q.rcb /\ loop'.ans = None
  BY <1>1, SendType
<1>3. \A i \in DOMAIN toSrv' : \/ i \in DOMAIN toSrv /\ toSrv'[i] = toSrv[i]
                               \/ i = Len(toSrv') /\ toSrv'[i] = q
  BY <1>1, SendType
<1>4. QueueInv'
  <2> SUFFICES ASSUME NEW i \in DOMAIN toSrv'
               PROVE  LET p == toSrv'[i] IN
                      /\ p.op = "write" => p.field \in Settable /\ p.val \in FieldValues(p.field)
                      /\ ~p.late =>
                           /\ i = Len(toSrv')
                           /\ loop' = [op |-> p.op, rcb |-> p.rcb, ans |-> None]
                           /\ \A j \in DOMAIN wire' : ~Current(wire'[j])
                           /\ p.op = "write" /\ p.rcb \notin doubt'
                              => loc'[p.rcb] = [srv'[p.rcb] EXCEPT ![p.field] = p.val]
                      /\ p.late /\ p.op = "write"
                         => p.rcb \in doubt' \/ (loop'.op = "read" /\ loop'.rcb = p.rcb)
    BY DEF QueueInv, Current
  <2>1. CASE i \in DOMAIN toSrv /\ toSrv'[i] = toSrv[i]  BY <2>1 DEF IdleInv
  <2>2. CASE i = Len(toSrv') /\ toSrv'[i] = q  BY <1>2, <2>2 DEF IdleInv
  <2> QED  BY <1>3, <2>1, <2>2
<1>5. AnswerInv'  BY <1>2 DEF AnswerInv, IdleInv, Current
<1>6. SteadyInv'
  <2> SUFFICES ASSUME NEW r \in Rcbs, Steady(r)'
               PROVE  loc'[r] = srv'[r] /\ (ReportsOf(r, 0)' \/ (rx' # None /\ rx'.of = r) => srv'[r].rptEna)
    BY DEF SteadyInv
  <2>1. r \notin doubt /\ (r # q.rcb \/ q.op = "gi")  BY <1>2 DEF Steady
  <2> QED  BY <2>1 DEF IdleInv, Tracked, ReportsOf
<1> QED  BY <1>4, <1>5, <1>6

LEMMA InvSetField ==
  ASSUME TypeOK, IInv, NEW r \in Rcbs, NEW f \in Settable, NEW v \in FieldValues(f), SetField(r, f, v)
  PROVE  QueueInv' /\ AnswerInv' /\ SteadyInv'
<1>1. IdleInv  BY IdleIn DEF SetField, Invocable
<1>2. f \in Fields  BY RcbAssumption
<1>3. loc' = [loc EXCEPT ![r] = [loc[r] EXCEPT ![f] = v]] /\ UNCHANGED <<srv, wire, rx>>
  BY DEF SetField
<1>4. CASE up
  <2> DEFINE q == Request("write", r, f, v)
  <2>1. q \in Requests /\ ~q.late /\ q.op = "write" /\ q.rcb = r /\ q.field = f /\ q.val = v
    BY <1>2, RequestType DEF Request
  <2>2. SendAfter(toSrv, q) /\ UNCHANGED doubt  BY <1>4 DEF SetField
  <2>3. r \notin doubt => loc'[r] = [srv[r] EXCEPT ![f] = v]
    BY <1>1, <1>3 DEF IdleInv, Tracked, TypeOK
  <2>4. \A s \in Rcbs : s # r => loc'[s] = loc[s]  BY <1>3 DEF TypeOK
  <2> HIDE DEF q
  <2> QED  BY <1>1, <1>3, <2>1, <2>2, <2>3, <2>4, IdleSends
<1>5. CASE ~up
  <2>1. loop' = Idle /\ UNCHANGED toSrv /\ doubt' = doubt \cup {r}
    BY <1>5 DEF SetField, WriteUnconnected, Return
  <2>2. \A s \in Rcbs : s # r => loc'[s] = loc[s]  BY <1>3 DEF TypeOK
  <2>3. IdleInv'  BY <1>1, <1>3, <2>1, <2>2 DEF IdleInv, Tracked, ReportsOf, Current
  <2> QED  BY <2>1, <2>3, IdleOut
<1> QED  BY <1>4, <1>5

LEMMA InvRead ==
  ASSUME TypeOK, IInv, NEW r \in Rcbs, ReadRcb(r) \/ ForceGI(r)
  PROVE  QueueInv' /\ AnswerInv' /\ SteadyInv'
<1>1. IdleInv  BY IdleIn DEF ReadRcb, ForceGI, Invocable
<1>2. UNCHANGED <<srv, loc, wire, rx, doubt>>  BY DEF ReadRcb, ForceGI, cfgVars
<1>3. CASE ReadRcb(r)
  <2>1. SendAfter(toSrv, Read(r))  BY <1>3 DEF ReadRcb
  <2> QED  BY <1>1, <1>2, <2>1, RequestType, IdleSends
<1>4. CASE ForceGI(r) /\ up
  <2> DEFINE q == Request("gi", r, None, None)
  <2>1. SendAfter(toSrv, q)  BY <1>4 DEF ForceGI
  <2>2. q \in Requests /\ ~q.late /\ q.op = "gi"  BY RequestType DEF Request
  <2> HIDE DEF q
  <2> QED  BY <1>1, <1>2, <2>1, <2>2, IdleSends
<1>5. CASE ForceGI(r) /\ ~up
  <2>1. loop' = Idle /\ UNCHANGED toSrv  BY <1>5 DEF ForceGI, WriteUnconnected, Return
  <2>2. IdleInv'  BY <1>1, <1>2, <2>1 DEF IdleInv, Tracked, ReportsOf, Current
  <2> QED  BY <2>1, <2>2, IdleOut
<1> QED  BY <1>3, <1>4, <1>5

(* The answer that the event loop takes is the answer to the youngest      *)
(* request.                                                                *)
LEMMA InvDone ==
  ASSUME TypeOK, IInv, WriteDone \/ ReadDone \/ GIDone
  PROVE  QueueInv' /\ AnswerInv' /\ SteadyInv'
<1>1. /\ loop.ans # None /\ loop.op \in Ops /\ loop.rcb \in Rcbs /\ loop # Idle
      /\ UNCHANGED <<srv, wire, rx, up>>
  BY DEF WriteDone, ReadDone, GIDone, Answered, IInv, CallInv, Ops, Idle, cfgVars
<1>2. /\ toSrv = <<>> /\ \A i \in DOMAIN wire : ~Current(wire[i])
      /\ AnswerTrue(loop.ans.ok, loop.ans.cfg)
      /\ ReportsOf(loop.rcb, 0) \/ (rx # None /\ rx.of = loop.rcb) => srv[loop.rcb].rptEna
  BY <1>1 DEF IInv, AnswerInv, AnswerTrue
<1>3. \A i \in DOMAIN wire' : ~Current(wire[i])'  BY <1>1, <1>2 DEF Current
<1>4. \A r \in Rcbs : r # loop.rcb => loc'[r] = loc[r]
  BY <1>1 DEF WriteDone, ReadDone, GIDone, cfgVars, TypeOK
<1>5. CASE Return /\ (WriteDone => loop.ans.ok \/ ~up)
  <2>1. loop' = Idle /\ toSrv' = <<>>  BY <1>2, <1>5 DEF Return
  <2>2. ASSUME NEW r \in Rcbs, r \notin doubt'
        PROVE  Tracked(r)'
    <3>1. CASE r # loop.rcb
      <4>1. r \notin doubt  BY <2>2, <3>1 DEF WriteDone, ReadDone, GIDone
      <4>2. loc[r] = srv[r] /\ (ReportsOf(r, 0) \/ (rx # None /\ rx.of = r) => srv[r].rptEna)
        BY <3>1, <4>1 DEF IInv, SteadyInv, Steady
      <4> QED  BY <1>1, <1>4, <3>1, <4>2 DEF Tracked, ReportsOf
    <3>2. CASE r = loop.rcb
      <4>1. loc'[r] = srv[r]
        <5>1. CASE GIDone
          <6>1. loop.op = "gi" /\ r \notin doubt /\ loc' = loc
            BY <2>2, <5>1 DEF GIDone, Answered, cfgVars
          <6> QED  BY <6>1 DEF IInv, SteadyInv, Steady
        <5>2. CASE WriteDone
          <6>1. loop.op = "write" /\ loop.ans.ok /\ r \notin doubt /\ loc' = loc
            BY <1>5, <2>2, <3>2, <5>2 DEF WriteDone, Answered, cfgVars
          <6> QED  BY <1>2, <3>2, <6>1 DEF AnswerTrue
        <5>3. CASE ReadDone
          <6>1. loop.op = "read" /\ loc'[r] = loop.ans.cfg
            BY <3>2, <5>3 DEF ReadDone, Answered, TypeOK
          <6>2. up  BY <1>1, <2>2, <3>2, <5>3 DEF ReadDone, IInv, CallInv
          <6> QED  BY <1>2, <3>2, <6>1, <6>2 DEF AnswerTrue
        <5> QED  BY <5>1, <5>2, <5>3
      <4> QED  BY <1>1, <1>2, <3>2, <4>1 DEF Tracked, ReportsOf
    <3> QED  BY <3>1, <3>2
  <2>3. IdleInv'  BY <1>3, <2>1, <2>2 DEF IdleInv
  <2> QED  BY <2>1, <2>3, IdleOut
<1>6. CASE WriteDone /\ ~loop.ans.ok /\ up
  <2>1. SendAfter(<<>>, Read(loop.rcb)) /\ UNCHANGED <<loc, doubt>>
    BY <1>2, <1>6 DEF WriteDone, cfgVars, SendAfter
  <2>2. /\ Read(loop.rcb) \in Requests /\ Read(loop.rcb).op = "read"
        /\ Read(loop.rcb).rcb = loop.rcb /\ ~Read(loop.rcb).late
    BY <1>1, RequestType
  <2>3. /\ loop' = [op |-> "read", rcb |-> loop.rcb, ans |-> None]
        /\ loop'.op = "read" /\ loop'.rcb = loop.rcb /\ loop'.ans = None
        /\ \A i \in DOMAIN toSrv' : i = Len(toSrv') /\ toSrv'[i] = Read(loop.rcb)
    <3>1. toSrv' = <<Read(loop.rcb)>> /\ loop' = [op |-> "read", rcb |-> loop.rcb, ans |-> None]
      BY <2>1, <2>2 DEF SendAfter
    <3> HIDE DEF Read
    <3> QED  BY <3>1
  <2>4. QueueInv'  BY <1>3, <2>2, <2>3 DEF QueueInv
  <2>5. AnswerInv'  BY <1>3, <2>3 DEF AnswerInv
  <2>6. SteadyInv'
    BY <1>1, <2>1, <2>3 DEF IInv, SteadyInv, Steady, ReportsOf
  <2> QED  BY <2>4, <2>5, <2>6
<1> QED  BY <1>5, <1>6 DEF WriteDone, ReadDone, GIDone

LEMMA InvTimeout ==
  ASSUME TypeOK, IInv, Timeout
  PROVE  QueueInv' /\ AnswerInv' /\ SteadyInv'
<1>1. toSrv \in Seq(Requests) /\ wire \in Seq(Reports \cup Answers)  BY DEF TypeOK
<1>2. /\ loop # Idle /\ loop.ans = None /\ loop.rcb \in Rcbs /\ loop.op \in Ops
      /\ UNCHANGED <<srv, loc, rx, up>> /\ wire' = Late(wire)
      /\ doubt' = IF loop.op = "read" THEN doubt \cup {loop.rcb} ELSE doubt
  BY DEF Timeout, Expires, IInv, CallInv, TypeOK, Ops, cfgVars
<1>3. \A i \in DOMAIN wire' : ~Current(wire[i])'
  <2>1. \A i \in DOMAIN wire' : ~Current(wire'[i])  BY <1>1, <1>2, LateMessages
  <2> QED  BY <2>1 DEF Current
<1>4. \A r \in Rcbs : ReportsOf(r, 0)' => ReportsOf(r, 0)  BY <1>1, <1>2, ReportsMarked
<1>5. \A i \in DOMAIN Late(toSrv) :
        /\ i \in DOMAIN toSrv /\ Late(toSrv)[i].late
        /\ Late(toSrv)[i].op = "write" =>
             /\ Late(toSrv)[i].field \in Settable
             /\ Late(toSrv)[i].val \in FieldValues(Late(toSrv)[i].field)
             /\ Late(toSrv)[i].rcb \in doubt \/ (loop.op \in {"read", "write"} /\ Late(toSrv)[i].rcb = loop.rcb)
  <2> TAKE i \in DOMAIN Late(toSrv)
  <2>1. i \in DOMAIN toSrv /\ toSrv[i] \in Requests /\ Late(toSrv)[i] = [toSrv[i] EXCEPT !.late = TRUE]
    <3>1. DOMAIN Late(toSrv) = DOMAIN toSrv  BY <1>1, LateRequests
    <3>2. i \in DOMAIN toSrv  BY <3>1
    <3>3. Late(toSrv)[i] = [toSrv[i] EXCEPT !.late = TRUE]  BY <1>1, <3>2, LateRequests
    <3> QED  BY <1>1, <3>2, <3>3
  <2>2. /\ Late(toSrv)[i].late /\ Late(toSrv)[i].op = toSrv[i].op /\ Late(toSrv)[i].rcb = toSrv[i].rcb
        /\ Late(toSrv)[i].field = toSrv[i].field /\ Late(toSrv)[i].val = toSrv[i].val
    BY <2>1 DEF Requests
  <2>3. ASSUME ~toSrv[i].late  PROVE loop.op = toSrv[i].op /\ loop.rcb = toSrv[i].rcb
    <3>1. loop = [op |-> toSrv[i].op, rcb |-> toSrv[i].rcb, ans |-> None]
      BY <2>1, <2>3 DEF IInv, QueueInv
    <3> QED  BY <3>1
  <2>4. toSrv[i].op = "write" =>
          /\ toSrv[i].field \in Settable /\ toSrv[i].val \in FieldValues(toSrv[i].field)
          /\ toSrv[i].late => toSrv[i].rcb \in doubt \/ (loop.op = "read" /\ loop.rcb = toSrv[i].rcb)
    BY <2>1 DEF IInv, QueueInv
  <2> QED  BY <2>1, <2>2, <2>3, <2>4
<1>6. CASE loop.op # "write"
  <2>1. loop' = Idle /\ toSrv' = Late(toSrv)  BY <1>6 DEF Timeout
  <2>2. ASSUME NEW r \in Rcbs, r \notin doubt'
        PROVE  Tracked(r)'
    <3>1. Steady(r)  BY <1>2, <1>6, <2>2 DEF Steady, Ops
    <3>2. loc[r] = srv[r] /\ (ReportsOf(r, 0) \/ (rx # None /\ rx.of = r) => srv[r].rptEna)
      BY <3>1 DEF IInv, SteadyInv
    <3> QED  BY <1>2, <1>4, <3>2 DEF Tracked
  <2>3. IdleInv'  BY <1>2, <1>3, <1>5, <1>6, <2>1, <2>2 DEF IdleInv
  <2> QED  BY <2>1, <2>3, IdleOut
<1>7. CASE loop.op = "write"
  <2>1. SendAfter(Late(toSrv), Read(loop.rcb)) /\ UNCHANGED doubt  BY <1>2, <1>7 DEF Timeout
  <2>2. /\ Read(loop.rcb) \in Requests /\ Read(loop.rcb).op = "read"
        /\ Read(loop.rcb).rcb = loop.rcb /\ ~Read(loop.rcb).late
    BY <1>2, RequestType
  <2>3. /\ Late(toSrv) \in Seq(Requests)
        /\ loop' = [op |-> "read", rcb |-> loop.rcb, ans |-> None]
        /\ loop'.op = "read" /\ loop'.rcb = loop.rcb /\ loop'.ans = None
        /\ \A i \in DOMAIN toSrv' : \/ i \in DOMAIN Late(toSrv) /\ toSrv'[i] = Late(toSrv)[i]
                                    \/ i = Len(toSrv') /\ toSrv'[i] = Read(loop.rcb)
    BY <1>1, <2>1, <2>2, LateRequests, SendType
  <2>4. QueueInv'
    <3> SUFFICES ASSUME NEW i \in DOMAIN toSrv'
                 PROVE  LET q == toSrv'[i] IN
                        /\ q.op = "write" => q.field \in Settable /\ q.val \in FieldValues(q.field)
                        /\ ~q.late => /\ i = Len(toSrv') /\ loop' = [op |-> q.op, rcb |-> q.rcb, ans |-> None]
                                      /\ q.op # "write"
                        /\ q.late /\ q.op = "write"
                           => q.rcb \in doubt' \/ (loop'.op = "read" /\ loop'.rcb = q.rcb)
      BY <1>3 DEF QueueInv
    <3>1. CASE i \in DOMAIN Late(toSrv) /\ toSrv'[i] = Late(toSrv)[i]  BY <1>5, <2>1, <2>3, <3>1
    <3>2. CASE i = Len(toSrv') /\ toSrv'[i] = Read(loop.rcb)  BY <2>2, <2>3, <3>2
    <3> QED  BY <2>3, <3>1, <3>2
  <2>5. AnswerInv'  BY <1>3, <2>3 DEF AnswerInv
  <2>6. SteadyInv'
    <3> SUFFICES ASSUME NEW r \in Rcbs, Steady(r)'
                 PROVE  loc'[r] = srv'[r] /\ (ReportsOf(r, 0)' \/ (rx' # None /\ rx'.of = r) => srv'[r].rptEna)
      BY DEF SteadyInv
    <3>1. Steady(r)  BY <2>1, <2>3 DEF Steady
    <3> QED  BY <1>2, <1>4, <3>1 DEF IInv, SteadyInv
  <2> QED  BY <2>4, <2>5, <2>6
<1> QED  BY <1>6, <1>7

(* The server serves the oldest request.                                   *)
LEMMA InvServerAnswers ==
  ASSUME TypeOK, IInv, ServerAnswers
  PROVE  QueueInv' /\ AnswerInv' /\ SteadyInv'
<1> DEFINE q == Head(toSrv)
           served == [srv EXCEPT ![q.rcb] = [srv[q.rcb] EXCEPT ![q.field] = q.val]]
<1>1. /\ toSrv \in Seq(Requests) /\ toSrv # <<>> /\ wire \in Seq(Reports \cup Answers)
      /\ toSrv' = Tail(toSrv) /\ UNCHANGED <<loc, loop, rx, up, doubt>>
  BY DEF ServerAnswers, TypeOK
<1>2. q \in Requests /\ q = toSrv[1] /\ 1 \in DOMAIN toSrv  BY <1>1
<1>3. PICK ok \in BOOLEAN : /\ wire' = Append(wire, Answer(q, ok))
                            /\ q.op = "write" /\ ok => srv' = served
                            /\ ~(q.op = "write" /\ ok) => srv' = srv
  <2>1. CASE q.op = "write" /\ wire' = Append(wire, Answer(q, TRUE)) /\ srv' = served  BY <2>1
  <2>2. CASE wire' = Append(wire, Answer(q, FALSE)) /\ srv' = srv  BY <2>2
  <2>3. CASE q.op # "write" /\ wire' = Append(wire, Answer(q, TRUE)) /\ srv' = srv  BY <2>3
  <2> HIDE DEF Answer
  <2> QED  BY <2>1, <2>2, <2>3 DEF ServerAnswers
<1> DEFINE m == Answer(q, ok)
<1>4. /\ m \in Answers /\ m \in Reports \cup Answers /\ m.kind = "answer" /\ m.late = q.late /\ m.ok = ok
      /\ q.op = "read" => m.cfg = srv[q.rcb] /\ m.cfg \in Config
  BY <1>2 DEF Answer, Answers, Requests, TypeOK
<1>5. wire' = Append(wire, m)  BY <1>3
<1>6. \A r \in Rcbs : r # q.rcb \/ q.op # "write" => srv'[r] = srv[r]
  BY <1>3 DEF TypeOK
<1>7. q.op = "write" /\ ok => srv'[q.rcb] = [srv[q.rcb] EXCEPT ![q.field] = q.val]
  BY <1>2, <1>3 DEF TypeOK, Requests
<1> HIDE DEF m, q, served
<1>8. \A i \in DOMAIN wire' : \/ i \in DOMAIN wire /\ wire'[i] = wire[i]
                              \/ i = Len(wire') /\ wire'[i] = m
  BY <1>1, <1>4, <1>5
<1>9. loop.ans = None /\ \A i \in DOMAIN wire : ~Current(wire[i])
  BY <1>1 DEF IInv, AnswerInv, AnswerTrue
<1>10. \A r \in Rcbs : ReportsOf(r, 0)' => ReportsOf(r, 0)
  BY <1>1, <1>4, <1>5, ReportsBeforeAnswer
<1>11. /\ q.late /\ q.op = "write" => q.rcb \in doubt \/ (loop.op = "read" /\ loop.rcb = q.rcb)
       /\ ~q.late => /\ Len(toSrv) = 1 /\ loop = [op |-> q.op, rcb |-> q.rcb, ans |-> None]
                     /\ q.op = "write" /\ q.rcb \notin doubt
                        => loc[q.rcb] = [srv[q.rcb] EXCEPT ![q.field] = q.val]
  BY <1>2 DEF IInv, QueueInv
<1>12. CASE q.late
  <2>1. \A i \in DOMAIN wire' : ~Current(wire'[i])  BY <1>4, <1>8, <1>9, <1>12 DEF Current
  <2>2. QueueInv'
    <3> SUFFICES ASSUME NEW i \in DOMAIN toSrv'
                 PROVE  LET p == toSrv'[i] IN
                        /\ p.op = "write" => p.field \in Settable /\ p.val \in FieldValues(p.field)
                        /\ ~p.late =>
                             /\ i = Len(toSrv')
                             /\ loop' = [op |-> p.op, rcb |-> p.rcb, ans |-> None]
                             /\ \A j \in DOMAIN wire' : ~Current(wire'[j])
                             /\ p.op = "write" /\ p.rcb \notin doubt'
                                => loc'[p.rcb] = [srv'[p.rcb] EXCEPT ![p.field] = p.val]
                        /\ p.late /\ p.op = "write"
                           => p.rcb \in doubt' \/ (loop'.op = "read" /\ loop'.rcb = p.rcb)
      BY DEF QueueInv, Current
    <3> DEFINE p == toSrv'[i]
    <3>1. i + 1 \in DOMAIN toSrv /\ p = toSrv[i + 1] /\ Len(toSrv) = Len(toSrv') + 1 /\ i \in Nat
          /\ Len(toSrv') \in Nat /\ p \in Requests
      BY <1>1
    <3> HIDE DEF p
    <3>2. /\ p.op = "write" => p.field \in Settable /\ p.val \in FieldValues(p.field)
          /\ ~p.late =>
               /\ i + 1 = Len(toSrv)
               /\ loop = [op |-> p.op, rcb |-> p.rcb, ans |-> None]
               /\ p.op = "write" /\ p.rcb \notin doubt
                  => loc[p.rcb] = [srv[p.rcb] EXCEPT ![p.field] = p.val]
          /\ p.late /\ p.op = "write" => p.rcb \in doubt \/ (loop.op = "read" /\ loop.rcb = p.rcb)
      BY <3>1 DEF IInv, QueueInv
    <3>3. ~p.late /\ p.op = "write" /\ p.rcb \notin doubt => srv'[p.rcb] = srv[p.rcb]
      <4>1. p.rcb \in Rcbs  BY <3>1 DEF Requests
      <4>2. ~p.late => loop.op = p.op  BY <3>2
      <4> QED  BY <1>6, <1>11, <1>12, <4>1, <4>2
    <3>4. ~p.late => i = Len(toSrv')  BY <3>1, <3>2
    <3> QED  BY <1>1, <2>1, <3>2, <3>3, <3>4 DEF p
  <2>3. AnswerInv'  BY <1>1, <1>9, <2>1 DEF AnswerInv, Current
  <2>4. SteadyInv'
    <3> SUFFICES ASSUME NEW r \in Rcbs, Steady(r)'
                 PROVE  loc'[r] = srv'[r] /\ (ReportsOf(r, 0)' \/ (rx' # None /\ rx'.of = r) => srv'[r].rptEna)
      BY DEF SteadyInv
    <3>1. Steady(r)  BY <1>1 DEF Steady
    <3>2. srv'[r] = srv[r]  BY <1>6, <1>11, <1>12, <3>1 DEF Steady
    <3> QED  BY <1>1, <1>10, <3>1, <3>2 DEF IInv, SteadyInv
  <2> QED  BY <2>2, <2>3, <2>4
<1>13. CASE ~q.late
  <2>1. toSrv' = <<>>  BY <1>1, <1>11, <1>13
  <2>2. loop.op = q.op /\ loop.rcb = q.rcb /\ q.op \in Ops /\ q.rcb \in Rcbs /\ loop # Idle
    BY <1>2, <1>11, <1>13 DEF Requests, Ops, Idle
  <2>3. QueueInv'  BY <2>1 DEF QueueInv
  <2>4. ASSUME NEW i \in DOMAIN wire', Current(wire'[i])
        PROVE  /\ wire'[i] = m /\ i = Len(wire')
               /\ AnswerTrue(wire[i].ok, wire[i].cfg)'
               /\ ~ReportsOf(loop.rcb, i)'
    <3>1. wire'[i] = m /\ i = Len(wire')  BY <1>8, <1>9, <2>4
    <3>2. q.op = "write" /\ ok /\ q.rcb \notin doubt => loc[q.rcb] = srv'[q.rcb]
      BY <1>7, <1>11, <1>13
    <3>3. q.op = "read" => m.cfg \in Config /\ m.cfg = srv'[q.rcb]  BY <1>4, <1>6, <2>2
    <3>4. toSrv' = <<>> /\ m.ok = ok  BY <1>4, <2>1
    <3>5. AnswerTrue(wire[i].ok, wire[i].cfg)'
      <4>1. /\ toSrv' = <<>>
            /\ loop'.op = "write" /\ m.ok /\ loop'.rcb \notin doubt' => loc'[loop'.rcb] = srv'[loop'.rcb]
            /\ loop'.op = "read" => m.cfg \in Config /\ (up' => m.cfg = srv'[loop'.rcb])
        BY <1>1, <2>2, <3>2, <3>3, <3>4
      <4> QED  BY <3>1, <4>1 DEF AnswerTrue
    <3>6. ~ReportsOf(loop.rcb, i)'  BY <1>1, <1>4, <1>5, <3>1 DEF ReportsOf
    <3> QED  BY <3>1, <3>5, <3>6
  <2>5. AnswerInv'
    BY <1>1, <1>9, <2>2, <2>4 DEF AnswerInv, Current
  <2>6. SteadyInv'
    <3> SUFFICES ASSUME NEW r \in Rcbs, Steady(r)'
                 PROVE  loc'[r] = srv'[r] /\ (ReportsOf(r, 0)' \/ (rx' # None /\ rx'.of = r) => srv'[r].rptEna)
      BY DEF SteadyInv
    <3>1. Steady(r)  BY <1>1 DEF Steady
    <3>2. srv'[r] = srv[r]  BY <1>6, <2>2, <3>1 DEF Steady
    <3> QED  BY <1>1, <1>10, <3>1, <3>2 DEF IInv, SteadyInv
  <2> QED  BY <2>3, <2>5, <2>6
<1> QED  BY <1>12, <1>13

(* A report joins the wire.                                                *)
LEMMA InvServerReports ==
  ASSUME TypeOK, IInv, NEW s \in Rcbs, ServerReports(s)
  PROVE  QueueInv' /\ AnswerInv' /\ SteadyInv'
<1>1. /\ srv[s].rptEna /\ wire \in Seq(Reports \cup Answers)
      /\ UNCHANGED <<srv, loc, toSrv, loop, rx, up, doubt>>
  BY DEF ServerReports, cfgVars, TypeOK
<1>2. PICK m : wire' = Append(wire, m) /\ m.kind = "report" /\ m.rcb = s
  <2> DEFINE all == Members[srv[s].datSet]
             rep(inc) == [kind |-> "report", rcb |-> s, id |-> srv[s].rptId,
                          vals |-> [i \in DOMAIN all |-> IF i \in inc THEN all[i] ELSE None]]
  <2>1. PICK inc \in SUBSET DOMAIN all \ {{}} : wire' = Append(wire, rep(inc))
    BY DEF ServerReports
  <2>2. rep(inc).kind = "report" /\ rep(inc).rcb = s  OBVIOUS
  <2> HIDE DEF rep
  <2> QED  BY <2>1, <2>2
<1>3. \A i \in DOMAIN wire' : \/ i \in DOMAIN wire /\ wire'[i] = wire[i]
                              \/ i = Len(wire') /\ wire'[i] = m
  BY <1>1, <1>2
<1>4. \A i \in DOMAIN wire' : Current(wire'[i]) => i \in DOMAIN wire /\ wire'[i] = wire[i]
  BY <1>2, <1>3 DEF Current
<1>5. ASSUME NEW r, NEW i, ReportsOf(r, i)'
      PROVE  ReportsOf(r, i) \/ r = s
  BY <1>2, <1>3, <1>5 DEF ReportsOf
<1>6. QueueInv'  BY <1>1, <1>4 DEF IInv, QueueInv, Current
<1>7. AnswerInv'
  <2>1. ASSUME NEW i \in DOMAIN wire', Current(wire'[i])
        PROVE  /\ loop # Idle /\ loop.ans = None
               /\ AnswerTrue(wire[i].ok, wire[i].cfg)'
               /\ ReportsOf(loop.rcb, i)' => srv[loop.rcb].rptEna
               /\ \A j \in DOMAIN wire' : Current(wire'[j]) => i = j
    <3>1. i \in DOMAIN wire /\ wire'[i] = wire[i] /\ Current(wire[i])  BY <1>4, <2>1
    <3>2. /\ loop # Idle /\ loop.ans = None
          /\ AnswerTrue(wire[i].ok, wire[i].cfg)
          /\ ReportsOf(loop.rcb, i) => srv[loop.rcb].rptEna
          /\ \A j \in DOMAIN wire : Current(wire[j]) => i = j
      BY <3>1 DEF IInv, AnswerInv
    <3>3. AnswerTrue(wire[i].ok, wire[i].cfg)'  BY <1>1, <3>1, <3>2 DEF AnswerTrue
    <3> QED  BY <1>1, <1>4, <1>5, <3>2, <3>3
  <2>2. ASSUME loop.ans # None
        PROVE  /\ \A i \in DOMAIN wire' : ~Current(wire'[i])
               /\ AnswerTrue(loop.ans.ok, loop.ans.cfg)'
               /\ ReportsOf(loop.rcb, 0)' \/ (rx # None /\ rx.of = loop.rcb) => srv[loop.rcb].rptEna
    <3>1. /\ \A i \in DOMAIN wire : ~Current(wire[i])
          /\ AnswerTrue(loop.ans.ok, loop.ans.cfg)
          /\ ReportsOf(loop.rcb, 0) \/ (rx # None /\ rx.of = loop.rcb) => srv[loop.rcb].rptEna
      BY <2>2 DEF IInv, AnswerInv
    <3>2. AnswerTrue(loop.ans.ok, loop.ans.cfg)'  BY <1>1, <3>1 DEF AnswerTrue
    <3> QED  BY <1>1, <1>4, <1>5, <3>1, <3>2
  <2> QED  BY <1>1, <2>1, <2>2 DEF AnswerInv, Current
<1>8. SteadyInv'
  <2> SUFFICES ASSUME NEW r \in Rcbs, Steady(r)'
               PROVE  loc'[r] = srv'[r] /\ (ReportsOf(r, 0)' \/ (rx' # None /\ rx'.of = r) => srv'[r].rptEna)
    BY DEF SteadyInv
  <2>1. Steady(r)  BY <1>1 DEF Steady
  <2> QED  BY <1>1, <1>5, <2>1 DEF IInv, SteadyInv
<1> QED  BY <1>6, <1>7, <1>8

(* A message that no call waits for leaves the wire.                       *)
LEMMA WireShift ==
  ASSUME TypeOK, IInv, wire # <<>>, wire' = Tail(wire), ~Current(Head(wire)),
         UNCHANGED <<srv, loc, toSrv, loop, up, doubt>>,
         \A r \in Rcbs : rx' # None /\ rx'.of = r => ReportsOf(r, 0) \/ (rx # None /\ rx.of = r)
  PROVE  QueueInv' /\ AnswerInv' /\ SteadyInv'
<1>1. wire \in Seq(Reports \cup Answers)  BY DEF TypeOK
<1>2. \A i \in DOMAIN wire' : i \in Nat /\ i + 1 \in DOMAIN wire /\ wire'[i] = wire[i + 1]  BY <1>1
<1>3. \A r : \A i \in Nat : ReportsOf(r, i)' => ReportsOf(r, i + 1) /\ ReportsOf(r, 0)
  BY <1>1, ReportsShift
<1>4. QueueInv'  BY <1>2 DEF IInv, QueueInv, Current
<1>5. AnswerInv'
  <2>1. ASSUME NEW i \in DOMAIN wire', Current(wire'[i])
        PROVE  /\ loop # Idle /\ loop.ans = None
               /\ AnswerTrue(wire[i].ok, wire[i].cfg)'
               /\ ReportsOf(loop.rcb, i)' => srv[loop.rcb].rptEna
               /\ \A j \in DOMAIN wire' : Current(wire'[j]) => i = j
    <3>1. i \in Nat /\ i + 1 \in DOMAIN wire /\ wire'[i] = wire[i + 1] /\ Current(wire[i + 1])
      BY <1>2, <2>1
    <3>2. /\ loop # Idle /\ loop.ans = None
          /\ AnswerTrue(wire[i + 1].ok, wire[i + 1].cfg)
          /\ ReportsOf(loop.rcb, i + 1) => srv[loop.rcb].rptEna
          /\ \A j \in DOMAIN wire : Current(wire[j]) => i + 1 = j
      BY <3>1 DEF IInv, AnswerInv
    <3>3. AnswerTrue(wire[i].ok, wire[i].cfg)'  BY <3>1, <3>2 DEF AnswerTrue
    <3>4. ASSUME NEW j \in DOMAIN wire', Current(wire'[j])  PROVE i = j
      <4>1. j \in Nat /\ i + 1 = j + 1  BY <1>2, <3>2, <3>4
      <4> QED  BY <3>1, <4>1
    <3> QED  BY <1>3, <3>1, <3>2, <3>3, <3>4
  <2>2. ASSUME loop.ans # None
        PROVE  /\ \A i \in DOMAIN wire' : ~Current(wire'[i])
               /\ AnswerTrue(loop.ans.ok, loop.ans.cfg)'
               /\ ReportsOf(loop.rcb, 0)' \/ (rx' # None /\ rx'.of = loop.rcb) => srv[loop.rcb].rptEna
    <3>1. /\ \A i \in DOMAIN wire : ~Current(wire[i])
          /\ AnswerTrue(loop.ans.ok, loop.ans.cfg)
          /\ ReportsOf(loop.rcb, 0) \/ (rx # None /\ rx.of = loop.rcb) => srv[loop.rcb].rptEna
      BY <2>2 DEF IInv, AnswerInv
    <3>2. AnswerTrue(loop.ans.ok, loop.ans.cfg)'  BY <3>1 DEF AnswerTrue
    <3>3. loop.rcb \in Rcbs  BY <2>2 DEF IInv, CallInv, Idle
    <3> QED  BY <1>2, <1>3, <3>1, <3>2, <3>3
  <2> QED  BY <2>1, <2>2 DEF AnswerInv, Current
<1>6. SteadyInv'
  <2> SUFFICES ASSUME NEW r \in Rcbs, Steady(r)'
               PROVE  loc'[r] = srv'[r] /\ (ReportsOf(r, 0)' \/ (rx' # None /\ rx'.of = r) => srv'[r].rptEna)
    BY DEF SteadyInv
  <2>1. Steady(r)  BY DEF Steady
  <2> QED  BY <1>3, <2>1 DEF IInv, SteadyInv
<1> QED  BY <1>4, <1>5, <1>6

LEMMA InvReportArrives ==
  ASSUME TypeOK, IInv, ReportArrives
  PROVE  QueueInv' /\ AnswerInv' /\ SteadyInv'
<1>1. /\ wire \in Seq(Reports \cup Answers) /\ wire # <<>> /\ Head(wire).kind = "report"
      /\ wire' = Tail(wire) /\ UNCHANGED <<srv, loc, toSrv, loop, up, doubt>>
  BY DEF ReportArrives, cfgVars, TypeOK
<1>2. ~Current(Head(wire))  BY <1>1 DEF Current
<1>3. rx' = rx \/ (\E h : rx' = [to |-> h, of |-> Head(wire).rcb])  BY DEF ReportArrives, Parse
<1>4. ReportsOf(Head(wire).rcb, 0)
  <2>1. 1 \in DOMAIN wire /\ Head(wire) = wire[1]  BY <1>1
  <2> QED  BY <1>1, <2>1 DEF ReportsOf
<1>5. \A r \in Rcbs : rx' # None /\ rx'.of = r => ReportsOf(r, 0) \/ (rx # None /\ rx.of = r)
  BY <1>3, <1>4
<1> QED  BY <1>1, <1>2, <1>5, WireShift

LEMMA InvReportDelivered ==
  ASSUME TypeOK, IInv, ReportDelivered
  PROVE  QueueInv' /\ AnswerInv' /\ SteadyInv'
<1>1. rx' = None /\ UNCHANGED <<srv, loc, toSrv, wire, loop, up, doubt>>
  BY DEF ReportDelivered, cfgVars
<1>2. QueueInv'  BY <1>1 DEF IInv, QueueInv, Current
<1>3. AnswerInv'  BY <1>1 DEF IInv, AnswerInv, AnswerTrue, ReportsOf, Current
<1>4. SteadyInv'  BY <1>1 DEF IInv, SteadyInv, Steady, ReportsOf
<1> QED  BY <1>2, <1>3, <1>4

(* The answer reaches the call that waits for it.                          *)
LEMMA InvAnswerArrives ==
  ASSUME TypeOK, IInv, AnswerArrives
  PROVE  QueueInv' /\ AnswerInv' /\ SteadyInv'
<1>1. /\ wire \in Seq(Reports \cup Answers) /\ wire # <<>> /\ wire' = Tail(wire)
      /\ rx = None /\ rx' = None /\ UNCHANGED <<srv, loc, toSrv, up, doubt>>
  BY DEF AnswerArrives, cfgVars, TypeOK
<1>2. CASE Head(wire).late
  <2>1. ~Current(Head(wire)) /\ loop' = loop  BY <1>2 DEF Current, AnswerArrives
  <2> QED  BY <1>1, <2>1, WireShift
<1>3. CASE ~Head(wire).late
  <2> DEFINE ans == [ok |-> Head(wire).ok, cfg |-> Head(wire).cfg]
  <2>1. 1 \in DOMAIN wire /\ Head(wire) = wire[1] /\ Current(wire[1])
    BY <1>1, <1>3 DEF AnswerArrives, Current
  <2>2. /\ loop # Idle /\ AnswerTrue(wire[1].ok, wire[1].cfg)
        /\ ReportsOf(loop.rcb, 1) => srv[loop.rcb].rptEna
        /\ \A j \in DOMAIN wire : Current(wire[j]) => j = 1
    BY <2>1 DEF IInv, AnswerInv
  <2>3. /\ loop'.op = loop.op /\ loop'.rcb = loop.rcb /\ loop'.ans = ans /\ loop' # Idle
        /\ ans.ok = wire[1].ok /\ ans.cfg = wire[1].cfg
    <3>1. loop' = [loop EXCEPT !.ans = ans] /\ loop.op # "idle"
      BY <1>3, <2>2 DEF AnswerArrives, IInv, CallInv
    <3> QED  BY <2>1, <3>1 DEF TypeOK, Idle
  <2> HIDE DEF ans
  <2>4. \A i \in DOMAIN wire' : ~Current(wire'[i])
    <3>1. \A i \in DOMAIN wire' : i + 1 # 1 /\ i + 1 \in DOMAIN wire /\ wire'[i] = wire[i + 1]
      BY <1>1
    <3> QED  BY <2>2, <3>1
  <2>5. QueueInv'  BY <1>1, <2>2 DEF QueueInv, AnswerTrue
  <2>6. AnswerInv'
    <3>1. AnswerTrue(loop.ans.ok, loop.ans.cfg)'  BY <1>1, <2>2, <2>3 DEF AnswerTrue
    <3>2. \A r : ReportsOf(r, 0)' => ReportsOf(r, 1)
      <4>1. \A r : ReportsOf(r, 0)' => ReportsOf(r, 0 + 1)  BY <1>1, ReportsShift
      <4> QED  BY <4>1
    <3>3. (ReportsOf(loop.rcb, 0) => srv[loop.rcb].rptEna)'
      <4>1. (\E j \in DOMAIN wire' : j > 0 /\ wire'[j].kind = "report" /\ wire'[j].rcb = loop.rcb)
            => ReportsOf(loop.rcb, 1)
        BY <3>2 DEF ReportsOf
      <4> QED  BY <1>1, <2>2, <2>3, <4>1 DEF ReportsOf
    <3> QED  BY <1>1, <2>4, <3>1, <3>3 DEF AnswerInv, Current
  <2>7. SteadyInv'
    <3> SUFFICES ASSUME NEW r \in Rcbs, Steady(r)'
                 PROVE  loc'[r] = srv'[r] /\ (ReportsOf(r, 0)' \/ (rx' # None /\ rx'.of = r) => srv'[r].rptEna)
      BY DEF SteadyInv
    <3>1. Steady(r)  BY <1>1, <2>3 DEF Steady
    <3>2. ReportsOf(r, 0)' => ReportsOf(r, 0)  BY <1>1, ReportsShift
    <3> QED  BY <1>1, <3>1, <3>2 DEF IInv, SteadyInv
  <2> QED  BY <2>5, <2>6, <2>7
<1> QED  BY <1>2, <1>3

(* A lost connection takes requests and answers with it; what it disables  *)
(* is in doubt.                                                            *)
LEMMA InvConnection ==
  ASSUME TypeOK, IInv, ConnectionLost \/ Reconnect
  PROVE  QueueInv' /\ AnswerInv' /\ SteadyInv'
<1>1. CASE Reconnect
  <2>1. loop = Idle /\ UNCHANGED <<srv, loc, toSrv, wire, loop, rx, doubt>>
    BY <1>1 DEF Reconnect, cfgVars
  <2>2. IdleInv  BY <2>1, IdleIn
  <2>3. IdleInv'  BY <2>1, <2>2 DEF IdleInv, Tracked, ReportsOf, Current
  <2> QED  BY <2>1, <2>3, IdleOut
<1>2. CASE ConnectionLost
  <2>1. /\ up' = FALSE /\ rx' = None /\ toSrv' = <<>> /\ wire' = <<>>
        /\ srv' = [r \in Rcbs |-> [srv[r] EXCEPT !.rptEna = FALSE]]
        /\ loop' = Idle \/ (loop.ans # None /\ UNCHANGED loop)
        /\ doubt' = doubt \cup {r \in Rcbs : srv[r].rptEna} \cup {r \in Rcbs : loop.rcb = r}
        /\ loc' = loc
    BY <1>2 DEF ConnectionLost
  <2>2. QueueInv'  BY <2>1 DEF QueueInv
  <2>3. \A r : ~ReportsOf(r, 0)'  BY <2>1 DEF ReportsOf
  <2>4. AnswerInv'
    <3>1. ASSUME loop'.ans # None
          PROVE  AnswerTrue(loop.ans.ok, loop.ans.cfg)'
      <4>1. loop' = loop /\ loop.ans # None  BY <2>1, <3>1, IdleType
      <4>2. loop.rcb \in doubt'  BY <2>1, <4>1 DEF IInv, CallInv, Idle
      <4>3. loop.op = "read" => loop.ans.cfg \in Config
        BY <4>1 DEF IInv, AnswerInv, AnswerTrue
      <4> QED  BY <2>1, <4>1, <4>2, <4>3 DEF AnswerTrue
    <3> QED  BY <2>1, <2>3, <3>1 DEF AnswerInv
  <2>5. SteadyInv'
    <3> SUFFICES ASSUME NEW r \in Rcbs, Steady(r)'
                 PROVE  loc'[r] = srv'[r]
      BY <2>1, <2>3 DEF SteadyInv
    <3>1. r \notin doubt /\ ~srv[r].rptEna /\ loop.rcb # r  BY <2>1 DEF Steady
    <3>2. loc[r] = srv[r]  BY <3>1 DEF IInv, SteadyInv, Steady
    <3>3. srv'[r] = srv[r]  BY <2>1, <3>1 DEF TypeOK, Config
    <3> QED  BY <2>1, <3>2, <3>3
  <2> QED  BY <2>2, <2>4, <2>5
<1> QED  BY <1>1, <1>2

-----------------------------------------------------------------------------
(* The theorems *)

LEMMA InvInit == Init => TypeOK /\ IInv
<1> SUFFICES ASSUME Init  PROVE TypeOK /\ IInv  OBVIOUS
<1>1. /\ <<>> \in Seq(Requests) /\ Len(<<>>) = 0 /\ <<>> \in Seq(Reports \cup Answers)
  OBVIOUS
<1>2. TypeOK
  <2>1. toSrv \in Seq(Requests) /\ wire \in Seq(Reports \cup Answers) /\ Len(toSrv) = 0 /\ Len(wire) = 0
    BY <1>1 DEF Init
  <2>2. Len(toSrv) <= MaxQueue /\ Len(wire) <= MaxWire  BY <2>1, RcbAssumption
  <2>3. srv \in [Rcbs -> Config] /\ loc \in [Rcbs -> Config]  BY RcbAssumption DEF Init
  <2> QED  BY <2>1, <2>2, <2>3, IdleType DEF Init, TypeOK
<1>3. CallInv  BY IdleType, RcbAssumption DEF Init, CallInv
<1>4. QueueInv /\ AnswerInv  BY IdleType DEF Init, QueueInv, AnswerInv
<1>5. SteadyInv  BY DEF Init, SteadyInv, ReportsOf
<1> QED  BY <1>2, <1>3, <1>4, <1>5 DEF IInv

LEMMA InvStep ==
  ASSUME TypeOK, IInv, ArraysInv, [Next]_vars
  PROVE  TypeOK' /\ IInv'
<1> USE DEF IInv
<1>1. ASSUME NEW r \in Rcbs, NEW f \in Settable, NEW v \in FieldValues(f), SetField(r, f, v)
      PROVE  TypeOK' /\ IInv'
  BY <1>1, TypeSetField, InvSetField
<1>2. ASSUME NEW r \in Rcbs, ReadRcb(r) \/ ForceGI(r)
      PROVE  TypeOK' /\ IInv'
  BY <1>2, TypeRead, InvRead
<1>3. ASSUME NEW r \in Rcbs, ServerReports(r)
      PROVE  TypeOK' /\ IInv'
  BY <1>3, TypeServerReports, InvServerReports
<1>4. CASE WriteDone \/ ReadDone \/ GIDone  BY <1>4, TypeDone, InvDone
<1>5. CASE Timeout                          BY <1>5, TypeTimeout, InvTimeout
<1>6. CASE ServerAnswers                    BY <1>6, TypeServerAnswers, InvServerAnswers
<1>7. CASE ConnectionLost \/ Reconnect      BY <1>7, TypeConnection, InvConnection
<1>8. CASE ReportArrives                    BY <1>8, TypeReportArrives, InvReportArrives
<1>9. CASE ReportDelivered                  BY <1>9, TypeReportDelivered, InvReportDelivered DEF ArraysInv
<1>10. CASE AnswerArrives                   BY <1>10, TypeAnswerArrives, InvAnswerArrives
<1>11. CASE UNCHANGED vars
  <2>1. TypeOK'     BY <1>11 DEF vars, cfgVars, handlerVars, TypeOK
  <2>2. CallInv'    BY <1>11 DEF vars, cfgVars, CallInv
  <2>3. QueueInv'   BY <1>11 DEF vars, cfgVars, QueueInv, Current
  <2>4. AnswerInv'  BY <1>11 DEF vars, cfgVars, AnswerInv, AnswerTrue, ReportsOf, Current
  <2>5. SteadyInv'  BY <1>11 DEF vars, cfgVars, SteadyInv, Steady, ReportsOf
  <2> QED  BY <2>1, <2>2, <2>3, <2>4, <2>5
<1> QED
  BY <1>1, <1>2, <1>3, <1>4, <1>5, <1>6, <1>7, <1>8, <1>9, <1>10, <1>11 DEF Next, LoopSteps, Dead

(* What is known of the requests and answers on their way holds in every   *)
(* reachable state: only the youngest request is waited for, its answer    *)
(* tells the truth, and a write that may still be carried out leaves its   *)
(* RCB in doubt.                                                           *)
THEOREM Invariance == Spec => [](TypeOK /\ IInv)
<1>1. Init => TypeOK /\ IInv /\ ArraysInv
  BY InvInit DEF Init, ArraysInv, ReasonHasValue
<1>2. TypeOK /\ IInv /\ ArraysInv /\ [Next]_vars => (TypeOK /\ IInv /\ ArraysInv)'
  BY InvStep, ArraysStep
<1> QED  BY <1>1, <1>2, PTL DEF Spec

(* The types of the variables; the bounds on requests and messages are     *)
(* kept.                                                                   *)
THEOREM TypeCorrect == Spec => []TypeOK
BY Invariance, PTL

(* After a set action (report_handler.c) the node and the control block    *)
(* agree with the server, however the write ended.                         *)
THEOREM TracksServer == Spec => []LocalTracksServer
<1>1. TypeOK /\ IInv => LocalTracksServer
  <2> SUFFICES ASSUME TypeOK, IInv, loop = Idle  PROVE \A r \in Rcbs \ doubt : loc[r] = srv[r]
    BY DEF LocalTracksServer
  <2> QED  BY IdleIn DEF IdleInv, Tracked
<1> QED  BY <1>1, Invariance, PTL

(* No report of an RCB that is shown as disabled is on its way any more.   *)
THEOREM Quiet == Spec => []QuietAfterDisable
<1>1. TypeOK /\ IInv => QuietAfterDisable
  <2> SUFFICES ASSUME TypeOK, IInv, loop = Idle, NEW r \in Rcbs \ doubt, ~loc[r].rptEna
               PROVE  /\ rx # None => rx.of # r
                      /\ \A i \in DOMAIN wire : wire[i].kind = "report" => wire[i].rcb # r
    BY DEF QuietAfterDisable
  <2>1. ~ReportsOf(r, 0) /\ ~(rx # None /\ rx.of = r)  BY IdleIn DEF IdleInv, Tracked
  <2>2. wire \in Seq(Reports \cup Answers)  BY DEF TypeOK
  <2>3. \A i \in DOMAIN wire : i > 0  BY <2>2
  <2> QED  BY <2>1, <2>3 DEF ReportsOf
<1> QED  BY <1>1, Invariance, PTL

=============================================================================
