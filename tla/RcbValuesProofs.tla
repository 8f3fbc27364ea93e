-------------------------- MODULE RcbValuesProofs ---------------------------
(***************************************************************************)
(* Where the values of reports go, as long as nobody changes a data set or *)
(* a report id and no two control blocks share one.  The runs              *)
(* rcb_dataset_change and rcb_report_id show what happens otherwise.       *)
(***************************************************************************)
EXTENDS RcbReportsProofs, WellFoundedInduction

ReportsFixed ==
  /\ "datSet" \notin Settable /\ "rptId" \notin Settable
  /\ \A r, s \in Rcbs : Config0[r].rptId = Config0[s].rptId => r = s

(* The data set and the report id of an RCB are those read at discovery.   *)
Same(c, r) == c.datSet = Config0[r].datSet /\ c.rptId = Config0[r].rptId

SameInv ==
  /\ \A r \in Rcbs : Same(srv[r], r) /\ Same(loc[r], r)
  /\ loop.op = "read" /\ loop.ans # None => Same(loop.ans.cfg, loop.rcb)

(* A lost connection has taken everything with it.                         *)
LostInv == ~up => toSrv = <<>> /\ wire = <<>> /\ (loop # Idle => loop.ans # None)

(* Values that stand at the positions of their attributes.                 *)
Dir(r) == Members[Config0[r].datSet]
Fits(vals, r) == DOMAIN vals = DOMAIN Dir(r) /\ \A i \in DOMAIN vals : vals[i] \in {Dir(r)[i], None}

ReportFits(rep) == rep.id = Config0[rep.rcb].rptId /\ Fits(rep.vals, rep.rcb)

FitInv ==
  /\ \A i \in DOMAIN wire : wire[i].kind = "report" => ReportFits(wire[i])
  /\ \A r \in Rcbs : buf[r] # <<>> => Fits(buf[r], r)
  /\ rx # None => Fits(buf[rx.to], rx.to)

LandInv == SameInv /\ LostInv /\ FitInv /\ ValuesLand /\ NoOverrun

-----------------------------------------------------------------------------
LEMMA FieldSame ==
  ASSUME ReportsFixed, NEW c \in Config, NEW f \in Settable, NEW v
  PROVE  [c EXCEPT ![f] = v].datSet = c.datSet /\ [c EXCEPT ![f] = v].rptId = c.rptId
<1>1. f \in {"rptEna", "other"}  BY RcbAssumption DEF ReportsFixed, Fields
<1>2. CASE f = "rptEna"  BY <1>2 DEF Config
<1>3. CASE f = "other"   BY <1>3 DEF Config
<1> QED  BY <1>1, <1>2, <1>3

(* Neither actions nor answers change a data set or a report id.           *)
LEMMA SameStep ==
  ASSUME ReportsFixed, TypeOK, IInv, SameInv, LostInv, [Next]_vars
  PROVE  SameInv'
<1>1. ASSUME UNCHANGED <<srv, loc, loop>>  PROVE SameInv'
  BY <1>1 DEF SameInv, Same
<1>2. ASSUME UNCHANGED <<srv, loc>>, loop'.ans = None  PROVE SameInv'
  BY <1>2 DEF SameInv, Same
<1>3. \A queue, q : SendAfter(queue, q) => loop'.ans = None  BY DEF SendAfter
<1>4. Return => loop'.ans = None  BY IdleType DEF Return
<1>5. ASSUME NEW r \in Rcbs, NEW f \in Settable, NEW v \in FieldValues(f), SetField(r, f, v)
      PROVE  SameInv'
  <2>1. loc' = [loc EXCEPT ![r] = [loc[r] EXCEPT ![f] = v]] /\ srv' = srv  BY <1>5 DEF SetField
  <2>2. Same([loc[r] EXCEPT ![f] = v], r)
    <3>1. loc[r] \in Config  BY DEF TypeOK
    <3>2. [loc[r] EXCEPT ![f] = v].datSet = loc[r].datSet /\ [loc[r] EXCEPT ![f] = v].rptId = loc[r].rptId
      BY <3>1, FieldSame
    <3> QED  BY <3>2 DEF SameInv, Same
  <2>3. loop'.ans = None  BY <1>3, <1>4, <1>5 DEF SetField, WriteUnconnected
  <2>4. ASSUME NEW s \in Rcbs  PROVE Same(srv[s], s)' /\ Same(loc[s], s)'
    <3>1. loc'[s] = IF s = r THEN [loc[r] EXCEPT ![f] = v] ELSE loc[s]  BY <2>1 DEF TypeOK
    <3> QED  BY <2>1, <2>2, <3>1 DEF SameInv, Same
  <2> QED  BY <2>3, <2>4 DEF SameInv
<1>6. ASSUME NEW r \in Rcbs, ReadRcb(r) \/ ForceGI(r)  PROVE SameInv'
  BY <1>2, <1>3, <1>4, <1>6 DEF ReadRcb, ForceGI, WriteUnconnected, cfgVars
<1>7. CASE Reconnect \/ ReportArrives \/ ReportDelivered \/ \E r \in Rcbs : ServerReports(r)
  BY <1>1, <1>7 DEF Reconnect, ReportArrives, ReportDelivered, ServerReports, cfgVars
<1>8. CASE WriteDone \/ GIDone \/ Timeout
  <2>1. UNCHANGED <<srv, loc>>  BY <1>8 DEF WriteDone, GIDone, Timeout, Expires, cfgVars
  <2>2. loop'.ans = None  BY <1>3, <1>4, <1>8, IdleType DEF WriteDone, GIDone, Timeout
  <2> QED  BY <1>2, <2>1, <2>2
<1>9. CASE ReadDone
  <2>1. /\ loc' = [loc EXCEPT ![loop.rcb] = loop.ans.cfg] /\ srv' = srv /\ loop'.ans = None
        /\ Same(loop.ans.cfg, loop.rcb)
    BY <1>4, <1>9 DEF ReadDone, Answered, SameInv
  <2>2. ASSUME NEW s \in Rcbs  PROVE Same(srv[s], s)' /\ Same(loc[s], s)'
    <3>1. loc'[s] = IF s = loop.rcb THEN loop.ans.cfg ELSE loc[s]  BY <2>1 DEF TypeOK
    <3> QED  BY <2>1, <3>1 DEF SameInv, Same
  <2> QED  BY <2>1, <2>2 DEF SameInv
<1>10. CASE ServerAnswers
  <2> DEFINE q == Head(toSrv)
  <2>1. UNCHANGED <<loc, loop>>  BY <1>10 DEF ServerAnswers
  <2>2. CASE UNCHANGED srv  BY <1>1, <2>1, <2>2
  <2>3. CASE q.op = "write" /\ srv' = [srv EXCEPT ![q.rcb][q.field] = q.val]
    <3>1. toSrv \in Seq(Requests) /\ toSrv # <<>>  BY <1>10 DEF ServerAnswers, TypeOK
    <3>2. q = toSrv[1] /\ 1 \in DOMAIN toSrv  BY <3>1
    <3>3. q.field \in Settable  BY <2>3, <3>2 DEF IInv, QueueInv
    <3> HIDE DEF q
    <3>4. ASSUME NEW s \in Rcbs  PROVE Same(srv[s], s)' /\ Same(loc[s], s)'
      <4>1. srv[s] \in Config  BY DEF TypeOK
      <4>2. Same([srv[s] EXCEPT ![q.field] = q.val], s)
        <5>1. /\ [srv[s] EXCEPT ![q.field] = q.val].datSet = srv[s].datSet
              /\ [srv[s] EXCEPT ![q.field] = q.val].rptId = srv[s].rptId
          BY <3>3, <4>1, FieldSame
        <5> QED  BY <5>1 DEF SameInv, Same
      <4>3. srv'[s] = srv[s] \/ srv'[s] = [srv[s] EXCEPT ![q.field] = q.val]  BY <2>3 DEF TypeOK
      <4> QED  BY <2>1, <4>2, <4>3 DEF SameInv, Same
    <3> QED  BY <2>1, <3>4 DEF SameInv, Same
  <2> QED  BY <1>10, <2>2, <2>3 DEF ServerAnswers
<1>11. CASE ConnectionLost
  <2>1. /\ srv' = [r \in Rcbs |-> [srv[r] EXCEPT !.rptEna = FALSE]] /\ loc' = loc
        /\ loop' = Idle \/ loop' = loop
    BY <1>11 DEF ConnectionLost
  <2>2. \A r \in Rcbs : Same(srv[r], r)' /\ Same(loc[r], r)'
    BY <2>1 DEF SameInv, Same, TypeOK, Config
  <2> QED  BY <2>1, <2>2, IdleType DEF SameInv, Same
<1>12. CASE AnswerArrives
  <2>1. UNCHANGED <<srv, loc>> /\ wire # <<>>  BY <1>12 DEF AnswerArrives, cfgVars
  <2>2. CASE Head(wire).late  BY <1>1, <1>12, <2>1, <2>2 DEF AnswerArrives
  <2>3. CASE ~Head(wire).late
    <3>1. 1 \in DOMAIN wire /\ Head(wire) = wire[1] /\ Current(wire[1])
      BY <1>12, <2>1, <2>3 DEF AnswerArrives, Current, TypeOK
    <3>2. loop # Idle /\ AnswerTrue(wire[1].ok, wire[1].cfg) /\ up
      BY <2>1, <3>1 DEF IInv, AnswerInv, LostInv
    <3>3. loop.op # "idle" /\ loop.rcb \in Rcbs  BY <3>2 DEF IInv, CallInv
    <3>4. loop'.op = loop.op /\ loop'.rcb = loop.rcb /\ loop'.ans.cfg = wire[1].cfg
      <4>1. loop' = [loop EXCEPT !.ans = [ok |-> Head(wire).ok, cfg |-> Head(wire).cfg]]
        BY <1>12, <2>3 DEF AnswerArrives
      <4> QED  BY <3>1, <4>1 DEF TypeOK
    <3>5. loop.op = "read" => Same(wire[1].cfg, loop.rcb)  BY <3>2, <3>3 DEF AnswerTrue, SameInv
    <3> QED  BY <2>1, <3>4, <3>5 DEF SameInv, Same
  <2> QED  BY <2>2, <2>3
<1>13. CASE UNCHANGED vars  BY <1>1, <1>13 DEF vars, cfgVars
<1> QED
  BY <1>5, <1>6, <1>7, <1>8, <1>9, <1>10, <1>11, <1>12, <1>13 DEF Next, LoopSteps, Dead

(* Without connection nothing is sent and nothing is waited for.           *)
LEMMA LostStep ==
  ASSUME TypeOK, IInv, LostInv, [Next]_vars
  PROVE  LostInv'
<1>1. ASSUME NEW r \in Rcbs, NEW f, NEW v, SetField(r, f, v)  PROVE LostInv'
  BY <1>1 DEF SetField, WriteUnconnected, Return, LostInv
<1>2. ASSUME NEW r \in Rcbs, ReadRcb(r) \/ ForceGI(r) \/ ServerReports(r)  PROVE LostInv'
  BY <1>2 DEF ReadRcb, ForceGI, ServerReports, WriteUnconnected, Return, LostInv
<1>3. CASE WriteDone \/ ReadDone \/ GIDone
  BY <1>3 DEF WriteDone, ReadDone, GIDone, Return, LostInv
<1>4. CASE Timeout \/ Reconnect \/ ServerAnswers \/ ConnectionLost
  BY <1>4 DEF Timeout, Expires, Reconnect, ServerAnswers, ConnectionLost, LostInv
<1>5. CASE ReportArrives \/ ReportDelivered \/ AnswerArrives
  BY <1>5 DEF ReportArrives, ReportDelivered, AnswerArrives, LostInv
<1>6. CASE UNCHANGED vars  BY <1>6 DEF vars, LostInv
<1> QED  BY <1>1, <1>2, <1>3, <1>4, <1>5, <1>6 DEF Next, LoopSteps, Dead

-----------------------------------------------------------------------------
LEMMA LenFits ==
  ASSUME NEW S, NEW s \in Seq(S), NEW T, NEW f \in [DOMAIN s -> T]
  PROVE  Len(f) = Len(s)
<1>1. Len(s) \in Nat /\ DOMAIN s = 1..Len(s)  OBVIOUS
<1>2. f \in [1..Len(s) -> T]  BY <1>1
<1> QED  BY <1>1, <1>2

(* Values that fit are as many as the data set has members.                *)
LEMMA FitsLen ==
  ASSUME NEW r \in Rcbs, NEW vals \in Contents, Fits(vals, r)
  PROVE  Len(vals) = Len(Dir(r)) /\ Len(Dir(r)) \in Nat
<1>1. Config0[r].datSet \in DataSets  BY RcbAssumption DEF Config
<1>2. Dir(r) \in Seq(Attrs)  BY <1>1, RcbAssumption DEF Dir
<1>3. vals \in [DOMAIN Dir(r) -> Attrs \cup {None}]  BY DEF Contents, Fits
<1> HIDE DEF Dir
<1> QED  BY <1>2, <1>3, LenFits

(* A report that fits is parsed to arrays that fit, and within them.       *)
LEMMA ParseFits ==
  ASSUME TypeOK, NEW r \in Rcbs, NEW vals \in Contents, Fits(vals, r), buf[r] # <<>> => Fits(buf[r], r)
  PROVE  /\ Fits(Parsed(Arrays(buf[r], vals), vals), r)
         /\ ~(Len(vals) > Len(Arrays(buf[r], vals)))
<1> DEFINE arr == Arrays(buf[r], vals)
<1>1. Fits(arr, r) /\ arr \in Contents
  <2>1. CASE buf[r] # <<>>  BY <2>1 DEF Arrays, TypeOK
  <2>2. CASE buf[r] = <<>>
    <3>1. arr = [i \in DOMAIN vals |-> None]  BY <2>2 DEF Arrays
    <3> QED  BY <3>1 DEF Fits, Contents
  <2> QED  BY <2>1, <2>2
<1>2. Len(vals) = Len(arr) /\ Len(arr) \in Nat  BY <1>1, FitsLen
<1>3. Parsed(arr, vals) = [i \in DOMAIN arr |->
                             IF i \in DOMAIN vals /\ vals[i] # None THEN Update(arr[i], vals[i]) ELSE arr[i]]
  BY DEF Parsed
<1> HIDE DEF arr
<1>4. \A i \in DOMAIN arr : i \in DOMAIN vals /\ vals[i] # None => Update(arr[i], vals[i]) \in {Dir(r)[i], None}
  BY <1>1 DEF Fits, Update
<1>5. Fits(Parsed(arr, vals), r)  BY <1>1, <1>3, <1>4 DEF Fits
<1> QED  BY <1>2, <1>5 DEF arr

(* Everything that is reported and stored stands at its position.          *)
LEMMA FitStep ==
  ASSUME ReportsFixed, TypeOK, IInv, SameInv, FitInv, [Next]_vars
  PROVE  FitInv'
<1>1. wire \in Seq(Reports \cup Answers)  BY DEF TypeOK
<1>2. ASSUME \A i \in DOMAIN wire' : wire'[i].kind = "report" => \E j \in DOMAIN wire : wire'[i] = wire[j],
             UNCHANGED <<buf, rx>>
      PROVE  FitInv'
  BY <1>2 DEF FitInv, ReportFits
<1>3. UNCHANGED <<wire, buf, rx>> => FitInv'  BY DEF FitInv
<1>4. wire # <<>> /\ wire' = Tail(wire) => \A i \in DOMAIN wire' : \E j \in DOMAIN wire : wire'[i] = wire[j]
  <2> SUFFICES ASSUME wire # <<>>, wire' = Tail(wire), NEW i \in DOMAIN wire'
               PROVE  \E j \in DOMAIN wire : wire'[i] = wire[j]
    OBVIOUS
  <2>1. i + 1 \in DOMAIN wire /\ wire'[i] = wire[i + 1]  BY <1>1
  <2> QED  BY <2>1
<1>5. ASSUME NEW r \in Rcbs, NEW f, NEW v, SetField(r, f, v)  PROVE FitInv'
  BY <1>3, <1>5 DEF SetField, handlerVars
<1>6. ASSUME NEW r \in Rcbs, ReadRcb(r) \/ ForceGI(r)  PROVE FitInv'
  BY <1>3, <1>6 DEF ReadRcb, ForceGI, handlerVars
<1>7. CASE WriteDone \/ ReadDone \/ GIDone \/ Reconnect
  BY <1>3, <1>7 DEF WriteDone, ReadDone, GIDone, Reconnect, handlerVars
<1>8. CASE Timeout
  <2>1. wire' = Late(wire) /\ UNCHANGED <<buf, rx>>  BY <1>8 DEF Timeout, Expires, handlerVars
  <2>2. \A i \in DOMAIN wire' : i \in DOMAIN wire /\ (wire'[i].kind = "report" => wire'[i] = wire[i])
    BY <1>1, <2>1, LateMessages
  <2> QED  BY <1>2, <2>1, <2>2
<1>9. CASE ServerAnswers
  <2>1. UNCHANGED <<buf, rx>>  BY <1>9 DEF ServerAnswers, handlerVars
  <2>2. PICK ok \in BOOLEAN : wire' = Append(wire, Answer(Head(toSrv), ok))
    BY <1>9 DEF ServerAnswers
  <2>3. Answer(Head(toSrv), ok).kind = "answer"  BY DEF Answer
  <2> HIDE DEF Answer
  <2>4. \A i \in DOMAIN wire' : \/ i \in DOMAIN wire /\ wire'[i] = wire[i]
                                \/ wire'[i] = Answer(Head(toSrv), ok)
    BY <1>1, <2>2
  <2> QED  BY <1>2, <2>1, <2>3, <2>4
<1>10. CASE ConnectionLost
  <2>1. wire' = <<>> /\ UNCHANGED <<buf, rx>>  BY <1>10 DEF ConnectionLost, handlerVars
  <2> QED  BY <1>2, <2>1
<1>11. ASSUME NEW r \in Rcbs, ServerReports(r)  PROVE FitInv'
  <2> DEFINE all == Members[srv[r].datSet]
             rep(inc) == [kind |-> "report", rcb |-> r, id |-> srv[r].rptId,
                          vals |-> [i \in DOMAIN all |-> IF i \in inc THEN all[i] ELSE None]]
  <2>1. PICK inc \in SUBSET DOMAIN all \ {{}} : wire' = Append(wire, rep(inc))
    BY <1>11 DEF ServerReports
  <2>2. UNCHANGED <<buf, rx>>  BY <1>11 DEF ServerReports, handlerVars
  <2>3. all = Dir(r) /\ srv[r].rptId = Config0[r].rptId  BY DEF SameInv, Same, Dir
  <2>4. ReportFits(rep(inc))  BY <2>3 DEF ReportFits, Fits
  <2> HIDE DEF rep
  <2>5. \A i \in DOMAIN wire' : (i \in DOMAIN wire /\ wire'[i] = wire[i]) \/ wire'[i] = rep(inc)
    BY <1>1, <2>1
  <2> QED  BY <2>2, <2>4, <2>5 DEF FitInv, ReportFits
<1>12. CASE AnswerArrives
  BY <1>2, <1>4, <1>12 DEF AnswerArrives, handlerVars
<1>13. CASE ReportDelivered
  BY <1>13 DEF ReportDelivered, FitInv
<1>14. CASE ReportArrives
  <2> DEFINE rep == Head(wire)
  <2>1. wire # <<>> /\ wire' = Tail(wire) /\ rep.kind = "report"  BY <1>14 DEF ReportArrives
  <2>2. rep = wire[1] /\ 1 \in DOMAIN wire /\ rep \in Reports  BY <1>1, <2>1 DEF Answers
  <2>3. rep.rcb \in Rcbs /\ rep.vals \in Contents /\ ReportFits(rep)
    BY <2>1, <2>2 DEF Reports, FitInv
  <2>4. CASE UNCHANGED <<buf, rx>>  BY <1>2, <1>4, <2>1, <2>4
  <2>5. ASSUME NEW h \in Match(rep.id), Parse(h, rep)  PROVE FitInv'
    <3>1. h = rep.rcb  BY <2>3, MatchType DEF ReportsFixed, ReportFits
    <3> HIDE DEF rep
    <3>2. /\ buf' = [buf EXCEPT ![h] = Parsed(Arrays(buf[h], rep.vals), rep.vals)]
          /\ rx' = [to |-> h, of |-> rep.rcb]
      BY <2>5 DEF Parse
    <3>3. Fits(Parsed(Arrays(buf[h], rep.vals), rep.vals), h)
      BY <2>3, <3>1, ParseFits DEF ReportFits, FitInv
    <3>4. Fits(buf[h], h)'
      BY <2>3, <3>1, <3>2, <3>3 DEF TypeOK, Fits
    <3>5. \A r \in Rcbs : r # h => buf'[r] = buf[r]  BY <3>2 DEF TypeOK
    <3>6. \A r \in Rcbs : buf'[r] # <<>> => Fits(buf[r], r)'
      BY <3>4, <3>5 DEF FitInv, Fits
    <3>7. rx'.to = h  BY <3>2
    <3>8. \A i \in DOMAIN wire' : wire'[i].kind = "report" => ReportFits(wire'[i])
      BY <1>4, <2>1 DEF FitInv
    <3> QED  BY <3>4, <3>6, <3>7, <3>8 DEF FitInv, ReportFits, Fits
  <2> QED  BY <1>14, <2>4, <2>5 DEF ReportArrives
<1>15. CASE UNCHANGED vars  BY <1>3, <1>15 DEF vars, handlerVars
<1> QED
  BY <1>5, <1>6, <1>7, <1>8, <1>9, <1>10, <1>11, <1>12, <1>13, <1>14, <1>15 DEF Next, LoopSteps, Dead

(* A report that is delivered brings each value to the node of its         *)
(* attribute, and never from outside the arrays.                           *)
LEMMA DeliveryLands ==
  ASSUME TypeOK, SameInv, FitInv, ValuesLand, ReportDelivered
  PROVE  ValuesLand' /\ ~crashed'
<1> DEFINE h == rx.to
           dir == Members[loc[h].datSet]
           arr == buf[h]
           at(a) == CHOOSE i \in DOMAIN dir : dir[i] = a
           has(a) == \E i \in DOMAIN dir \cap incl[h] : dir[i] = a /\ a \in Opened
<1>1. h \in Rcbs /\ Fits(arr, h)  BY DEF ReportDelivered, TypeOK, FitInv
<1>2. dir = Dir(h)  BY <1>1 DEF SameInv, Same, Dir
<1>3. ASSUME NEW a \in Attrs, has(a)  PROVE arr[at(a)] \in {a, None}
  <2>1. PICK i \in DOMAIN dir : dir[i] = a  BY <1>3
  <2>2. at(a) \in DOMAIN dir /\ dir[at(a)] = a  BY <2>1
  <2> HIDE DEF at, dir, arr
  <2> QED  BY <1>1, <1>2, <2>2 DEF Fits
<1>4. shown' = [a \in Attrs |-> IF has(a) THEN arr[at(a)] ELSE shown[a]]  BY DEF ReportDelivered
<1>5. crashed' \in IF Len(dir) > Len(arr) THEN BOOLEAN ELSE {FALSE}  BY DEF ReportDelivered
<1>6. Len(arr) = Len(dir) /\ Len(dir) \in Nat
  <2>1. CASE arr = <<>>
    <3>1. DOMAIN Dir(h) = {} /\ Len(arr) = 0  BY <1>1, <2>1 DEF Fits
    <3>2. Dir(h) \in Seq(Attrs)  BY <1>1, RcbAssumption DEF Dir, Config
    <3>3. Len(Dir(h)) = 0  BY <3>1, <3>2
    <3> QED  BY <1>2, <3>1, <3>3
  <2>2. CASE arr \in Contents  BY <1>1, <1>2, <2>2, FitsLen
  <2> QED  BY <1>1, <2>1, <2>2 DEF TypeOK
<1> HIDE DEF has, at, arr, dir
<1>7. ValuesLand'  BY <1>3, <1>4 DEF ValuesLand
<1>8. ~(Len(dir) > Len(arr))  BY <1>6
<1> QED  BY <1>5, <1>7, <1>8

LEMMA LandStep ==
  ASSUME ReportsFixed, TypeOK, IInv, LandInv, [Next]_vars
  PROVE  LandInv'
<1>1. SameInv' /\ LostInv' /\ FitInv'  BY SameStep, LostStep, FitStep DEF LandInv
<1>2. ValuesLand' /\ NoOverrun'
  <2>1. ASSUME shown' = shown, crashed' = crashed, up' = up \/ ~up' \/ ~crashed
        PROVE  ValuesLand' /\ NoOverrun'
    BY <2>1 DEF LandInv, ValuesLand, NoOverrun
  <2>2. ASSUME shown' = shown, up' = FALSE  PROVE ValuesLand' /\ NoOverrun'
    BY <2>2 DEF LandInv, ValuesLand, NoOverrun
  <2>3. ASSUME NEW r \in Rcbs, NEW f, NEW v, SetField(r, f, v)  PROVE ValuesLand' /\ NoOverrun'
    <3>1. shown' = shown /\ up' = up  BY <2>3 DEF SetField, handlerVars
    <3> QED  BY <2>1, <2>2, <2>3, <3>1 DEF SetField, TypeOK
  <2>4. ASSUME NEW r \in Rcbs, ReadRcb(r) \/ ForceGI(r) \/ ServerReports(r)
        PROVE  ValuesLand' /\ NoOverrun'
    <3>1. shown' = shown /\ up' = up  BY <2>4 DEF ReadRcb, ForceGI, ServerReports, handlerVars
    <3> QED  BY <2>1, <2>2, <2>4, <3>1 DEF ReadRcb, ForceGI, ServerReports, TypeOK
  <2>5. CASE LoopSteps
    BY <2>1, <2>5 DEF LoopSteps, WriteDone, ReadDone, GIDone, Timeout, Expires, handlerVars
  <2>6. CASE Reconnect \/ ServerAnswers \/ ConnectionLost \/ AnswerArrives
    BY <2>1, <2>6 DEF Reconnect, ServerAnswers, ConnectionLost, AnswerArrives, handlerVars
  <2>7. CASE ReportArrives
    <3> DEFINE rep == Head(wire)
    <3>1. /\ wire # <<>> /\ rep.kind = "report" /\ shown' = shown /\ up' = up /\ ~crashed
      BY <2>7 DEF ReportArrives
    <3>2. rep = wire[1] /\ 1 \in DOMAIN wire /\ rep \in Reports  BY <3>1 DEF TypeOK, Answers
    <3>3. rep.rcb \in Rcbs /\ rep.vals \in Contents /\ ReportFits(rep)
      BY <3>1, <3>2 DEF Reports, LandInv, FitInv
    <3>4. CASE UNCHANGED crashed  BY <2>1, <3>1, <3>4
    <3>5. ASSUME NEW h \in Match(rep.id), Parse(h, rep)  PROVE ~crashed'
      <4>1. h = rep.rcb  BY <3>3, MatchType DEF ReportsFixed, ReportFits
      <4> HIDE DEF rep
      <4>2. ~(Len(rep.vals) > Len(Arrays(buf[h], rep.vals)))
        BY <3>3, <4>1, ParseFits DEF ReportFits, LandInv, FitInv
      <4> QED  BY <3>5, <4>2 DEF Parse
    <3>6. ~crashed' => ValuesLand' /\ NoOverrun'
      BY <3>1 DEF LandInv, ValuesLand, NoOverrun
    <3> QED  BY <2>7, <3>4, <3>5, <3>6 DEF ReportArrives
  <2>8. CASE ReportDelivered
    <3>1. ValuesLand' /\ ~crashed'  BY <2>8, DeliveryLands DEF LandInv
    <3> QED  BY <3>1 DEF NoOverrun
  <2>9. CASE UNCHANGED vars  BY <2>1, <2>9 DEF vars, handlerVars
  <2> QED
    BY <2>3, <2>4, <2>5, <2>6, <2>7, <2>8, <2>9 DEF Next, Dead
<1> QED  BY <1>1, <1>2 DEF LandInv

-----------------------------------------------------------------------------
(* The theorems *)

LEMMA LandInit == Init => LandInv
<1> SUFFICES ASSUME Init  PROVE LandInv  OBVIOUS
<1>1. SameInv  BY IdleType DEF Init, SameInv, Same
<1>2. LostInv /\ FitInv  BY DEF Init, LostInv, FitInv
<1>3. ValuesLand /\ NoOverrun  BY DEF Init, ValuesLand, NoOverrun
<1> QED  BY <1>1, <1>2, <1>3 DEF LandInv

LEMMA Landing == ASSUME ReportsFixed PROVE Spec => []LandInv
<1>1. Init => LandInv  BY LandInit
<1>2. TypeOK /\ IInv /\ LandInv /\ [Next]_vars => LandInv'  BY LandStep
<1> QED  BY <1>1, <1>2, Invariance, PTL DEF Spec

(* As long as data sets and report ids stay as discovered, each value that *)
(* reportCallbackFunction writes goes to the node of its own attribute.    *)
THEOREM ValuesLandAlways == ASSUME ReportsFixed PROVE Spec => []ValuesLand
<1>1. LandInv => ValuesLand  BY DEF LandInv
<1> QED  BY <1>1, Landing, PTL

(* Under the same condition no report is written or read outside the       *)
(* arrays of its handler.                                                  *)
THEOREM NeverOverrun == ASSUME ReportsFixed PROVE Spec => []NoOverrun
<1>1. LandInv => NoOverrun  BY DEF LandInv
<1> QED  BY <1>1, Landing, PTL

LEMMA Least ==
  ASSUME NEW S \in SUBSET Nat, S # {}
  PROVE  \E j \in S : \A k \in S : j <= k
<1> DEFINE less == OpToRel(<, Nat)
<1>1. IsWellFoundedOn(less, Nat)  BY NatLessThanWellFounded
<1>2. \A x, y \in Nat : x < y => <<x, y>> \in less  BY DEF OpToRel
<1> HIDE DEF less
<1>3. PICK j \in S : \A k \in S : ~(<<k, j>> \in less)  BY <1>1, WFMin
<1>4. \A k \in S : ~(k < j)  BY <1>2, <1>3
<1>5. \A k \in S : j <= k  BY <1>4
<1> QED  BY <1>5

(* Some handler takes the report of an RCB whose id is that of discovery.  *)
LEMMA MatchSome ==
  ASSUME NEW r \in Rcbs
  PROVE  \E h : h \in Match(Config0[r].rptId)
<1> DEFINE fits == {i \in DOMAIN Order : Config0[Order[i]].rptId = Config0[r].rptId}
<1>1. fits \in SUBSET Nat  BY RcbAssumption
<1>2. fits # {}  BY RcbAssumption
<1>3. PICK j \in fits : \A k \in fits : j <= k  BY <1>1, <1>2, Least
<1> QED  BY <1>3 DEF Match

(* Under the same condition every report reaches the handler of its RCB.   *)
THEOREM ReportsAlwaysHeard == ASSUME ReportsFixed PROVE Spec => ReportsHeard
<1>1. ASSUME TypeOK, LandInv, NEW r \in Rcbs, ReportArrives, Head(wire).rcb = r
      PROVE  rx' # None /\ rx'.to = r
  <2> DEFINE rep == Head(wire)
  <2>1. wire # <<>> /\ rep.kind = "report"  BY <1>1 DEF ReportArrives
  <2>2. rep = wire[1] /\ 1 \in DOMAIN wire  BY <1>1, <2>1 DEF TypeOK
  <2>3. rep.id = Config0[r].rptId  BY <1>1, <2>1, <2>2 DEF LandInv, FitInv, ReportFits
  <2>4. Match(rep.id) # {}  BY <2>3, MatchSome
  <2>5. rep.rcb \in Rcbs
    <3>1. rep \in Reports  BY <1>1, <2>1, <2>2 DEF TypeOK, Answers
    <3> QED  BY <3>1 DEF Reports
  <2>6. PICK h \in Match(rep.id) : rx' = [to |-> h, of |-> rep.rcb]
    BY <1>1, <2>4 DEF ReportArrives, Parse
  <2>7. h = r  BY <2>3, MatchType DEF ReportsFixed
  <2> HIDE DEF rep
  <2>8. rx' \in [to : Rcbs, of : Rcbs]  BY <2>5, <2>6, <2>7
  <2> QED  BY <2>6, <2>7, <2>8, RcbAssumption
<1>2. TypeOK /\ LandInv /\ [Next]_vars =>
        [\A r \in Rcbs : (ReportArrives /\ Head(wire).rcb = r) => rx' # None /\ rx'.to = r]_vars
  BY <1>1
<1> QED  BY <1>2, TypeCorrect, Landing, PTL DEF Spec, ReportsHeard
=============================================================================
