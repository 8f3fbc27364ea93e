------------------------- MODULE ControlActionProofs -------------------------
(***************************************************************************)
(* What ControlAction guarantees for any objects, control models and number *)
(* of invocations: types, whose selection an operation uses and that none  *)
(* is left behind, when the receive thread can meet a control that was     *)
(* freed, and that it implements Operations.                               *)
(***************************************************************************)
EXTENDS ControlAction, TLAPS

(* A stage that an action which stands at p has been in or is in. *)
Passed(stage, p) ==
  \/ stage = "creating"
  \/ stage = "selecting" /\ p # "creating"
  \/ stage = "operating" /\ p \notin {"creating", "selecting"}
  \/ stage = "reading" /\ p \notin {"creating", "selecting", "operating", "sleeping"}

Answers == {m \in Sent : m.kind = "answer"}
Now(x) == x.op = Cur /\ x.at = loop.at

(* What is on its way belongs to an invocation that has come that far. *)
RangeInv ==
  /\ \A r \in Pending : /\ r.op \in 1..Cur /\ (r.op = Cur => Passed(r.at, loop.at))
                        /\ r.at = "selecting" => Sbo(target[r.op])
  /\ \A m \in Sent : m.op \in 1..Cur
  /\ \A m \in Answers : m.op = Cur => Passed(m.at, loop.at)
  /\ \A o \in Objects :
       /\ srv[o].op \in 0..Cur /\ srv[o].sel \in 0..Cur
       /\ srv[o].op # 0 => target[srv[o].op] = o
       /\ srv[o].op # 0 /\ srv[o].op = Cur => Passed("operating", loop.at)
       /\ srv[o].sel # 0 => target[srv[o].sel] = o
       /\ srv[o].sel # 0 /\ srv[o].sel = Cur => Passed("selecting", loop.at)
       /\ srv[o].op # 0 <=> srv[o].state \in {"waiting", "executing"}
       /\ srv[o].state = "selected" => Sbo(o) /\ srv[o].sel # 0
  /\ rx.op \in 0..Cur
  /\ rx.op = 0 => rx.parts = <<>> /\ rx.at = 0
  /\ rx.at \in 0..Cur
  /\ rx.using => rx.at # 0
  /\ loop.at # "idle" => Cur # 0
  /\ loop.at = "selecting" => Sbo(Object)
  /\ loop.at = "operating" => model[Object] # "status"

(* Nothing is behind the request that is waited for, nothing is in the     *)
(* queue once it was answered, and an operate is sent into an empty queue. *)
QueueInv ==
  /\ \A i \in DOMAIN toSrv : Now(toSrv[i]) => i = Len(toSrv)
  /\ \A i \in DOMAIN toSrv : toSrv[i].at = "operating" => i = 1
  /\ loop.at = "operating" => \A r \in Pending : Now(r)
  /\ loop.ans = "yes" => toSrv = <<>>
  /\ \A m \in Answers : Now(m) => toSrv = <<>>
  /\ \A o \in Objects : srv[o].op # 0 /\ srv[o].op = Cur /\ loop.at = "operating" => toSrv = <<>>
  /\ loop.at \notin Stages => loop.ans = "none"
  /\ \A r \in Pending : r.op \in doubt \/ (Now(r) /\ loop.ans = "none")

(* The select and the operate of one invocation meet one selection. *)
SelectInv ==
  /\ \A o \in Objects : srv[o].op # 0 /\ Sbo(o) => srv[o].sel = srv[o].op
  /\ \A r \in Pending :
       /\ r.at = "operating" /\ Sbo(target[r.op]) => srv[target[r.op]].sel = r.op
       /\ Now(r) /\ r.at = "selecting" => srv[Object].sel # Cur
       /\ Now(r) /\ r.at \in {"selecting", "operating"} => r.num = num
  /\ \A m \in Answers : Now(m) /\ m.at = "selecting" => (srv[Object].sel = Cur <=> ~m.bad)
  /\ loop.at = "selecting" /\ loop.ans = "yes" => srv[Object].sel = Cur
  /\ loop.at \in {"selecting", "operating"} /\ srv[Object].sel = Cur => srv[Object].num = num

(* A selection of an invocation that is under way, or one in doubt. *)
LeftInv ==
  /\ \A o \in once : srv[o].state = "selected" =>
       \/ srv[o].sel \in doubt
       \/ srv[o].sel = Cur /\ loop.at = "selecting" /\ loop.ans \in {"none", "yes"}
       \/ srv[o].sel = Cur /\ loop.at = "operating" /\ loop.ans = "none"
  /\ \A m \in Answers : Now(m) /\ m.at = "operating" =>
       \A o \in once : ~(srv[o].state = "selected" /\ srv[o].sel = Cur)

(* There is one control at most, that of the last invocation. *)
ControlInv ==
  /\ linked \subseteq {Cur} /\ refs \subseteq {Cur} /\ live \subseteq {Cur}
  /\ loop.at \in {"selecting", "operating", "sleeping", "reading"} => Cur \in linked \cap refs \cap live
  /\ loop.at \in {"idle", "creating"} => live = {}
  /\ loop.at = "unlinking" => refs = {}
  /\ loop.at = "freeing" => refs = {} /\ linked = {}

(* An operation the server or the receive thread is not done with belongs  *)
(* to a control that exists, or outlived its own.                          *)
OutlivedInv ==
  /\ outlived \subseteq 1..Cur
  /\ \A e \in 1..Cur : Concerns(e) =>
       e \in outlived \/ (e = Cur /\ loop.at \notin {"unlinking", "freeing", "idle"})
  /\ rx.at # 0 => rx.at \in linked \cap refs \/ \E e \in outlived : e <= rx.at

IInv == RangeInv /\ QueueInv /\ SelectInv /\ LeftInv /\ ControlInv /\ OutlivedInv /\ FreedUntouched
-----------------------------------------------------------------------------
(* Sequences *)

LEMMA Appended ==
  ASSUME NEW S, NEW s \in Seq(S), NEW x \in S
  PROVE  /\ Append(s, x) \in Seq(S) /\ Len(Append(s, x)) = Len(s) + 1
         /\ DOMAIN Append(s, x) = 1..(Len(s) + 1) /\ DOMAIN s = 1..Len(s)
         /\ \A i \in DOMAIN s : Append(s, x)[i] = s[i]
         /\ Append(s, x)[Len(s) + 1] = x
         /\ Range(Append(s, x)) = Range(s) \cup {x}
<1>1. /\ Append(s, x) \in Seq(S) /\ Len(Append(s, x)) = Len(s) + 1
      /\ DOMAIN Append(s, x) = 1..(Len(s) + 1) /\ DOMAIN s = 1..Len(s)
      /\ \A i \in DOMAIN s : Append(s, x)[i] = s[i]
      /\ Append(s, x)[Len(s) + 1] = x
  OBVIOUS
<1>2. Len(s) \in Nat  OBVIOUS
<1>3. Range(Append(s, x)) \subseteq Range(s) \cup {x}  BY <1>1, <1>2 DEF Range
<1>4. Range(s) \cup {x} \subseteq Range(Append(s, x))  BY <1>1, <1>2 DEF Range
<1> QED  BY <1>1, <1>3, <1>4

LEMMA HeadTail ==
  ASSUME NEW S, NEW s \in Seq(S), s # <<>>
  PROVE  /\ Head(s) \in S /\ Tail(s) \in Seq(S)
         /\ Head(s) = s[1] /\ Len(Tail(s)) = Len(s) - 1 /\ Len(s) \in Nat \ {0}
         /\ DOMAIN s = 1..Len(s) /\ DOMAIN Tail(s) = 1..(Len(s) - 1)
         /\ \A i \in DOMAIN Tail(s) : i + 1 \in DOMAIN s /\ Tail(s)[i] = s[i + 1]
         /\ Range(s) = Range(Tail(s)) \cup {Head(s)}
<1>1. /\ Head(s) \in S /\ Tail(s) \in Seq(S)
      /\ Head(s) = s[1] /\ Len(Tail(s)) = Len(s) - 1 /\ Len(s) \in Nat \ {0}
      /\ DOMAIN s = 1..Len(s) /\ DOMAIN Tail(s) = 1..(Len(s) - 1)
      /\ \A i \in DOMAIN Tail(s) : i + 1 \in DOMAIN s /\ Tail(s)[i] = s[i + 1]
  OBVIOUS
<1>2. \A i \in DOMAIN s : i = 1 \/ (i - 1 \in DOMAIN Tail(s) /\ s[i] = Tail(s)[i - 1])
  BY <1>1
<1>3. Range(s) \subseteq Range(Tail(s)) \cup {Head(s)}  BY <1>1, <1>2 DEF Range
<1>4. 1 \in DOMAIN s  BY <1>1
<1>5. Range(Tail(s)) \cup {Head(s)} \subseteq Range(s)  BY <1>1, <1>4 DEF Range
<1> QED  BY <1>1, <1>3, <1>5

LEMMA Elements ==
  ASSUME NEW S, NEW s \in Seq(S)
  PROVE  /\ Range(s) \subseteq S /\ \A i \in DOMAIN s : s[i] \in Range(s)
         /\ s = <<>> <=> Range(s) = {}
         /\ \A x \in Range(s) : \E i \in DOMAIN s : s[i] = x
<1>1. DOMAIN s = 1..Len(s) /\ Len(s) \in Nat  OBVIOUS
<1>2. s # <<>> => 1 \in DOMAIN s  BY <1>1
<1>3. s = <<>> => DOMAIN s = {}  BY <1>1
<1>4. \A i \in DOMAIN s : s[i] \in S  BY <1>1
<1>5. Range(s) \subseteq S  BY <1>4 DEF Range
<1>6. \A i \in DOMAIN s : s[i] \in Range(s)  BY DEF Range
<1>7. \A x \in Range(s) : \E i \in DOMAIN s : s[i] = x  BY DEF Range
<1>8. Range(s) = {} => s = <<>>  BY <1>2, <1>6
<1>9. s = <<>> => Range(s) = {}  BY <1>3, <1>7
<1> QED  BY <1>5, <1>6, <1>7, <1>8, <1>9

(* What the server puts on the wire. *)
LEMMA Joined ==
  ASSUME NEW S, NEW s \in Seq(S), NEW x \in S, NEW y \in S
  PROVE  /\ s \o <<>> = s
         /\ s \o <<x>> \in Seq(S) /\ Range(s \o <<x>>) = Range(s) \cup {x}
         /\ s \o <<x, y>> \in Seq(S) /\ Range(s \o <<x, y>>) = Range(s) \cup {x, y}
<1>1. s \o <<x>> = Append(s, x)  OBVIOUS
<1>2. s \o <<x, y>> = Append(Append(s, x), y)  OBVIOUS
<1>3. s \o <<>> = s  OBVIOUS
<1>4. Append(s, x) \in Seq(S)  BY Appended
<1>5. Range(Append(Append(s, x), y)) = Range(s) \cup {x} \cup {y}
  <2> DEFINE a == Append(s, x)
  <2>1. a \in Seq(S)  BY <1>4
  <2>2. Range(a) = Range(s) \cup {x}  BY Appended
  <2> HIDE DEF a
  <2>3. Range(Append(a, y)) = Range(a) \cup {y}  BY <2>1, Appended
  <2> QED  BY <2>2, <2>3 DEF a
<1>6. Append(Append(s, x), y) \in Seq(S)  BY <1>4, Appended
<1>7. Range(Append(s, x)) = Range(s) \cup {x}  BY Appended
<1>8. Range(s \o <<x>>) = Range(s) \cup {x}  BY <1>1, <1>7
<1>9. Range(s \o <<x, y>>) = Range(s) \cup {x, y}  BY <1>2, <1>5
<1> QED  BY <1>1, <1>2, <1>3, <1>4, <1>6, <1>8, <1>9

LEMMA Nothing == Range(<<>>) = {}
BY DEF Range
-----------------------------------------------------------------------------
(* Types *)

LEMMA Typed ==
  ASSUME TypeOK
  PROVE  /\ Pending \subseteq Requests /\ Sent \subseteq Messages
         /\ \A i \in DOMAIN toSrv : toSrv[i] \in Pending
         /\ \A r \in Pending : \E i \in DOMAIN toSrv : toSrv[i] = r
         /\ toSrv = <<>> <=> Pending = {}
         /\ Cur \in Nat
<1>1. toSrv \in Seq(Requests) /\ wire \in Seq(Messages) /\ target \in Seq(Objects)  BY DEF TypeOK
<1>2. /\ Pending \subseteq Requests
      /\ \A i \in DOMAIN toSrv : toSrv[i] \in Pending
      /\ \A r \in Pending : \E i \in DOMAIN toSrv : toSrv[i] = r
      /\ toSrv = <<>> <=> Pending = {}
  BY <1>1, Elements DEF Pending
<1>3. Sent \subseteq Messages  BY <1>1, Elements DEF Sent
<1>4. Cur \in Nat  BY <1>1 DEF Cur
<1> QED  BY <1>2, <1>3, <1>4

(* The object of each invocation. *)
LEMMA Targets ==
  ASSUME TypeOK
  PROVE  /\ Cur \in Nat
         /\ \A e \in 1..Cur : target[e] \in Objects
         /\ Cur # 0 => Object \in Objects
         /\ \A o \in Objects : Append(target, o)[Cur + 1] = o /\ Len(Append(target, o)) = Cur + 1
         /\ \A o \in Objects : \A e \in 1..Cur : Append(target, o)[e] = target[e]
<1>1. target \in Seq(Objects)  BY DEF TypeOK
<1>2. /\ Cur \in Nat
      /\ \A e \in 1..Cur : target[e] \in Objects
      /\ Cur # 0 => Object \in Objects
  BY <1>1 DEF Cur, Object
<1>3. \A o \in Objects : Append(target, o)[Cur + 1] = o /\ Len(Append(target, o)) = Cur + 1
  BY <1>1 DEF Cur
<1>4. \A o \in Objects : \A e \in 1..Cur : Append(target, o)[e] = target[e]
  BY <1>1 DEF Cur
<1> QED  BY <1>2, <1>3, <1>4

(* What a request of the event loop changes. *)
AskedTyped ==
  /\ loop' \in [at : Stages \cup {"idle", "sleeping", "unlinking", "freeing"},
                ans : {"none", "yes", "no"}]
  /\ toSrv' \in Seq(Requests) /\ doubt' \in SUBSET Nat /\ crashed' \in BOOLEAN

LEMMA AskTyped ==
  ASSUME TypeOK, NEW stage \in Stages, NEW e \in Nat, NEW n \in Nat, NEW w \in BOOLEAN,
         Ask(stage, e, n, w)
  PROVE  AskedTyped
<1>1. [at |-> stage, op |-> e, num |-> n] \in Requests  BY DEF Requests
<1>2. toSrv' \in Seq(Requests)  BY <1>1 DEF Ask, TypeOK
<1> QED  BY <1>2 DEF Ask, TypeOK, AskedTyped

LEMMA OperateTyped ==
  ASSUME TypeOK, Operate \/ Select \/ ReadStatus \/ Conclude
  PROVE  AskedTyped /\ num' \in Nat /\ bad' \in SUBSET Nat
<1>1. /\ Cur \in Nat /\ num \in Nat /\ num + 1 \in Nat /\ bad \in SUBSET Nat
      /\ {"creating", "selecting", "operating", "reading"} = Stages
      /\ Enhanced(Object) \in BOOLEAN
  BY Typed DEF TypeOK, Stages, Enhanced
<1>2. CASE Operate
  <2>1. num' \in Nat /\ bad' \in SUBSET Nat /\ Ask("operating", Cur, num', TRUE)
    BY <1>1, <1>2 DEF Operate
  <2> QED  BY <1>1, <2>1, AskTyped
<1>3. CASE Select
  <2>1. num' \in Nat /\ bad' \in SUBSET Nat /\ Ask("selecting", Cur, num', Enhanced(Object))
    BY <1>1, <1>3 DEF Select
  <2> QED  BY <1>1, <2>1, AskTyped
<1>4. ASSUME ReadStatus PROVE AskedTyped /\ num' \in Nat /\ bad' \in SUBSET Nat
  <2>1. num' = num /\ bad' = bad /\ Ask("reading", Cur, 0, FALSE)  BY <1>4 DEF ReadStatus
  <2> QED  BY <1>1, <2>1, AskTyped
<1>5. CASE Conclude /\ Enhanced(Object)
  <2>1. /\ loop' = [at |-> "sleeping", ans |-> "none"]
        /\ doubt' = IF up THEN doubt ELSE doubt \cup {Cur}
        /\ UNCHANGED <<num, bad, toSrv, crashed>>
    BY <1>5 DEF Conclude
  <2>2. doubt' \in SUBSET Nat  BY <1>1, <2>1 DEF TypeOK
  <2> QED  BY <1>1, <2>1, <2>2 DEF TypeOK, AskedTyped
<1>6. CASE Conclude /\ ~Enhanced(Object)
  <2>1. ReadStatus  BY <1>6 DEF Conclude
  <2> QED  BY <1>4, <2>1
<1> QED  BY <1>2, <1>3, <1>4, <1>5, <1>6

LEMMA LoopTyped ==
  ASSUME TypeOK, ControlInv,
         \/ \E o \in Objects : Control(o)
         \/ Created \/ CreateFailed \/ Selected \/ Operated \/ Slept
         \/ StatusRead \/ Unlink \/ Free \/ GiveUp
  PROVE  TypeOK'
<1>0. Cur \in Nat /\ 1..Cur \in SUBSET Nat  BY Typed
<1>1. ASSUME NEW o \in Objects, Control(o) PROVE TypeOK'
  <2>1. Ask("creating", Cur + 1, 0, FALSE) /\ Cur + 1 \in Nat /\ "creating" \in Stages
    <3>1. Ask("creating", Cur + 1, 0, FALSE)  BY <1>1, Zenon DEF Control
    <3>2. Cur + 1 \in Nat /\ "creating" \in Stages  BY <1>0 DEF Stages
    <3> QED  BY <3>1, <3>2, Zenon
  <2>2. AskedTyped  BY <2>1, AskTyped
  <2>3. target' \in Seq(Objects)  BY <1>1 DEF Control, TypeOK
  <2> QED  BY <1>1, <2>2, <2>3 DEF Control, TypeOK, AskedTyped, serverVars, controlVars
<1>2. CASE Created
  <2>1. Operate \/ Select \/ ReadStatus  BY <1>2 DEF Created
  <2>2. AskedTyped /\ num' \in Nat /\ bad' \in SUBSET Nat  BY <2>1, OperateTyped
  <2> QED  BY <1>0, <1>2, <2>2 DEF Created, TypeOK, AskedTyped, serverVars
<1>3. CASE Selected \/ Operated \/ Slept
  <2>1. Operate \/ ReadStatus \/ Conclude  BY <1>3 DEF Selected, Operated, Slept
  <2>2. AskedTyped /\ num' \in Nat /\ bad' \in SUBSET Nat
    BY <2>1, OperateTyped
  <2>3. UNCHANGED <<serverVars, target, refs, linked, live, rx, wire, up, logs, outlived, touched>>
    BY <1>3 DEF Selected, Operated, Slept
  <2> QED  BY <2>2, <2>3 DEF TypeOK, AskedTyped, serverVars
<1>4. CASE CreateFailed
  BY <1>4 DEF CreateFailed, TypeOK, serverVars, controlVars, linkVars, ghosts
<1>5. CASE StatusRead
  BY <1>0, <1>5 DEF StatusRead, TypeOK, serverVars, linkVars, Stages
<1>6. CASE Unlink
  BY <1>6 DEF Unlink, TypeOK, serverVars, linkVars, ghosts
<1>7. CASE Free
  <2>1. refs = {} /\ linked = {}  BY <1>7 DEF Free, At, ControlInv
  <2> QED  BY <1>7, <2>1 DEF Free, TypeOK, serverVars, linkVars, ghosts
<1>8. CASE GiveUp
  BY <1>0, <1>8 DEF GiveUp, TypeOK, serverVars, controlVars, linkVars
<1> QED  BY <1>1, <1>2, <1>3, <1>4, <1>5, <1>6, <1>7, <1>8

(* The oldest request goes to the server. *)
Taken(r) ==
  /\ toSrv # <<>> /\ r = Head(toSrv) /\ toSrv' = Tail(toSrv)
  /\ r \in Requests /\ r \in Pending /\ r.op \in 1..Cur /\ target[r.op] \in Objects
  /\ toSrv' \in Seq(Requests) /\ Pending' \subseteq Pending
Tells(ms) == wire' \in Seq(Messages) /\ Sent' = Sent \cup ms

LEMMA TakenFacts ==
  ASSUME TypeOK, RangeInv, toSrv # <<>>, toSrv' = Tail(toSrv)
  PROVE  Taken(Head(toSrv))
<1>1. toSrv \in Seq(Requests)  BY DEF TypeOK
<1>2. /\ Head(toSrv) \in Requests /\ Tail(toSrv) \in Seq(Requests)
      /\ Range(toSrv) = Range(Tail(toSrv)) \cup {Head(toSrv)}
  BY <1>1, HeadTail
<1>3. Head(toSrv) \in Pending /\ Pending' \subseteq Pending  BY <1>2 DEF Pending
<1>4. \A r \in Pending : r.op \in 1..Cur  BY DEF RangeInv
<1>5. target[Head(toSrv).op] \in Objects  BY <1>3, <1>4, Targets
<1> QED  BY <1>2, <1>3, <1>4, <1>5 DEF Taken

LEMMA Made ==
  ASSUME NEW e \in Nat, NEW s \in Stages, NEW b \in BOOLEAN
  PROVE  /\ Answer([at |-> s, op |-> e], b) \in Messages
         /\ Error(e, b) \in Messages
         /\ Report(e, b, <<"termination">>) \in Messages
         /\ Report(e, b, <<"error", "termination">>) \in Messages
<1>1. /\ <<>> \in Seq(Parts) /\ <<"error">> \in Seq(Parts) /\ <<"termination">> \in Seq(Parts)
      /\ <<"error", "termination">> \in Seq(Parts)
  BY DEF Parts
<1>2. "operating" \in Stages  BY DEF Stages
<1>3. Answer([at |-> s, op |-> e], b) \in Messages  BY <1>1 DEF Answer, Messages
<1>4. \A p \in Seq(Parts) : Report(e, b, p) \in Messages  BY <1>2 DEF Report, Messages
<1> QED  BY <1>1, <1>3, <1>4 DEF Error

LEMMA Told ==
  ASSUME TypeOK, NEW x \in Messages, NEW y \in Messages
  PROVE  /\ wire' = wire => Tells({})
         /\ wire' = wire \o <<>> => Tells({})
         /\ wire' = Append(wire, x) => Tells({x})
         /\ wire' = wire \o <<x>> => Tells({x})
         /\ wire' = wire \o <<x, y>> => Tells({x, y})
<1>1. wire \in Seq(Messages)  BY DEF TypeOK
<1>2. wire' = wire => Tells({})  BY <1>1 DEF Tells, Sent
<1>3. wire \o <<>> = wire  BY <1>1, Joined
<1>4. wire' = Append(wire, x) => Tells({x})  BY <1>1, Appended DEF Tells, Sent
<1>a. /\ wire \o <<x>> \in Seq(Messages) /\ Range(wire \o <<x>>) = Range(wire) \cup {x}
      /\ wire \o <<x, y>> \in Seq(Messages) /\ Range(wire \o <<x, y>>) = Range(wire) \cup {x, y}
  <2> DEFINE w == wire
  <2>1. w \in Seq(Messages)  BY <1>1
  <2> HIDE DEF w
  <2>2. /\ w \o <<x>> \in Seq(Messages) /\ Range(w \o <<x>>) = Range(w) \cup {x}
        /\ w \o <<x, y>> \in Seq(Messages) /\ Range(w \o <<x, y>>) = Range(w) \cup {x, y}
    BY <2>1, Joined
  <2> QED  BY <2>2 DEF w
<1>5. wire' = wire \o <<x>> => Tells({x})  BY <1>a DEF Tells, Sent
<1>6. wire' = wire \o <<x, y>> => Tells({x, y})  BY <1>a DEF Tells, Sent
<1> QED  BY <1>2, <1>3, <1>4, <1>5, <1>6

LEMMA Replied ==
  ASSUME TypeOK, RangeInv, toSrv # <<>>, NEW b \in BOOLEAN, NEW minus \in BOOLEAN
  PROVE  LET r == Head(toSrv) IN
         /\ Reply(<<>>) => Taken(r) /\ Tells({})
         /\ Reply(<<Answer(r, b)>>) => Taken(r) /\ Tells({Answer(r, b)})
         /\ Reply(<<Error(r.op, minus), Answer(r, b)>>)
            => Taken(r) /\ Tells({Error(r.op, minus), Answer(r, b)})
<1> DEFINE r == Head(toSrv)
<1>1. toSrv' = Tail(toSrv) => Taken(r)  BY TakenFacts
<1>2. r \in Requests  BY HeadTail DEF TypeOK
<1>3. r.op \in Nat /\ r.at \in Stages  BY <1>2 DEF Requests
<1>4. Answer(r, b) = Answer([at |-> r.at, op |-> r.op], b)  BY DEF Answer
<1>5. Answer(r, b) \in Messages /\ Error(r.op, minus) \in Messages  BY <1>3, <1>4, Made
<1> HIDE DEF r
<1>6. /\ Reply(<<>>) => toSrv' = Tail(toSrv) /\ wire' = wire \o <<>>
      /\ Reply(<<Answer(r, b)>>) => toSrv' = Tail(toSrv) /\ wire' = wire \o <<Answer(r, b)>>
      /\ Reply(<<Error(r.op, minus), Answer(r, b)>>)
         => toSrv' = Tail(toSrv) /\ wire' = wire \o <<Error(r.op, minus), Answer(r, b)>>
  BY DEF Reply
<1>7. /\ wire' = wire \o <<>> => Tells({})
      /\ wire' = wire \o <<Answer(r, b)>> => Tells({Answer(r, b)})
      /\ wire' = wire \o <<Error(r.op, minus), Answer(r, b)>> => Tells({Error(r.op, minus), Answer(r, b)})
  BY <1>5, Told
<1> QED  BY <1>1, <1>6, <1>7 DEF r

(* All that is new on the wire is the answer and reports about operation e. *)
Heard(r, ok) ==
  /\ wire' \in Seq(Messages)
  /\ \A m \in Sent' : m \in Sent \/ m = Answer(r, ok) \/ (m.kind = "report" /\ m.op = r.op)
Reported(e) ==
  /\ wire' \in Seq(Messages)
  /\ \A m \in Sent' : m \in Sent \/ (m.kind = "report" /\ m.op = e)

LEMMA RepliesHeard ==
  ASSUME TypeOK, RangeInv, toSrv # <<>>, NEW b \in BOOLEAN, NEW r, r = Head(toSrv)
  PROVE  /\ Reply(<<>>) => Taken(r) /\ Reported(r.op)
         /\ Reply(<<Answer(r, b)>>) => Taken(r) /\ Heard(r, b)
         /\ \A minus \in BOOLEAN :
              Reply(<<Error(r.op, minus), Answer(r, b)>>) => Taken(r) /\ Heard(r, b)
<1>1. \A minus \in BOOLEAN :
        /\ Reply(<<>>) => Taken(r) /\ Tells({})
        /\ Reply(<<Answer(r, b)>>) => Taken(r) /\ Tells({Answer(r, b)})
        /\ Reply(<<Error(r.op, minus), Answer(r, b)>>)
           => Taken(r) /\ Tells({Error(r.op, minus), Answer(r, b)})
  BY Replied
<1>2. \A minus : Error(r.op, minus).kind = "report" /\ Error(r.op, minus).op = r.op
  BY DEF Error, Report
<1>3. Tells({}) => Reported(r.op)  BY DEF Tells, Reported
<1>4. Tells({Answer(r, b)}) => Heard(r, b)  BY DEF Tells, Heard
<1>5. \A minus : Tells({Error(r.op, minus), Answer(r, b)}) => Heard(r, b)
  BY <1>2 DEF Tells, Heard
<1>6. TRUE \in BOOLEAN  OBVIOUS
<1> QED  BY <1>1, <1>3, <1>4, <1>5, <1>6

LEMMA ReadServed ==
  ASSUME TypeOK, RangeInv, ServeRead
  PROVE  \E r \in Pending, ok \in BOOLEAN :
           /\ Taken(r) /\ r.at \in {"creating", "reading"} /\ Tells({Answer(r, ok)})
           /\ UNCHANGED srv /\ Serves
<1> DEFINE r == Head(toSrv)
<1>1. toSrv # <<>> /\ r.at \in {"creating", "reading"} /\ UNCHANGED srv /\ Serves
  BY DEF ServeRead, Serving
<1>2. PICK ok \in BOOLEAN : Reply(<<Answer(r, ok)>>)  BY DEF ServeRead
<1>3. Taken(r) /\ Tells({Answer(r, ok)})  BY <1>1, <1>2, Replied
<1>4. r \in Pending  BY <1>3 DEF Taken
<1> QED  BY <1>1, <1>3, <1>4

LEMMA SelectServed ==
  ASSUME TypeOK, RangeInv, ServeSelect
  PROVE  \E r \in Pending :
           /\ Taken(r) /\ r.at = "selecting" /\ Serves
           /\ \/ /\ srv[target[r.op]].state = "ready" /\ Heard(r, TRUE)
                 /\ srv' = [srv EXCEPT ![target[r.op]] =
                              [state |-> "selected", op |-> 0, sel |-> r.op, num |-> r.num]]
              \/ Heard(r, FALSE) /\ UNCHANGED srv
<1> DEFINE r == Head(toSrv)
           o == target[r.op]
<1>1. toSrv # <<>> /\ r.at = "selecting" /\ Serves  BY DEF ServeSelect, Serving
<1>2. \/ /\ srv[o].state = "ready"
         /\ srv' = [srv EXCEPT ![o] = [state |-> "selected", op |-> 0, sel |-> r.op, num |-> r.num]]
         /\ Reply(<<Answer(r, TRUE)>>)
      \/ /\ UNCHANGED srv
         /\ IF Enhanced(o) THEN \E minus \in BOOLEAN : Reply(<<Error(r.op, minus), Answer(r, FALSE)>>)
                           ELSE Reply(<<Answer(r, FALSE)>>)
  BY DEF ServeSelect
<1>3. Reply(<<Answer(r, TRUE)>>) => Taken(r) /\ Heard(r, TRUE)  BY <1>1, RepliesHeard
<1>4. /\ Reply(<<Answer(r, FALSE)>>) => Taken(r) /\ Heard(r, FALSE)
      /\ \A minus \in BOOLEAN : Reply(<<Error(r.op, minus), Answer(r, FALSE)>>)
                                => Taken(r) /\ Heard(r, FALSE)
  BY <1>1, RepliesHeard
<1>5. Taken(r) => r \in Pending  BY DEF Taken
<1> HIDE DEF r
<1> QED  BY <1>1, <1>2, <1>3, <1>4, <1>5

LEMMA OperateServed ==
  ASSUME TypeOK, RangeInv, ServeOperate
  PROVE  \E r \in Pending :
           LET o == target[r.op] IN
           /\ Taken(r) /\ r.at = "operating" /\ Serves
           /\ \/ /\ Operable(o, r) /\ Reported(r.op) /\ Sent' \subseteq Sent
                 /\ srv' = [srv EXCEPT ![o].state = "waiting", ![o].op = r.op]
              \/ Operable(o, r) /\ Heard(r, FALSE) /\ srv' = [srv EXCEPT ![o] = Over(o)]
              \/ ~Operable(o, r) /\ Heard(r, FALSE) /\ UNCHANGED srv
<1> DEFINE r == Head(toSrv)
           o == target[r.op]
<1>1. toSrv # <<>> /\ r.at = "operating" /\ Serves  BY DEF ServeOperate, Serving
<1>2. \/ /\ Operable(o, r)
         /\ srv' = [srv EXCEPT ![o].state = "waiting", ![o].op = r.op]
         /\ Reply(<<>>)
      \/ /\ Operable(o, r)
         /\ srv' = [srv EXCEPT ![o] = Over(o)]
         /\ Reply(<<Answer(r, FALSE)>>)
      \/ /\ ~Operable(o, r)
         /\ UNCHANGED srv
         /\ IF srv[o].op # 0
            THEN Reply(<<Answer(r, FALSE)>>)
            ELSE \E minus \in BOOLEAN : Reply(<<Error(r.op, minus), Answer(r, FALSE)>>)
  BY DEF ServeOperate
<1>3. Reply(<<>>) => Taken(r) /\ Reported(r.op) /\ Sent' \subseteq Sent
  <2>1. Reply(<<>>) => Taken(r) /\ Tells({})  BY <1>1, Replied
  <2> QED  BY <2>1 DEF Tells, Reported
<1>4. /\ Reply(<<Answer(r, FALSE)>>) => Taken(r) /\ Heard(r, FALSE)
      /\ \A minus \in BOOLEAN : Reply(<<Error(r.op, minus), Answer(r, FALSE)>>)
                                => Taken(r) /\ Heard(r, FALSE)
  BY <1>1, RepliesHeard
<1>5. Taken(r) => r \in Pending  BY DEF Taken
<1> HIDE DEF r
<1> QED  BY <1>1, <1>2, <1>3, <1>4, <1>5

LEMMA Executed ==
  ASSUME TypeOK, RangeInv, NEW o \in Objects, Execute(o)
  PROVE  /\ srv[o].state = "waiting" /\ UNCHANGED <<toSrv, Pending>> /\ Serves
         /\ \E ok \in BOOLEAN :
              /\ Heard([at |-> "operating", op |-> srv[o].op], ok)
              /\ srv' = [srv EXCEPT ![o] = IF ok THEN [@ EXCEPT !.state = "executing"] ELSE Over(o)]
<1> DEFINE r == [at |-> "operating", op |-> srv[o].op]
<1>1. PICK ok \in BOOLEAN :
        /\ wire' = Append(wire, Answer(r, ok))
        /\ srv' = [srv EXCEPT ![o] = IF ok THEN [@ EXCEPT !.state = "executing"] ELSE Over(o)]
  BY DEF Execute
<1>2. srv[o].op \in Nat /\ "operating" \in Stages  BY DEF TypeOK, Stages
<1>3. Answer(r, ok) \in Messages  BY <1>2, Made
<1>4. Tells({Answer(r, ok)})  BY <1>1, <1>3, Told
<1>5. Heard(r, ok)  BY <1>4 DEF Tells, Heard
<1>6. srv[o].state = "waiting" /\ UNCHANGED <<toSrv, Pending>> /\ Serves  BY DEF Execute, Pending
<1> QED  BY <1>1, <1>5, <1>6

LEMMA Finished ==
  ASSUME TypeOK, RangeInv, NEW o \in Objects, Finish(o)
  PROVE  /\ srv[o].state = "executing" /\ UNCHANGED <<toSrv, Pending>> /\ Serves
         /\ Reported(srv[o].op) /\ srv' = [srv EXCEPT ![o] = Over(o)]
<1>1. PICK minus \in BOOLEAN :
        wire' = IF ~Enhanced(o) THEN wire
                ELSE Append(wire, Report(srv[o].op, minus, IF minus THEN <<"error", "termination">>
                                                                    ELSE <<"termination">>))
  BY DEF Finish
<1>2. srv[o].op \in Nat /\ "operating" \in Stages  BY DEF TypeOK, Stages
<1>3. /\ Report(srv[o].op, minus, <<"termination">>) \in Messages
      /\ Report(srv[o].op, minus, <<"error", "termination">>) \in Messages
  BY <1>2, Made
<1>4. /\ wire' = wire => Tells({})
      /\ \A x \in Messages : wire' = Append(wire, x) => Tells({x})
  BY <1>3, Told
<1>5. \/ Tells({}) \/ Tells({Report(srv[o].op, minus, <<"termination">>)})
      \/ Tells({Report(srv[o].op, minus, <<"error", "termination">>)})
  BY <1>1, <1>3, <1>4
<1>6. \A p : Report(srv[o].op, minus, p).kind = "report" /\ Report(srv[o].op, minus, p).op = srv[o].op
  BY DEF Report
<1>7. Reported(srv[o].op)  BY <1>5, <1>6 DEF Tells, Reported
<1>8. /\ srv[o].state = "executing" /\ UNCHANGED <<toSrv, Pending>> /\ Serves
      /\ srv' = [srv EXCEPT ![o] = Over(o)]
  BY DEF Finish, Pending
<1> QED  BY <1>7, <1>8

Entries == [state : {"ready", "selected", "waiting", "executing"}, op : Nat, sel : Nat, num : Nat]

LEMMA OverTyped ==
  ASSUME TypeOK, NEW o \in Objects
  PROVE  /\ Over(o) \in Entries
         /\ Over(o).op = 0 /\ Over(o).sel = srv[o].sel /\ Over(o).num = srv[o].num
         /\ Over(o).state = IF Sbo(o) /\ o \notin once THEN "selected" ELSE "ready"
BY DEF Over, TypeOK, Entries

LEMMA EntryTyped ==
  ASSUME TypeOK, NEW o \in Objects, NEW v \in Entries, NEW e \in Nat,
         NEW st \in {"ready", "selected", "waiting", "executing"}
  PROVE  /\ srv \in [Objects -> Entries] /\ [srv EXCEPT ![o] = v] \in [Objects -> Entries]
         /\ [srv[o] EXCEPT !.state = st] \in Entries
         /\ [srv EXCEPT ![o].state = st, ![o].op = e] \in [Objects -> Entries]
<1>1. srv \in [Objects -> Entries]  BY DEF TypeOK, Entries
<1>2. [srv EXCEPT ![o] = v] \in [Objects -> Entries]  BY <1>1
<1>3. srv[o] \in Entries  BY <1>1
<1>4. [srv[o] EXCEPT !.state = st] \in Entries  BY <1>3 DEF Entries
<1>5. [srv EXCEPT ![o].state = st, ![o].op = e] \in [Objects -> Entries]
  BY <1>1, <1>3 DEF Entries
<1> QED  BY <1>1, <1>2, <1>4, <1>5

LEMMA MessageTaken ==
  ASSUME TypeOK, wire # <<>>, wire' = Tail(wire)
  PROVE  /\ Head(wire) \in Sent /\ Head(wire) \in Messages
         /\ wire' \in Seq(Messages) /\ Sent' \subseteq Sent
<1>1. wire \in Seq(Messages)  BY DEF TypeOK
<1>2. /\ Head(wire) \in Messages /\ Tail(wire) \in Seq(Messages)
      /\ Range(wire) = Range(Tail(wire)) \cup {Head(wire)}
  BY <1>1, HeadTail
<1> QED  BY <1>2 DEF Sent

LEMMA ServerTyped ==
  ASSUME TypeOK, RangeInv,
         \/ ServeRead \/ ServeSelect \/ ServeOperate
         \/ \E o \in Objects : Execute(o) \/ Finish(o) \/ SelectionExpires(o)
         \/ Lose
  PROVE  TypeOK'
<1>0. Serves => UNCHANGED <<model, once, target, loop, num, refs, linked, live, bad, rx, up, crashed,
                            logs, doubt, outlived, touched>>
  BY DEF Serves, controlVars, ghosts
<1>1. CASE ServeRead
  <2>1. UNCHANGED srv /\ Serves /\ wire' \in Seq(Messages) /\ toSrv' \in Seq(Requests)
    BY <1>1, ReadServed DEF Taken, Tells
  <2> QED  BY <1>0, <2>1 DEF TypeOK
<1>2. CASE ServeSelect
  <2>1. PICK r \in Pending :
           /\ Taken(r) /\ r.at = "selecting" /\ Serves
           /\ \/ /\ srv[target[r.op]].state = "ready" /\ Heard(r, TRUE)
                 /\ srv' = [srv EXCEPT ![target[r.op]] =
                              [state |-> "selected", op |-> 0, sel |-> r.op, num |-> r.num]]
              \/ Heard(r, FALSE) /\ UNCHANGED srv
    BY <1>2, SelectServed
  <2>2. wire' \in Seq(Messages) /\ toSrv' \in Seq(Requests)  BY <2>1 DEF Taken, Heard
  <2>3. r.op \in Nat /\ r.num \in Nat  BY <2>1, Typed DEF Requests
  <2>4. srv' \in [Objects -> Entries]
    <3>1. [state |-> "selected", op |-> 0, sel |-> r.op, num |-> r.num] \in Entries
      BY <2>3 DEF Entries
    <3>2. target[r.op] \in Objects  BY <2>1 DEF Taken
    <3>3. /\ srv \in [Objects -> Entries]
          /\ [srv EXCEPT ![target[r.op]] = [state |-> "selected", op |-> 0, sel |-> r.op, num |-> r.num]]
             \in [Objects -> Entries]
      <4> DEFINE new == [state |-> "selected", op |-> 0, sel |-> r.op, num |-> r.num]
      <4>1. new \in Entries  BY <3>1
      <4> HIDE DEF new
      <4>2. /\ srv \in [Objects -> Entries]
            /\ [srv EXCEPT ![target[r.op]] = new] \in [Objects -> Entries]
        BY <3>2, <4>1, EntryTyped
      <4> QED  BY <4>2 DEF new
    <3> QED  BY <2>1, <3>3
  <2> QED  BY <1>0, <2>1, <2>2, <2>4 DEF TypeOK, Entries
<1>3. CASE ServeOperate
  <2>1. PICK r \in Pending :
           LET o == target[r.op] IN
           /\ Taken(r) /\ r.at = "operating" /\ Serves
           /\ \/ /\ Operable(o, r) /\ Reported(r.op) /\ Sent' \subseteq Sent
                 /\ srv' = [srv EXCEPT ![o].state = "waiting", ![o].op = r.op]
              \/ Operable(o, r) /\ Heard(r, FALSE) /\ srv' = [srv EXCEPT ![o] = Over(o)]
              \/ ~Operable(o, r) /\ Heard(r, FALSE) /\ UNCHANGED srv
    BY <1>3, OperateServed
  <2>2. wire' \in Seq(Messages) /\ toSrv' \in Seq(Requests)  BY <2>1 DEF Taken, Heard, Reported
  <2>3. r.op \in Nat /\ r.num \in Nat /\ target[r.op] \in Objects  BY <2>1, Typed DEF Requests, Taken
  <2>4. srv' \in [Objects -> Entries]
    <3> DEFINE o == target[r.op]
    <3>1. Over(o) \in Entries  BY <2>3, OverTyped
    <3>2. /\ srv \in [Objects -> Entries] /\ [srv EXCEPT ![o] = Over(o)] \in [Objects -> Entries]
          /\ [srv EXCEPT ![o].state = "waiting", ![o].op = r.op] \in [Objects -> Entries]
      BY <2>3, <3>1, EntryTyped
    <3> QED  BY <2>1, <3>2
  <2> QED  BY <1>0, <2>1, <2>2, <2>4 DEF TypeOK, Entries
<1>4. ASSUME NEW o \in Objects, Execute(o) PROVE TypeOK'
  <2>1. /\ UNCHANGED toSrv /\ Serves /\ wire' \in Seq(Messages)
        /\ \E ok \in BOOLEAN :
              srv' = [srv EXCEPT ![o] = IF ok THEN [@ EXCEPT !.state = "executing"] ELSE Over(o)]
    BY <1>4, Executed DEF Heard
  <2>2. srv' \in [Objects -> Entries]
    <3>1. Over(o) \in Entries  BY OverTyped
    <3>2. [srv[o] EXCEPT !.state = "executing"] \in Entries  BY <3>1, EntryTyped
    <3>3. [srv EXCEPT ![o] = Over(o)] \in [Objects -> Entries]  BY <3>1, EntryTyped
    <3>4. [srv EXCEPT ![o] = [srv[o] EXCEPT !.state = "executing"]] \in [Objects -> Entries]
      BY <3>2, EntryTyped
    <3>5. \/ srv' = [srv EXCEPT ![o] = [srv[o] EXCEPT !.state = "executing"]]
          \/ srv' = [srv EXCEPT ![o] = Over(o)]
      BY <2>1
    <3> QED  BY <3>3, <3>4, <3>5
  <2> QED  BY <1>0, <2>1, <2>2 DEF TypeOK, Entries
<1>5. ASSUME NEW o \in Objects, Finish(o) PROVE TypeOK'
  <2>1. UNCHANGED toSrv /\ Serves /\ wire' \in Seq(Messages) /\ srv' = [srv EXCEPT ![o] = Over(o)]
    BY <1>5, Finished DEF Reported
  <2>2. srv' \in [Objects -> Entries]
    BY <2>1, OverTyped, EntryTyped
  <2> QED  BY <1>0, <2>1, <2>2 DEF TypeOK, Entries
<1>6. ASSUME NEW o \in Objects, SelectionExpires(o) PROVE TypeOK'
  <2> DEFINE v == [srv[o] EXCEPT !.state = "ready"]
  <2>1. UNCHANGED <<toSrv, wire>> /\ Serves /\ srv' = [srv EXCEPT ![o] = v]
    BY <1>6 DEF SelectionExpires
  <2>2. v \in Entries  BY OverTyped, EntryTyped
  <2> HIDE DEF v
  <2>3. srv' \in [Objects -> Entries]  BY <2>1, <2>2, EntryTyped
  <2> QED  BY <1>0, <2>1, <2>3 DEF TypeOK, Entries
<1>7. CASE Lose
  <2>1. PICK gone \in SUBSET {o \in Objects : srv[o].sel # 0} :
          srv' = [o \in Objects |-> IF srv[o].op # 0 \/ o \in gone THEN Over(o) ELSE srv[o]]
    BY <1>7 DEF Lose
  <2>2. srv' \in [Objects -> Entries]
    <3>1. \A o \in Objects : Over(o) \in Entries /\ srv[o] \in Entries
      BY OverTyped, EntryTyped
    <3> QED  BY <2>1, <3>1
  <2>3. toSrv' \in Seq(Requests) /\ wire' \in Seq(Messages) /\ up' \in BOOLEAN
    <3>1. toSrv' = <<>> /\ wire' = <<>> /\ up' = FALSE  BY <1>7 DEF Lose
    <3>2. <<>> \in Seq(Requests) /\ <<>> \in Seq(Messages)  OBVIOUS
    <3> QED  BY <3>1, <3>2
  <2>4. UNCHANGED <<model, once, target, loop, num, refs, linked, live, bad, rx, crashed,
                    logs, doubt, outlived, touched>>
    BY <1>7 DEF Lose, controlVars, ghosts
  <2> QED  BY <2>2, <2>3, <2>4 DEF TypeOK, Entries
<1> QED  BY <1>1, <1>2, <1>3, <1>4, <1>5, <1>6, <1>7

LEMMA ReceiverTyped ==
  ASSUME TypeOK, RangeInv, Deliver \/ TakeReport \/ Step \/ Visit
  PROVE  TypeOK'
<1>0. rx \in [op : Nat, bad : BOOLEAN, parts : Seq(Parts), at : Nat, using : BOOLEAN]
  BY DEF TypeOK
<1>1. CASE Deliver
  <2>1. wire' \in Seq(Messages)  BY <1>1, MessageTaken DEF Deliver
  <2>2. loop' \in [at : Stages \cup {"idle", "sleeping", "unlinking", "freeing"},
                   ans : {"none", "yes", "no"}]
    BY <1>1 DEF Deliver, TypeOK
  <2> QED  BY <1>1, <2>1, <2>2 DEF Deliver, TypeOK, serverVars, controlVars, ghosts
<1>2. CASE TakeReport
  <2>1. wire' \in Seq(Messages) /\ Head(wire) \in Messages  BY <1>2, MessageTaken DEF TakeReport
  <2>2. rx' = [op |-> Head(wire).op, bad |-> Head(wire).bad, parts |-> Head(wire).parts,
               at |-> 0, using |-> FALSE]
    BY <1>2 DEF TakeReport, Waiting
  <2>3. rx' \in [op : Nat, bad : BOOLEAN, parts : Seq(Parts), at : Nat, using : BOOLEAN]
    BY <2>1, <2>2 DEF Messages
  <2> QED  BY <1>2, <2>1, <2>3 DEF TakeReport, TypeOK, serverVars, controlVars, ghosts
<1>3. CASE Step
  <2>1. touched' \in SUBSET Nat /\ crashed' \in BOOLEAN
    BY <1>0, <1>3 DEF Step, Touch, TypeOK
  <2>2. AfterList \in [op : Nat, bad : BOOLEAN, parts : Seq(Parts), at : Nat, using : BOOLEAN]
    <3>1. rx.parts # <<>> /\ rx.parts \in Seq(Parts)  BY <1>0, <1>3 DEF Step
    <3>2. Tail(rx.parts) \in Seq(Parts) /\ <<>> \in Seq(Parts)  BY <3>1
    <3> QED  BY <1>0, <3>2 DEF AfterList, Waiting
  <2>3. rx' \in [op : Nat, bad : BOOLEAN, parts : Seq(Parts), at : Nat, using : BOOLEAN]
    <3>1. \A c \in Beyond : c \in Nat  BY DEF Beyond, TypeOK
    <3>2. rx' = AfterList \/ \E c \in Beyond : rx' = [rx EXCEPT !.at = c, !.using = TRUE]
      BY <1>3 DEF Step
    <3> QED  BY <1>0, <2>2, <3>1, <3>2
  <2> QED  BY <1>3, <2>1, <2>3 DEF Step, TypeOK, serverVars, controlVars, linkVars
<1>4. CASE Visit
  <2>1. rx' \in [op : Nat, bad : BOOLEAN, parts : Seq(Parts), at : Nat, using : BOOLEAN]
    BY <1>0, <1>4 DEF Visit
  <2>2. /\ touched' \in SUBSET Nat /\ crashed' \in BOOLEAN /\ bad' \in SUBSET Nat
        /\ logs' \in SUBSET [ctl : Nat, from : Nat, says : BOOLEAN, was : BOOLEAN]
    <3>1. CASE rx.at \notin refs \cap live
      BY <1>0, <1>4, <3>1 DEF Visit, Touch, TypeOK
    <3>2. CASE rx.at \in refs \cap live
      <4>1. UNCHANGED <<touched, crashed>>  BY <1>4, <3>2 DEF Visit
      <4>2. bad' \in SUBSET Nat
        <5>1. bad' \in {bad, bad \cup {rx.at}, bad \ {rx.at}}  BY <1>4, <3>2 DEF Visit
        <5> QED  BY <1>0, <5>1 DEF TypeOK
      <4>3. logs' \in SUBSET [ctl : Nat, from : Nat, says : BOOLEAN, was : BOOLEAN]
        <5>1. logs' \in {logs, logs \cup {[ctl |-> rx.at, from |-> rx.op, says |-> rx.at \in bad, was |-> rx.bad]}}
          BY <1>4, <3>2 DEF Visit
        <5>2. rx.at \in Nat /\ rx.op \in Nat /\ (rx.at \in bad) \in BOOLEAN /\ rx.bad \in BOOLEAN
          BY <1>0
        <5>3. [ctl |-> rx.at, from |-> rx.op, says |-> rx.at \in bad, was |-> rx.bad]
              \in [ctl : Nat, from : Nat, says : BOOLEAN, was : BOOLEAN]
          BY <5>2, Zenon
        <5>4. logs \in SUBSET [ctl : Nat, from : Nat, says : BOOLEAN, was : BOOLEAN]  BY DEF TypeOK
        <5> QED  BY <5>1, <5>3, <5>4, Zenon
      <4> QED  BY <4>1, <4>2, <4>3 DEF TypeOK
    <3> QED  BY <3>1, <3>2
  <2> QED  BY <1>4, <2>1, <2>2 DEF Visit, TypeOK, serverVars, controlVars, linkVars
<1> QED  BY <1>1, <1>2, <1>3, <1>4

LEMMA TypeStep ==
  ASSUME TypeOK, RangeInv, ControlInv, Next
  PROVE  TypeOK'
BY LoopTyped, ServerTyped, ReceiverTyped DEF Next

-----------------------------------------------------------------------------
(* The event loop asks *)

(* What is added to the queue when an association exists. *)
Queued(q) ==
  /\ Pending' = Pending \cup {q}
  /\ Len(toSrv') = Len(toSrv) + 1 /\ toSrv' # <<>>
  /\ DOMAIN toSrv' = 1..(Len(toSrv) + 1)
  /\ \A i \in DOMAIN toSrv : toSrv'[i] = toSrv[i]
  /\ toSrv'[Len(toSrv) + 1] = q

LEMMA AskFacts ==
  ASSUME TypeOK, NEW s \in Stages, NEW e \in Nat, NEW n \in Nat, NEW w \in BOOLEAN,
         Ask(s, e, n, w)
  PROVE  /\ loop'.at = s /\ doubt \subseteq doubt'
         /\ \/ /\ up /\ loop'.ans = "none" /\ Queued([at |-> s, op |-> e, num |-> n])
            \/ /\ ~up /\ loop'.ans = "no" /\ toSrv' = toSrv /\ Pending' = Pending
               /\ e \in doubt'
<1> DEFINE q == [at |-> s, op |-> e, num |-> n]
<1>1. q \in Requests /\ toSrv \in Seq(Requests)  BY DEF Requests, TypeOK
<1>2. CASE up
  <2>1. toSrv' = Append(toSrv, q) /\ loop'.ans = "none"  BY <1>2 DEF Ask
  <2> HIDE DEF q
  <2>2. Len(toSrv) \in Nat /\ DOMAIN toSrv = 1..Len(toSrv)  BY <1>1
  <2>3. /\ Len(toSrv') = Len(toSrv) + 1 /\ DOMAIN toSrv' = 1..(Len(toSrv) + 1)
        /\ \A i \in DOMAIN toSrv : toSrv'[i] = toSrv[i]
        /\ toSrv'[Len(toSrv) + 1] = q
        /\ Range(toSrv') = Range(toSrv) \cup {q}
    BY <1>1, <2>1, Appended
  <2>4. toSrv' # <<>>  BY <2>2, <2>3
  <2>5. Pending' = Pending \cup {q}  BY <2>3 DEF Pending
  <2>6. Queued(q)  BY <2>3, <2>4, <2>5 DEF Queued
  <2> QED  BY <1>2, <2>1, <2>6 DEF Ask, q
<1>3. CASE ~up
  BY <1>3 DEF Ask, Pending
<1> QED  BY <1>2, <1>3

(* A step of the action from where it stands to another stage, with a      *)
(* request, or to the sleep.                                               *)
Goes(q) ==
  /\ q.op = Cur /\ (loop'.at # "sleeping" => q.at = loop'.at)
  /\ ~up => Cur \in doubt'
  /\ \/ loop'.at # "sleeping" /\ up /\ loop'.ans = "none" /\ Queued(q)
     \/ /\ ~up \/ loop'.at = "sleeping"
        /\ loop'.ans = (IF loop'.at = "sleeping" THEN "none" ELSE "no")
        /\ toSrv' = toSrv /\ Pending' = Pending

LEMMA Going ==
  ASSUME TypeOK, Operate \/ Select \/ ReadStatus \/ Conclude
  PROVE  /\ doubt \subseteq doubt' /\ loop'.at \in {"selecting", "operating", "reading", "sleeping"}
         /\ \E q \in Requests :
              /\ Goes(q)
              /\ q.at \in {"selecting", "operating"} => q.num = num'
         /\ Operate => /\ loop'.at = "operating" /\ num' = IF Sbo(Object) THEN num ELSE num + 1
                       /\ loop'.ans \in {"none", "no"}
         /\ Select => loop'.at = "selecting"
         /\ Conclude \/ ReadStatus => loop'.at \in {"reading", "sleeping"}
<1>1. /\ Cur \in Nat /\ num \in Nat /\ num + 1 \in Nat /\ 0 \in Nat
      /\ {"creating", "selecting", "operating", "reading"} = Stages
      /\ TRUE \in BOOLEAN /\ FALSE \in BOOLEAN /\ Enhanced(Object) \in BOOLEAN
  <2>1. Cur \in Nat /\ num \in Nat /\ num + 1 \in Nat /\ 0 \in Nat  BY Typed DEF TypeOK
  <2>2. {"creating", "selecting", "operating", "reading"} = Stages  BY DEF Stages
  <2>3. TRUE \in BOOLEAN /\ FALSE \in BOOLEAN /\ Enhanced(Object) \in BOOLEAN  BY DEF Enhanced
  <2> QED  BY <2>1, <2>2, <2>3
<1>2. ASSUME NEW s \in {"selecting", "operating", "reading"}, NEW n \in Nat, NEW w \in BOOLEAN,
             Ask(s, Cur, n, w)
      PROVE  /\ doubt \subseteq doubt' /\ loop'.at = s /\ loop'.ans \in {"none", "no"}
             /\ \E q \in Requests : Goes(q) /\ q.num = n
  <2> DEFINE q == [at |-> s, op |-> Cur, num |-> n]
  <2>1. s \in Stages  BY <1>1
  <2>2. /\ loop'.at = s /\ doubt \subseteq doubt'
        /\ \/ up /\ loop'.ans = "none" /\ Queued(q)
           \/ ~up /\ loop'.ans = "no" /\ toSrv' = toSrv /\ Pending' = Pending /\ Cur \in doubt'
    BY <1>1, <1>2, <2>1, AskFacts
  <2>3. q \in Requests /\ q.op = Cur /\ q.at = s /\ q.num = n  BY <1>1, <2>1 DEF Requests
  <2> HIDE DEF q
  <2>4. Goes(q)  BY <2>2, <2>3 DEF Goes
  <2> QED  BY <2>2, <2>3, <2>4
<1>3. ASSUME Operate
      PROVE  /\ doubt \subseteq doubt' /\ loop'.at = "operating" /\ loop'.ans \in {"none", "no"}
             /\ \E q \in Requests : Goes(q) /\ q.num = num'
             /\ num' = IF Sbo(Object) THEN num ELSE num + 1
  <2>1. /\ num' = (IF Sbo(Object) THEN num ELSE num + 1) /\ Ask("operating", Cur, num', TRUE)
    BY <1>3 DEF Operate
  <2>2. num' \in Nat  BY <1>1, <2>1
  <2> QED  BY <1>1, <1>2, <2>1, <2>2
<1>4. ASSUME Select
      PROVE  /\ doubt \subseteq doubt' /\ loop'.at = "selecting"
             /\ \E q \in Requests : Goes(q) /\ q.num = num'
  <2>1. num' = num + 1 /\ Ask("selecting", Cur, num', Enhanced(Object))  BY <1>4 DEF Select
  <2>2. num' \in Nat  BY <1>1, <2>1
  <2> QED  BY <1>1, <1>2, <2>1, <2>2
<1>5. ASSUME ReadStatus
      PROVE  /\ doubt \subseteq doubt' /\ loop'.at = "reading"
             /\ \E q \in Requests : Goes(q) /\ q.at = "reading"
  <2>1. Ask("reading", Cur, 0, FALSE)  BY <1>5 DEF ReadStatus
  <2>2. /\ doubt \subseteq doubt' /\ loop'.at = "reading"
        /\ \E q \in Requests : Goes(q)
    BY <1>1, <1>2, <2>1
  <2> QED  BY <2>2 DEF Goes
<1>6. ASSUME Conclude
      PROVE  /\ doubt \subseteq doubt' /\ loop'.at \in {"reading", "sleeping"}
             /\ \E q \in Requests : Goes(q) /\ q.at = "reading"
  <2>1. CASE Enhanced(Object)
    <3> DEFINE q == [at |-> "reading", op |-> Cur, num |-> 0]
    <3>1. q \in Requests /\ q.op = Cur /\ q.at = "reading"  BY <1>1 DEF Requests
    <3>2. /\ loop' = [at |-> "sleeping", ans |-> "none"]
          /\ doubt' = IF up THEN doubt ELSE doubt \cup {Cur}
          /\ toSrv' = toSrv
      BY <1>6, <2>1 DEF Conclude
    <3>3. Pending' = Pending  BY <3>2 DEF Pending
    <3> HIDE DEF q
    <3>4. Goes(q)  BY <3>1, <3>2, <3>3 DEF Goes
    <3> QED  BY <3>1, <3>2, <3>4
  <2>2. CASE ~Enhanced(Object)
    <3>1. ReadStatus  BY <1>6, <2>2 DEF Conclude
    <3> QED  BY <1>5, <3>1
  <2> QED  BY <2>1, <2>2
<1> QED  BY <1>3, <1>4, <1>5, <1>6

(* A step of the event loop between its calls moves it forward. *)
LEMMA Forward ==
  ASSUME TypeOK, IInv, Created \/ Selected \/ Operated \/ Slept
  PROVE  /\ Cur \in Nat /\ Cur # 0
         /\ UNCHANGED <<model, once, target, rx, wire, srv, outlived, touched>>
         /\ doubt \subseteq doubt'
         /\ loop.at \in {"creating", "selecting", "operating", "sleeping"}
         /\ loop'.at \in {"selecting", "operating", "reading", "sleeping"}
         /\ \A x \in Stages : Passed(x, loop.at) => Passed(x, loop'.at) /\ x # loop'.at
         /\ \E q \in Requests : /\ Goes(q)
                                /\ q.at \in {"selecting", "operating"} => q.num = num'
         /\ \A r \in Pending : r.op \in doubt
         /\ Created \/ (UNCHANGED <<refs, linked, live>> /\ loop.at # "creating")
         /\ loop'.at = "selecting" => Created /\ Sbo(Object)
         /\ loop'.at = "operating" =>
              /\ loop.ans = "yes" /\ model[Object] # "status" /\ loop'.ans \in {"none", "no"}
              /\ \/ loop.at = "creating" /\ ~Sbo(Object)
                 \/ loop.at = "selecting" /\ Sbo(Object) /\ num' = num
<1>0. /\ Cur \in Nat
      /\ \A r \in Pending : r.at \in Stages
      /\ Stages = {"creating", "selecting", "operating", "reading"}
      /\ loop.at # "idle" => Cur # 0
  BY Typed DEF Requests, Stages, IInv, RangeInv
<1>1. \A r \in Pending : r.op \in doubt \/ (Now(r) /\ loop.ans = "none")  BY DEF IInv, QueueInv
<1>2. loop.ans # "none" => \A r \in Pending : r.op \in doubt  BY <1>1
<1>3. CASE Created
  <2>1. /\ Operate \/ Select \/ ReadStatus
        /\ Select => Sbo(Object)
        /\ Operate => model[Object] \in {"direct", "directEnhanced"}
        /\ loop.at = "creating" /\ loop.ans = "yes"
        /\ UNCHANGED <<model, once, target, rx, wire, srv, outlived, touched>>
    <3>1. \/ model[Object] = "status" /\ ReadStatus
          \/ Sbo(Object) /\ Select
          \/ model[Object] \in {"direct", "directEnhanced"} /\ Operate
      BY <1>3 DEF Created
    <3>2. Operate => loop'.at = "operating"  BY Going
    <3>3. Select => loop'.at = "selecting"  BY Going
    <3>4. ReadStatus => loop'.at \in {"reading", "sleeping"}  BY Going
    <3>5. loop.at = "creating" /\ loop.ans = "yes"
          /\ UNCHANGED <<model, once, target, rx, wire, srv, outlived, touched>>
      BY <1>3 DEF Created, Answered, At, Yes, serverVars
    <3> QED  BY <3>1, <3>2, <3>3, <3>4, <3>5
  <2>2. model[Object] \in {"direct", "directEnhanced"} => ~Sbo(Object) /\ model[Object] # "status"
    BY DEF Sbo
  <2>3. \A x \in Stages : Passed(x, "creating") =>
          x = "creating" /\ \A y \in {"selecting", "operating", "reading", "sleeping"} : Passed(x, y) /\ x # y
    BY <1>0 DEF Passed
  <2> QED  BY <1>0, <1>2, <1>3, <2>1, <2>2, <2>3, Going
<1>4. CASE Selected
  <2>1. /\ loop.at = "selecting" /\ loop.ans # "none"
        /\ UNCHANGED <<model, once, target, rx, wire, srv, outlived, touched, refs, linked, live>>
        /\ (loop.ans = "yes" /\ Operate) \/ Conclude
        /\ Sbo(Object)
    BY <1>4 DEF Selected, Answered, At, Yes, serverVars, IInv, RangeInv
  <2>2. model[Object] # "status"  BY <2>1 DEF Sbo
  <2>3. \A x \in Stages : Passed(x, "selecting") =>
          \A y \in {"operating", "reading", "sleeping"} : Passed(x, y) /\ x # y
    BY <1>0 DEF Passed
  <2> QED  BY <1>0, <1>2, <2>1, <2>2, <2>3, Going
<1>5. CASE Operated
  <2>1. /\ loop.at = "operating" /\ loop.ans # "none" /\ Conclude
        /\ UNCHANGED <<model, once, target, rx, wire, srv, outlived, touched, refs, linked, live>>
    BY <1>5 DEF Operated, Answered, At, serverVars
  <2>2. \A x \in Stages : Passed(x, "operating") =>
          \A y \in {"reading", "sleeping"} : Passed(x, y) /\ x # y
    BY <1>0 DEF Passed
  <2> QED  BY <1>0, <1>2, <2>1, <2>2, Going
<1>6. CASE Slept
  <2>1. /\ loop.at = "sleeping" /\ ReadStatus
        /\ UNCHANGED <<model, once, target, rx, wire, srv, outlived, touched, refs, linked, live>>
    BY <1>6 DEF Slept, At, serverVars
  <2>2. \A x \in Stages : Passed(x, "sleeping") =>
          \A y \in {"reading", "sleeping"} : Passed(x, y) /\ x # y
    BY <1>0 DEF Passed
  <2>3. \A r \in Pending : ~Now(r)  BY <1>0, <2>1 DEF Now
  <2>4. \A r \in Pending : r.op \in doubt  BY <1>1, <2>3
  <2> QED  BY <1>0, <2>1, <2>2, <2>4, Going
<1> QED  BY <1>3, <1>4, <1>5, <1>6

LEMMA AskSteps ==
  ASSUME TypeOK, IInv, Created \/ Selected \/ Operated \/ Slept
  PROVE  IInv'
<1>1. PICK q \in Requests : Goes(q) /\ (q.at \in {"selecting", "operating"} => q.num = num')
  BY Forward
<1>2. /\ Cur \in Nat /\ Cur # 0
      /\ UNCHANGED <<model, once, target, rx, wire, srv, outlived, touched>>
      /\ doubt \subseteq doubt'
      /\ loop.at \in {"creating", "selecting", "operating", "sleeping"}
      /\ loop'.at \in {"selecting", "operating", "reading", "sleeping"}
      /\ \A x \in Stages : Passed(x, loop.at) => Passed(x, loop'.at) /\ x # loop'.at
      /\ \A r \in Pending : r.op \in doubt
  BY Forward
<1>3. /\ Cur' = Cur /\ Object' = Object /\ Sent' = Sent /\ Answers' = Answers
      /\ \A o : Sbo(o)' <=> Sbo(o)
  BY <1>2 DEF Cur, Object, Sent, Answers, Sbo
<1>4. /\ Pending' \subseteq Pending \cup {q}
      /\ loop'.ans \in {"none", "no"}
      /\ q.op = Cur /\ (loop'.at # "sleeping" => q.at = loop'.at)
      /\ ~up => Cur \in doubt'
      /\ q \in Pending' => q \in Pending \/ (loop'.at # "sleeping" /\ loop'.ans = "none")
  BY <1>1, <1>2 DEF Goes, Queued
<1>5. /\ Pending \subseteq Requests /\ Sent \subseteq Messages
      /\ Object \in Objects
      /\ {"creating", "selecting", "operating", "reading"} = Stages
      /\ toSrv = <<>> <=> Pending = {}
      /\ \A i \in DOMAIN toSrv : toSrv[i] \in Pending
  BY <1>2, Typed, Targets DEF Stages
<1>6. \A r \in Pending : r.op = Cur => r.at # loop'.at
  BY <1>2, <1>5 DEF IInv, RangeInv, Requests
<1>7. \A m \in Answers : m.op = Cur => m.at # loop'.at
  BY <1>2, <1>5 DEF IInv, RangeInv, Messages, Answers
<1>8. RangeInv'
  <2>1. \A r \in Pending' : r.op \in 1..Cur /\ (r.op = Cur => Passed(r.at, loop'.at))
    <3>1. \A r \in Pending : r.op \in 1..Cur /\ (r.op = Cur => Passed(r.at, loop'.at))
      BY <1>2, <1>5 DEF IInv, RangeInv, Requests
    <3>2. q \in Pending' /\ q \notin Pending => Passed(q.at, loop'.at)
      BY <1>2, <1>4 DEF Passed
    <3> QED  BY <1>2, <1>4, <3>1, <3>2
  <2>2. loop'.at = "selecting" => Sbo(Object)  BY Forward
  <2>3. \A r \in Pending' : r.at = "selecting" => Sbo(target[r.op])
    <3>1. \A r \in Pending : r.at = "selecting" => Sbo(target[r.op])  BY DEF IInv, RangeInv
    <3>2. q \in Pending' /\ q \notin Pending /\ q.at = "selecting" => Sbo(target[q.op])
      BY <1>4, <2>2 DEF Object
    <3> QED  BY <1>4, <3>1, <3>2
  <2>4. loop'.at = "operating" => model[Object] # "status"  BY Forward
  <2>5. \A m \in Answers : m.op = Cur => Passed(m.at, loop'.at)
    BY <1>2, <1>5 DEF IInv, RangeInv, Answers, Messages
  <2>6. \A m \in Sent : m.op \in 1..Cur  BY DEF IInv, RangeInv
  <2>7. "selecting" \in Stages /\ "operating" \in Stages  BY <1>5
  <2>8. \A o \in Objects :
          /\ srv[o].op \in 0..Cur /\ srv[o].sel \in 0..Cur
          /\ srv[o].op # 0 => target[srv[o].op] = o
          /\ srv[o].op # 0 /\ srv[o].op = Cur => Passed("operating", loop'.at)
          /\ srv[o].sel # 0 => target[srv[o].sel] = o
          /\ srv[o].sel # 0 /\ srv[o].sel = Cur => Passed("selecting", loop'.at)
          /\ srv[o].op # 0 <=> srv[o].state \in {"waiting", "executing"}
          /\ srv[o].state = "selected" => Sbo(o) /\ srv[o].sel # 0
    BY <1>2, <2>7 DEF IInv, RangeInv
  <2>9. /\ rx.op \in 0..Cur /\ rx.at \in 0..Cur /\ (rx.using => rx.at # 0)
        /\ rx.op = 0 => rx.parts = <<>> /\ rx.at = 0
    BY DEF IInv, RangeInv
  <2> QED  BY <1>2, <1>3, <2>1, <2>2, <2>3, <2>4, <2>5, <2>6, <2>8, <2>9 DEF RangeInv
<1>9. QueueInv'
  <2>1. loop'.at = "operating" => toSrv = <<>>
    <3>1. loop'.at = "operating" => loop.ans = "yes"  BY Forward
    <3> QED  BY <3>1 DEF IInv, QueueInv
  <2>2. \A i \in DOMAIN toSrv' : Now(toSrv[i])' => i = Len(toSrv')
    <3>1. \A i \in DOMAIN toSrv : ~(toSrv[i].op = Cur /\ toSrv[i].at = loop'.at)
      BY <1>5, <1>6
    <3>2. CASE toSrv' = toSrv  BY <1>3, <3>1, <3>2 DEF Now
    <3>3. CASE toSrv' # toSrv
      <4>1. Queued(q)  BY <1>1, <3>3 DEF Goes
      <4>2. Len(toSrv) \in Nat /\ DOMAIN toSrv = 1..Len(toSrv)  BY DEF TypeOK
      <4>3. \A i \in DOMAIN toSrv' : (i \in DOMAIN toSrv /\ toSrv'[i] = toSrv[i]) \/ i = Len(toSrv')
        BY <4>1, <4>2 DEF Queued
      <4> QED  BY <1>3, <3>1, <4>3 DEF Now
    <3> QED  BY <3>2, <3>3
  <2>3. \A i \in DOMAIN toSrv' : toSrv'[i].at = "operating" => i = 1
    <3>1. \A i \in DOMAIN toSrv : toSrv[i].at = "operating" => i = 1  BY DEF IInv, QueueInv
    <3>2. CASE toSrv' = toSrv  BY <3>1, <3>2
    <3>3. CASE toSrv' # toSrv
      <4>1. Queued(q) /\ loop'.at # "sleeping"  BY <1>1, <3>3 DEF Goes
      <4>2. Len(toSrv) \in Nat /\ DOMAIN toSrv = 1..Len(toSrv)  BY DEF TypeOK
      <4>3. \A i \in DOMAIN toSrv' : (i \in DOMAIN toSrv /\ toSrv'[i] = toSrv[i])
                                     \/ (i = Len(toSrv) + 1 /\ toSrv'[i] = q)
        BY <4>1, <4>2 DEF Queued
      <4>4. q.at = "operating" => Len(toSrv) + 1 = 1  BY <1>4, <2>1, <4>1
      <4> QED  BY <3>1, <4>3, <4>4
    <3> QED  BY <3>2, <3>3
  <2>4. loop'.at = "operating" => \A r \in Pending' : Now(r)'
    BY <1>3, <1>4, <1>5, <2>1 DEF Now
  <2>5. \A m \in Answers' : Now(m)' => toSrv' = <<>>  BY <1>3, <1>7 DEF Now
  <2>6. \A o \in Objects : ~(srv[o].op # 0 /\ srv[o].op = Cur /\ loop'.at = "operating")
    <3>1. \A o \in Objects : srv[o].op # 0 /\ srv[o].op = Cur => Passed("operating", loop.at)
      BY DEF IInv, RangeInv
    <3>2. loop'.at = "operating" => loop.at \in {"creating", "selecting"}  BY Forward
    <3> QED  BY <3>1, <3>2 DEF Passed
  <2>7. loop'.at \notin Stages => loop'.ans = "none"  BY <1>1, <1>2, <1>5 DEF Goes
  <2>8. \A r \in Pending' : r.op \in doubt' \/ (Now(r)' /\ loop'.ans = "none")
    BY <1>2, <1>3, <1>4 DEF Now
  <2> QED  BY <1>2, <1>3, <1>4, <2>2, <2>3, <2>4, <2>5, <2>6, <2>7, <2>8 DEF QueueInv
<1>10. SelectInv'
  <2>1. \A o \in Objects : srv[o].op # 0 /\ Sbo(o) => srv[o].sel = srv[o].op  BY DEF IInv, SelectInv
  <2>2. \A r \in Pending' : r.at = "operating" /\ Sbo(target[r.op]) => srv[target[r.op]].sel = r.op
    <3>1. \A r \in Pending : r.at = "operating" /\ Sbo(target[r.op]) => srv[target[r.op]].sel = r.op
      BY DEF IInv, SelectInv
    <3>2. loop'.at = "operating" /\ Sbo(Object) => loop.at = "selecting" /\ loop.ans = "yes"
      BY Forward
    <3>3. loop.at = "selecting" /\ loop.ans = "yes" => srv[Object].sel = Cur  BY DEF IInv, SelectInv
    <3> QED  BY <1>4, <3>1, <3>2, <3>3 DEF Object
  <2>3. \A r \in Pending' : Now(r)' /\ r.at = "selecting" => srv[Object].sel # Cur
    <3>1. loop'.at = "selecting" => loop.at = "creating"  BY Forward DEF Created, Answered, At
    <3>2. srv[Object].sel # 0 /\ srv[Object].sel = Cur => Passed("selecting", loop.at)
      BY <1>5 DEF IInv, RangeInv
    <3> QED  BY <1>2, <3>1, <3>2 DEF Now, Passed
  <2>4. \A r \in Pending' : Now(r)' /\ r.at \in {"selecting", "operating"} => r.num = num'
    BY <1>1, <1>3, <1>4, <1>6 DEF Now
  <2>5. \A m \in Answers' : ~Now(m)'  BY <1>3, <1>7 DEF Now
  <2>6. loop'.at \in {"selecting", "operating"} /\ srv[Object].sel = Cur => srv[Object].num = num'
    <3>1. loop.at = "creating" => srv[Object].sel # Cur
      BY <1>2, <1>5 DEF IInv, RangeInv, Passed
    <3>2. loop'.at = "selecting" => loop.at = "creating"  BY Forward DEF Created, Answered, At
    <3>3. loop'.at = "operating" => loop.at = "creating" \/ (loop.at = "selecting" /\ num' = num)
      BY Forward
    <3>4. loop.at = "selecting" /\ srv[Object].sel = Cur => srv[Object].num = num
      BY DEF IInv, SelectInv
    <3> QED  BY <3>1, <3>2, <3>3, <3>4
  <2> QED  BY <1>2, <1>3, <1>4, <2>1, <2>2, <2>3, <2>4, <2>5, <2>6 DEF SelectInv
<1>11. LeftInv'
  <2>1. \A o \in once : srv[o].state = "selected" =>
          \/ srv[o].sel \in doubt
          \/ srv[o].sel = Cur /\ loop.at = "selecting" /\ loop.ans \in {"none", "yes"}
          \/ srv[o].sel = Cur /\ loop.at = "operating" /\ loop.ans = "none"
    BY DEF IInv, LeftInv
  <2>2. loop.at = "selecting" /\ loop.ans \in {"none", "yes"} =>
          \/ Cur \in doubt'
          \/ loop'.at = "operating" /\ loop'.ans = "none"
    <3>1. ASSUME loop.at = "selecting", loop.ans \in {"none", "yes"}
          PROVE  Selected /\ loop.ans = "yes"
      BY <3>1 DEF Created, Selected, Operated, Slept, Answered, At
    <3>2. Selected => (Yes /\ Operate) \/ (No /\ Conclude)  BY DEF Selected
    <3>3. Operate => loop'.at = "operating"  BY Going
    <3>4. loop'.at = "operating" => Cur \in doubt' \/ loop'.ans = "none"
      BY <1>1 DEF Goes
    <3> QED  BY <1>4, <3>1, <3>2, <3>3, <3>4 DEF No, Yes
  <2>3. ~(loop.at = "operating" /\ loop.ans = "none")
    BY DEF Created, Selected, Operated, Slept, Answered, At
  <2>4. \A m \in Answers' : ~Now(m)'  BY <1>3, <1>7 DEF Now
  <2> QED  BY <1>2, <1>3, <2>1, <2>2, <2>3, <2>4 DEF LeftInv
<1>12. ControlInv'
  <2>1. CASE Created
    <3>1. live = {} /\ refs = {} /\ linked = {}
      BY <2>1 DEF Created, Answered, At, IInv, ControlInv, TypeOK
    <3>2. refs' = refs \cup {Cur} /\ linked' = linked \cup {Cur} /\ live' = live \cup {Cur}
      BY <2>1 DEF Created
    <3> QED  BY <1>2, <1>3, <3>1, <3>2 DEF ControlInv
  <2>2. CASE ~Created
    <3>1. UNCHANGED <<refs, linked, live>> /\ loop.at # "creating"  BY <2>2, Forward
    <3> QED  BY <1>2, <1>3, <3>1 DEF IInv, ControlInv
  <2> QED  BY <2>1, <2>2
<1>13. OutlivedInv' /\ FreedUntouched'
  <2>1. \A e \in 1..Cur : Concerns(e)' => Concerns(e) \/ e = Cur
    BY <1>2, <1>3, <1>4 DEF Concerns
  <2>2. linked \subseteq linked' /\ refs \subseteq refs'  BY Forward DEF Created
  <2> QED  BY <1>2, <1>3, <2>1, <2>2 DEF IInv, OutlivedInv, FreedUntouched
<1> QED  BY <1>8, <1>9, <1>10, <1>11, <1>12, <1>13 DEF IInv

LEMMA ControlStep ==
  ASSUME TypeOK, IInv, NEW o \in Objects, Control(o)
  PROVE  IInv'
<1> DEFINE q == [at |-> "creating", op |-> Cur + 1, num |-> 0]
<1>1. /\ Cur \in Nat /\ loop.at = "idle"
      /\ UNCHANGED <<model, once, num, refs, linked, live, rx, wire, srv, outlived, touched>>
      /\ target' = Append(target, o)
  BY Typed DEF Control, At, serverVars, controlVars
<1>2. /\ Cur' = Cur + 1 /\ Sent' = Sent /\ Answers' = Answers
      /\ \A e \in 1..Cur : target'[e] = target[e]
      /\ \A x : Sbo(x)' <=> Sbo(x)
  BY <1>1, Targets DEF Cur, Sent, Answers, Sbo
<1>3. /\ loop'.at = "creating" /\ doubt \subseteq doubt'
      /\ \/ loop'.ans = "none" /\ Queued(q)
         \/ /\ loop'.ans = "no" /\ toSrv' = toSrv /\ Pending' = Pending
            /\ Cur + 1 \in doubt'
  <2>1. Ask("creating", Cur + 1, 0, FALSE)  BY Zenon DEF Control
  <2>2. "creating" \in Stages /\ Cur + 1 \in Nat /\ 0 \in Nat /\ FALSE \in BOOLEAN
    BY <1>1 DEF Stages
  <2>3. /\ loop'.at = "creating" /\ doubt \subseteq doubt'
        /\ \/ up /\ loop'.ans = "none" /\ Queued(q)
           \/ /\ ~up /\ loop'.ans = "no" /\ toSrv' = toSrv /\ Pending' = Pending
              /\ Cur + 1 \in doubt'
    BY <2>1, <2>2, AskFacts
  <2> QED  BY <2>3
<1>4. q.at = "creating" /\ q.op = Cur + 1  OBVIOUS
<1> HIDE DEF q
<1>5. /\ Pending' \subseteq Pending \cup {q}
      /\ q \in Pending' => q \in Pending \/ loop'.ans = "none"
  BY <1>3 DEF Queued
<1>6. /\ Pending \subseteq Requests
      /\ \A i \in DOMAIN toSrv : toSrv[i] \in Pending
      /\ "creating" \in Stages /\ "idle" \notin Stages
  BY Typed DEF Stages
<1>7. /\ \A r \in Pending : r.op \in 1..Cur /\ r.op \in doubt
      /\ \A r \in Pending : r.at = "selecting" => Sbo(target[r.op])
  <2>1. \A r \in Pending : r.op \in doubt \/ (Now(r) /\ loop.ans = "none")  BY DEF IInv, QueueInv
  <2>2. \A r \in Pending : ~Now(r)  BY <1>1, <1>6 DEF Now, Requests
  <2>3. /\ \A r \in Pending : r.op \in 1..Cur
        /\ \A r \in Pending : r.at = "selecting" => Sbo(target[r.op])
    BY DEF IInv, RangeInv
  <2> QED  BY <2>1, <2>2, <2>3
<1>8. \A m \in Sent : m.op \in 1..Cur  BY DEF IInv, RangeInv
<1>9. \A r \in Pending' : r.op \in 1..Cur' /\ (r \in Pending \/ r = q)
  BY <1>1, <1>2, <1>4, <1>5, <1>7
<1>10. RangeInv'
  <2>1. \A r \in Pending' : /\ r.op \in 1..Cur' /\ (r.op = Cur' => Passed(r.at, loop'.at))
                            /\ r.at = "selecting" => Sbo(target'[r.op])
    <3>1. \A r \in Pending : r.op \in 1..Cur' /\ r.op # Cur'  BY <1>1, <1>2, <1>7
    <3>2. \A r \in Pending : r.at = "selecting" => Sbo(target'[r.op])
      <4> SUFFICES ASSUME NEW r \in Pending, r.at = "selecting"
                   PROVE  Sbo(target'[r.op])
        OBVIOUS
      <4>1. target'[r.op] = target[r.op]  BY <1>2, <1>7
      <4> QED  BY <1>7, <4>1
    <3>3. Passed(q.at, loop'.at)  BY <1>4 DEF Passed
    <3> QED  BY <1>4, <1>9, <3>1, <3>2, <3>3
  <2>2. \A m \in Sent : m.op \in 1..Cur' /\ m.op # Cur'  BY <1>1, <1>2, <1>8
  <2>3. \A x \in Objects :
          /\ srv[x].op \in 0..Cur /\ srv[x].sel \in 0..Cur
          /\ srv[x].op # 0 => target[srv[x].op] = x
          /\ srv[x].sel # 0 => target[srv[x].sel] = x
          /\ srv[x].op # 0 <=> srv[x].state \in {"waiting", "executing"}
          /\ srv[x].state = "selected" => Sbo(x) /\ srv[x].sel # 0
    BY DEF IInv, RangeInv
  <2>4. \A x \in Objects :
          /\ srv[x].op \in 0..Cur' /\ srv[x].sel \in 0..Cur'
          /\ srv[x].op # Cur' /\ srv[x].sel # Cur'
          /\ srv[x].op # 0 => target'[srv[x].op] = x
          /\ srv[x].sel # 0 => target'[srv[x].sel] = x
    <3> SUFFICES ASSUME NEW x \in Objects
                 PROVE  /\ srv[x].op \in 0..Cur' /\ srv[x].sel \in 0..Cur'
                        /\ srv[x].op # Cur' /\ srv[x].sel # Cur'
                        /\ srv[x].op # 0 => target'[srv[x].op] = x
                        /\ srv[x].sel # 0 => target'[srv[x].sel] = x
      OBVIOUS
    <3> DEFINE a == srv[x].op
               b == srv[x].sel
    <3>1. /\ a \in 0..Cur /\ b \in 0..Cur
          /\ a # 0 => target[a] = x
          /\ b # 0 => target[b] = x
      BY <2>3
    <3> HIDE DEF a, b
    <3>2. /\ a \in 0..Cur' /\ a # Cur' /\ b \in 0..Cur' /\ b # Cur'  BY <1>1, <1>2, <3>1
    <3>3. a # 0 => a \in 1..Cur  BY <1>1, <3>1
    <3>4. b # 0 => b \in 1..Cur  BY <1>1, <3>1
    <3>5. (a # 0 => target'[a] = x) /\ (b # 0 => target'[b] = x)  BY <1>2, <3>1, <3>3, <3>4
    <3> QED  BY <3>2, <3>5 DEF a, b
  <2>5. /\ rx.op \in 0..Cur' /\ rx.at \in 0..Cur' /\ (rx.using => rx.at # 0)
        /\ rx.op = 0 => rx.parts = <<>> /\ rx.at = 0
    BY <1>1, <1>2 DEF IInv, RangeInv
  <2>6. Cur' # 0 /\ Answers \subseteq Sent  BY <1>1, <1>2 DEF Answers
  <2> QED  BY <1>1, <1>2, <1>3, <2>1, <2>2, <2>3, <2>4, <2>5, <2>6 DEF RangeInv
<1>11. QueueInv'
  <2>1. Len(toSrv) \in Nat /\ DOMAIN toSrv = 1..Len(toSrv)  BY DEF TypeOK
  <2>2. \A i \in DOMAIN toSrv' : (i \in DOMAIN toSrv /\ toSrv'[i] = toSrv[i])
                                 \/ (i = Len(toSrv') /\ toSrv'[i] = q)
    BY <1>3, <2>1 DEF Queued
  <2>3. \A i \in DOMAIN toSrv : toSrv[i].op # Cur' /\ (toSrv[i].at = "operating" => i = 1)
    BY <1>1, <1>2, <1>6, <1>7 DEF IInv, QueueInv
  <2>4. \A i \in DOMAIN toSrv' : /\ Now(toSrv[i])' => i = Len(toSrv')
                                 /\ toSrv'[i].at = "operating" => i = 1
    BY <1>4, <2>2, <2>3 DEF Now
  <2>5. \A r \in Pending' : r.op \in doubt' \/ (Now(r)' /\ loop'.ans = "none")
    BY <1>2, <1>3, <1>4, <1>5, <1>7 DEF Now
  <2>6. \A m \in Answers' : ~Now(m)'  BY <1>1, <1>2, <1>8 DEF Now, Answers
  <2> QED  BY <1>3, <1>6, <2>4, <2>5, <2>6 DEF QueueInv
<1>12. SelectInv'
  <2>1. \A x \in Objects : srv[x].op # 0 /\ Sbo(x) => srv[x].sel = srv[x].op  BY DEF IInv, SelectInv
  <2>2. \A r \in Pending : r.at = "operating" /\ Sbo(target[r.op]) => srv[target[r.op]].sel = r.op
    BY DEF IInv, SelectInv
  <2>3. \A r \in Pending' : r.at = "operating" /\ Sbo(target'[r.op]) => srv[target'[r.op]].sel = r.op
    BY <1>2, <1>4, <1>7, <1>9, <2>2
  <2>4. \A m \in Answers' : ~Now(m)'  BY <1>1, <1>2, <1>8 DEF Now, Answers
  <2>5. \A r \in Pending' : Now(r)' => r.at = "creating"  BY <1>3 DEF Now
  <2> QED  BY <1>1, <1>2, <1>3, <2>1, <2>3, <2>4, <2>5 DEF SelectInv
<1>13. LeftInv'
  <2>1. \A x \in once : srv[x].state = "selected" => srv[x].sel \in doubt
    BY <1>1 DEF IInv, LeftInv
  <2>2. \A m \in Answers' : ~Now(m)'  BY <1>1, <1>2, <1>8 DEF Now, Answers
  <2> QED  BY <1>1, <1>3, <2>1, <2>2 DEF LeftInv
<1>14. ControlInv'
  <2>1. live = {} /\ refs = {} /\ linked = {}  BY <1>1 DEF IInv, ControlInv, TypeOK
  <2> QED  BY <1>1, <1>3, <2>1 DEF ControlInv
<1>15. OutlivedInv' /\ FreedUntouched'
  <2>1. \A e \in 1..Cur : Concerns(e)' => Concerns(e)
    BY <1>1, <1>2, <1>4, <1>5 DEF Concerns
  <2>2. refs = {}  BY <1>1 DEF IInv, ControlInv, TypeOK
  <2>3. /\ outlived \subseteq 1..Cur
        /\ \A e \in 1..Cur : Concerns(e) => e \in outlived
        /\ rx.at # 0 => \E e \in outlived : e <= rx.at
    BY <1>1, <2>2 DEF IInv, OutlivedInv
  <2>4. \A e \in 1..Cur' : e \in 1..Cur \/ e = Cur'  BY <1>1, <1>2
  <2>5. outlived' \subseteq 1..Cur'  BY <1>1, <1>2, <2>3
  <2>6. loop'.at \notin {"unlinking", "freeing", "idle"}  BY <1>3
  <2>7. OutlivedInv'  BY <1>1, <2>1, <2>3, <2>4, <2>5, <2>6 DEF OutlivedInv
  <2>8. FreedUntouched'  BY <1>1 DEF IInv, FreedUntouched
  <2> QED  BY <2>7, <2>8
<1> QED  BY <1>10, <1>11, <1>12, <1>13, <1>14, <1>15 DEF IInv

(* Steps of the event loop that ask nothing. *)
LEMMA LoopSteps ==
  ASSUME TypeOK, IInv, CreateFailed \/ StatusRead \/ Unlink \/ Free \/ GiveUp
  PROVE  IInv'
<1>1. /\ UNCHANGED <<model, once, target, rx, toSrv, wire, srv, touched>>
      /\ doubt \subseteq doubt' /\ outlived \subseteq outlived'
  BY DEF CreateFailed, StatusRead, Unlink, Free, GiveUp, serverVars, linkVars, ghosts
<1>2. /\ Cur' = Cur /\ Object' = Object /\ Sent' = Sent /\ Answers' = Answers /\ Pending' = Pending
      /\ \A o : Sbo(o)' <=> Sbo(o)
      /\ \A e : Concerns(e)' <=> Concerns(e)
  <2>1. Cur' = Cur /\ Object' = Object /\ Sent' = Sent /\ Answers' = Answers /\ Pending' = Pending
    BY <1>1 DEF Cur, Object, Sent, Answers, Pending
  <2>2. \A o : Sbo(o)' <=> Sbo(o)  BY <1>1 DEF Sbo
  <2>3. \A e : Concerns(e)' <=> Concerns(e)  BY <1>1, <2>1 DEF Concerns
  <2> QED  BY <2>1, <2>2, <2>3
<1>3. /\ Pending \subseteq Requests /\ Sent \subseteq Messages /\ Cur \in Nat
      /\ Stages = {"creating", "selecting", "operating", "reading"}
  BY Typed DEF Stages
<1>4. /\ \A x \in Stages : Passed(x, loop.at) => Passed(x, loop'.at)
      /\ loop'.at # "idle" => Cur # 0
      /\ \/ loop'.at = loop.at
         \/ /\ loop.at \in {"reading", "unlinking", "freeing"}
            /\ loop'.at \in {"unlinking", "freeing", "idle"} /\ loop'.ans = "none"
  <2>1. loop.at # "idle" => Cur # 0  BY DEF IInv, RangeInv
  <2>2. CASE CreateFailed \/ GiveUp
    <3>1. loop'.at = loop.at  BY <2>2 DEF CreateFailed, GiveUp, TypeOK
    <3> QED  BY <2>1, <3>1
  <2>3. CASE StatusRead
    <3>1. loop.at = "reading" /\ loop'.at = "unlinking" /\ loop'.ans = "none"
      BY <2>3 DEF StatusRead, Answered, At
    <3> QED  BY <1>3, <2>1, <3>1 DEF Passed
  <2>4. CASE Unlink
    <3>1. loop.at = "unlinking" /\ loop'.at = "freeing" /\ loop'.ans = loop.ans
      BY <2>4 DEF Unlink, At, TypeOK
    <3>2. loop.ans = "none"  BY <1>3, <3>1 DEF IInv, QueueInv
    <3> QED  BY <1>3, <2>1, <3>1, <3>2 DEF Passed
  <2>5. CASE Free
    <3>1. loop.at = "freeing" /\ loop'.at = "idle" /\ loop'.ans = loop.ans
      BY <2>5 DEF Free, At, TypeOK
    <3>2. loop.ans = "none"  BY <1>3, <3>1 DEF IInv, QueueInv
    <3> QED  BY <1>3, <2>1, <3>1, <3>2 DEF Passed
  <2> QED  BY <2>2, <2>3, <2>4, <2>5
<1>5. RangeInv'
  <2>1. "selecting" \in Stages /\ "operating" \in Stages  BY <1>3
  <2>2. \A r \in Pending : /\ r.op \in 1..Cur /\ (r.op = Cur => Passed(r.at, loop'.at))
                           /\ r.at = "selecting" => Sbo(target[r.op])
    BY <1>3, <1>4 DEF IInv, RangeInv, Requests
  <2>3. \A m \in Answers : m.op = Cur => Passed(m.at, loop'.at)
    BY <1>3, <1>4 DEF IInv, RangeInv, Messages, Answers
  <2>4. loop'.at \in {"selecting", "operating"} => loop'.at = loop.at  BY <1>4
  <2> QED  BY <1>1, <1>2, <1>4, <2>1, <2>2, <2>3, <2>4 DEF IInv, RangeInv
<1>6. \A r \in Pending : r.op \in doubt' \/ (Now(r)' /\ loop'.ans = "none")
  <2>1. \A r \in Pending : r.op \in doubt \/ (Now(r) /\ loop.ans = "none")  BY DEF IInv, QueueInv
  <2>2. CASE CreateFailed
    <3>1. loop' = loop  BY <2>2 DEF CreateFailed
    <3> QED  BY <1>1, <1>2, <2>1, <3>1 DEF Now
  <2>3. CASE GiveUp
    <3>1. Cur \in doubt'  BY <2>3 DEF GiveUp
    <3> QED  BY <1>1, <2>1, <3>1 DEF Now
  <2>4. CASE StatusRead
    <3>1. loop.ans # "none"  BY <2>4 DEF StatusRead, Answered
    <3> QED  BY <1>1, <2>1, <3>1
  <2>5. CASE Unlink \/ Free
    <3>1. loop.at \in {"unlinking", "freeing"}  BY <2>5 DEF Unlink, Free, At
    <3>2. \A r \in Pending : ~Now(r)  BY <1>3, <3>1 DEF Now, Requests
    <3> QED  BY <1>1, <2>1, <3>2
  <2> QED  BY <2>2, <2>3, <2>4, <2>5
<1>7. /\ \A r \in Pending : r.at \in Stages
      /\ \A m \in Answers : m.at \in Stages
      /\ \A i \in DOMAIN toSrv : toSrv[i].at \in Stages
  BY <1>3, Typed DEF Requests, Messages, Answers
<1>8. ASSUME loop'.at # loop.at PROVE QueueInv' /\ SelectInv' /\ LeftInv'
  <2>1. /\ loop'.at \notin Stages /\ loop'.ans = "none"
        /\ ~(loop.at \in {"selecting", "operating"})
    BY <1>3, <1>4, <1>8
  <2>2. /\ \A r \in Pending : r.at # loop'.at
        /\ \A m \in Answers : m.at # loop'.at
        /\ \A i \in DOMAIN toSrv : toSrv[i].at # loop'.at
    BY <1>7, <2>1
  <2>3. \A i \in DOMAIN toSrv : toSrv[i].at = "operating" => i = 1  BY DEF IInv, QueueInv
  <2>4. QueueInv'
    BY <1>1, <1>2, <1>3, <1>6, <2>1, <2>2, <2>3 DEF QueueInv, Now
  <2>5. /\ \A o \in Objects : srv[o].op # 0 /\ Sbo(o) => srv[o].sel = srv[o].op
        /\ \A r \in Pending : r.at = "operating" /\ Sbo(target[r.op]) => srv[target[r.op]].sel = r.op
    BY DEF IInv, SelectInv
  <2>6. SelectInv'
    BY <1>1, <1>2, <1>3, <2>1, <2>2, <2>5 DEF SelectInv, Now
  <2>7. \A o \in once : srv[o].state = "selected" => srv[o].sel \in doubt
    BY <2>1 DEF IInv, LeftInv
  <2>8. LeftInv'
    BY <1>1, <1>2, <2>2, <2>7 DEF LeftInv, Now
  <2> QED  BY <2>4, <2>6, <2>8
<1>9. ASSUME loop'.at = loop.at PROVE QueueInv' /\ SelectInv' /\ LeftInv'
  <2>1. \A x : Now(x)' <=> Now(x)  BY <1>2, <1>9 DEF Now
  <2>2. CreateFailed \/ GiveUp
    <3>1. StatusRead => loop.at = "reading" /\ loop'.at = "unlinking"
      BY DEF StatusRead, Answered, At
    <3>2. Unlink => loop.at = "unlinking" /\ loop'.at = "freeing"  BY DEF Unlink, At, TypeOK
    <3>3. Free => loop.at = "freeing" /\ loop'.at = "idle"  BY DEF Free, At, TypeOK
    <3> QED  BY <1>9, <3>1, <3>2, <3>3
  <2>3. num' = num  BY <2>2 DEF CreateFailed, GiveUp, controlVars
  <2>4. \/ loop' = loop
        \/ loop.at \in Stages /\ loop'.ans = "no" /\ Cur \in doubt'
    BY <2>2 DEF CreateFailed, GiveUp, TypeOK
  <2>5. loop'.ans = "yes" => loop.ans = "yes"  BY <2>4
  <2>6. \A i \in DOMAIN toSrv : Now(toSrv[i])' <=> Now(toSrv[i])  BY <1>1, <1>2, <1>9 DEF Now
  <2>7. QueueInv'
    <3>1. /\ \A i \in DOMAIN toSrv : Now(toSrv[i]) => i = Len(toSrv)
          /\ \A i \in DOMAIN toSrv : toSrv[i].at = "operating" => i = 1
          /\ loop.at = "operating" => \A r \in Pending : Now(r)
          /\ loop.ans = "yes" => toSrv = <<>>
          /\ \A m \in Answers : Now(m) => toSrv = <<>>
          /\ \A o \in Objects : srv[o].op # 0 /\ srv[o].op = Cur /\ loop.at = "operating" => toSrv = <<>>
          /\ loop.at \notin Stages => loop.ans = "none"
      BY DEF IInv, QueueInv
    <3>2. loop'.at \notin Stages => loop'.ans = "none"  BY <1>9, <2>4, <3>1
    <3> QED  BY <1>1, <1>2, <1>6, <1>9, <2>1, <2>5, <2>6, <3>1, <3>2 DEF QueueInv
  <2>8. SelectInv'
    <3>1. \A r \in Pending :
            /\ r.at = "operating" /\ Sbo(target[r.op]) => srv[target[r.op]].sel = r.op
            /\ Now(r) /\ r.at = "selecting" => srv[Object].sel # Cur
            /\ Now(r) /\ r.at \in {"selecting", "operating"} => r.num = num
      BY DEF IInv, SelectInv
    <3>2. \A o \in Objects : srv[o].op # 0 /\ Sbo(o) => srv[o].sel = srv[o].op
      BY DEF IInv, SelectInv
    <3>3. /\ \A m \in Answers : Now(m) /\ m.at = "selecting" => (srv[Object].sel = Cur <=> ~m.bad)
          /\ loop.at = "selecting" /\ loop.ans = "yes" => srv[Object].sel = Cur
          /\ loop.at \in {"selecting", "operating"} /\ srv[Object].sel = Cur => srv[Object].num = num
      BY DEF IInv, SelectInv
    <3> QED  BY <1>1, <1>2, <1>9, <2>1, <2>3, <2>5, <3>1, <3>2, <3>3 DEF SelectInv
  <2>9. LeftInv'
    <3>1. /\ \A o \in once : srv[o].state = "selected" =>
               \/ srv[o].sel \in doubt
               \/ srv[o].sel = Cur /\ loop.at = "selecting" /\ loop.ans \in {"none", "yes"}
               \/ srv[o].sel = Cur /\ loop.at = "operating" /\ loop.ans = "none"
          /\ \A m \in Answers : Now(m) /\ m.at = "operating" =>
               \A o \in once : ~(srv[o].state = "selected" /\ srv[o].sel = Cur)
      BY DEF IInv, LeftInv
    <3> QED  BY <1>1, <1>2, <1>9, <2>1, <2>4, <3>1 DEF LeftInv
  <2> QED  BY <2>7, <2>8, <2>9
<1>10. ControlInv'
  <2>1. CASE CreateFailed \/ GiveUp
    <3>1. UNCHANGED <<refs, linked, live>> /\ loop'.at = loop.at
      BY <2>1 DEF CreateFailed, GiveUp, controlVars, TypeOK
    <3> QED  BY <1>2, <3>1 DEF IInv, ControlInv
  <2>2. CASE StatusRead
    <3>1. refs' = refs \ {Cur} /\ UNCHANGED <<linked, live>> /\ loop'.at = "unlinking"
      BY <2>2 DEF StatusRead
    <3> QED  BY <1>2, <3>1 DEF IInv, ControlInv
  <2>3. CASE Unlink
    <3>1. /\ linked' = linked \ {Cur} /\ UNCHANGED <<refs, live>>
          /\ loop.at = "unlinking" /\ loop'.at = "freeing"
      BY <2>3 DEF Unlink, At, TypeOK
    <3> QED  BY <1>2, <3>1 DEF IInv, ControlInv
  <2>4. CASE Free
    <3>1. /\ live' = live \ {Cur} /\ UNCHANGED <<refs, linked>>
          /\ loop.at = "freeing" /\ loop'.at = "idle"
      BY <2>4 DEF Free, At, TypeOK
    <3> QED  BY <1>2, <3>1 DEF IInv, ControlInv
  <2> QED  BY <2>1, <2>2, <2>3, <2>4
<1>11. OutlivedInv'
  <2>1. /\ outlived \subseteq 1..Cur
        /\ \A e \in 1..Cur : Concerns(e) =>
             e \in outlived \/ (e = Cur /\ loop.at \notin {"unlinking", "freeing", "idle"})
        /\ rx.at # 0 => rx.at \in linked \cap refs \/ \E e \in outlived : e <= rx.at
    BY DEF IInv, OutlivedInv
  <2>2. CASE StatusRead
    <3>1. outlived' = outlived \cup {e \in 1..Cur : Concerns(e)}  BY <2>2 DEF StatusRead
    <3>2. rx.at # 0 => rx.op \in 1..Cur /\ Concerns(rx.op)
      BY <1>3 DEF IInv, RangeInv, Concerns
    <3>3. rx.at # 0 /\ rx.at \in linked \cap refs => rx.op \in outlived' /\ rx.op <= rx.at
      <4>1. linked \subseteq {Cur}  BY DEF IInv, ControlInv
      <4>2. rx.at \in linked \cap refs => rx.at = Cur  BY <4>1
      <4>3. \A e \in 1..Cur : e <= Cur  BY <1>3
      <4>4. rx.at # 0 => rx.op \in outlived'  BY <3>1, <3>2
      <4> QED  BY <3>2, <4>2, <4>3, <4>4
    <3>4. outlived' \subseteq 1..Cur  BY <2>1, <3>1
    <3>5. rx.at # 0 => \E e \in outlived' : e <= rx.at  BY <1>1, <2>1, <3>3
    <3>6. \A e \in 1..Cur : Concerns(e) => e \in outlived'  BY <3>1
    <3> QED  BY <1>1, <1>2, <3>4, <3>5, <3>6 DEF OutlivedInv
  <2>3. CASE ~StatusRead
    <3>1. outlived' = outlived
      BY <2>3 DEF CreateFailed, Unlink, Free, GiveUp, ghosts
    <3>2. \/ UNCHANGED <<linked, refs>>
          \/ refs = {}
      <4>1. CASE CreateFailed \/ GiveUp
        BY <4>1 DEF CreateFailed, GiveUp, controlVars
      <4>2. CASE Unlink \/ Free
        BY <4>2 DEF Unlink, Free, At, IInv, ControlInv
      <4> QED  BY <2>3, <4>1, <4>2
    <3>3. rx.at # 0 => rx.at \in linked' \cap refs' \/ \E e \in outlived : e <= rx.at
      BY <2>1, <3>2
    <3>4. loop'.at \in {"unlinking", "freeing", "idle"}
          => loop.at \in {"unlinking", "freeing", "idle"}
      <4>1. CASE CreateFailed \/ GiveUp  BY <4>1 DEF CreateFailed, GiveUp, TypeOK
      <4>2. CASE Unlink \/ Free  BY <4>2 DEF Unlink, Free, At
      <4> QED  BY <2>3, <4>1, <4>2
    <3> QED  BY <1>1, <1>2, <2>1, <3>1, <3>3, <3>4 DEF OutlivedInv
  <2> QED  BY <2>2, <2>3
<1>12. FreedUntouched'  BY <1>1 DEF IInv, FreedUntouched
<1> QED  BY <1>5, <1>8, <1>9, <1>10, <1>11, <1>12 DEF IInv

-----------------------------------------------------------------------------
(* The server serves *)

LEMMA ServerFrame ==
  ASSUME TypeOK, Serves
  PROVE  /\ UNCHANGED <<model, once, target, loop, num, refs, linked, live, rx, doubt, outlived, touched>>
         /\ Cur' = Cur /\ Object' = Object /\ Cur \in Nat
         /\ \A o : Sbo(o)' <=> Sbo(o)
         /\ \A x : Now(x)' <=> Now(x)
         /\ ControlInv => ControlInv'
         /\ FreedUntouched => FreedUntouched'
<1>1. UNCHANGED <<model, once, target, loop, num, refs, linked, live, rx, doubt, outlived, touched>>
  BY DEF Serves, controlVars, ghosts
<1>2. Cur' = Cur /\ Object' = Object /\ Cur \in Nat /\ (\A o : Sbo(o)' <=> Sbo(o))
  BY <1>1, Typed DEF Cur, Object, Sbo
<1>3. \A x : Now(x)' <=> Now(x)  BY <1>1, <1>2 DEF Now
<1>4. ControlInv => ControlInv'  BY <1>1, <1>2 DEF ControlInv
<1>5. FreedUntouched => FreedUntouched'  BY <1>1 DEF FreedUntouched
<1> QED  BY <1>1, <1>2, <1>3, <1>4, <1>5

(* The request that was waited for was the last, and an operate the first. *)
LEMMA QueueTaken ==
  ASSUME TypeOK, QueueInv, Serves, NEW r, Taken(r)
  PROVE  /\ Now(r) => toSrv' = <<>> /\ Pending' = {}
         /\ \A x \in Pending' : x.at # "operating" /\ x \in Pending
         /\ \A m \in Answers : ~Now(m)
         /\ loop.ans # "yes"
         /\ loop.at = "operating" => r.op = Cur /\ r.at = "operating"
         /\ r.op \in doubt \/ (Now(r) /\ loop.ans = "none")
         /\ \A o \in Objects : ~(srv[o].op # 0 /\ srv[o].op = Cur /\ loop.at = "operating")
         /\ \A i \in DOMAIN toSrv' : /\ Now(toSrv[i])' => i = Len(toSrv')
                                     /\ toSrv'[i].at # "operating"
<1>1. toSrv \in Seq(Requests) /\ toSrv # <<>> /\ r = Head(toSrv) /\ toSrv' = Tail(toSrv)
      /\ r \in Pending /\ Pending' \subseteq Pending
  BY DEF TypeOK, Taken
<1>2. /\ Head(toSrv) = toSrv[1] /\ Len(Tail(toSrv)) = Len(toSrv) - 1 /\ Len(toSrv) \in Nat \ {0}
      /\ DOMAIN toSrv = 1..Len(toSrv) /\ DOMAIN Tail(toSrv) = 1..(Len(toSrv) - 1)
      /\ \A i \in DOMAIN Tail(toSrv) : i + 1 \in DOMAIN toSrv /\ Tail(toSrv)[i] = toSrv[i + 1]
      /\ Tail(toSrv) \in Seq(Requests)
  BY <1>1, HeadTail
<1>3. /\ \A i \in DOMAIN toSrv : Now(toSrv[i]) => i = Len(toSrv)
      /\ \A i \in DOMAIN toSrv : toSrv[i].at = "operating" => i = 1
      /\ loop.at = "operating" => \A x \in Pending : Now(x)
      /\ loop.ans = "yes" => toSrv = <<>>
      /\ \A m \in Answers : Now(m) => toSrv = <<>>
      /\ \A o \in Objects : srv[o].op # 0 /\ srv[o].op = Cur /\ loop.at = "operating" => toSrv = <<>>
      /\ \A x \in Pending : x.op \in doubt \/ (Now(x) /\ loop.ans = "none")
  BY DEF QueueInv
<1>4. Now(r) => toSrv' = <<>> /\ Pending' = {}
  <2>1. ASSUME Now(r) PROVE Len(toSrv) = 1
    <3>1. 1 \in DOMAIN toSrv /\ Now(toSrv[1])  BY <1>1, <1>2, <2>1
    <3> QED  BY <1>3, <3>1
  <2>2. Len(toSrv) = 1 => Tail(toSrv) = <<>>  BY <1>2
  <2>3. toSrv' = <<>> => Pending' = {}  BY Nothing DEF Pending
  <2> QED  BY <1>1, <2>1, <2>2, <2>3
<1>5. \A i \in DOMAIN toSrv' : toSrv'[i].at # "operating"
  <2> SUFFICES ASSUME NEW i \in DOMAIN toSrv', toSrv'[i].at = "operating" PROVE FALSE
    OBVIOUS
  <2>1. i \in 1..(Len(toSrv) - 1) /\ i + 1 \in DOMAIN toSrv /\ toSrv'[i] = toSrv[i + 1]
    BY <1>1, <1>2
  <2>2. i + 1 = 1  BY <1>3, <2>1
  <2> QED  BY <1>2, <2>1, <2>2
<1>6. \A x \in Pending' : x.at # "operating" /\ x \in Pending
  <2>1. \A x \in Pending' : \E i \in DOMAIN toSrv' : toSrv'[i] = x
    BY <1>1, <1>2, Elements DEF Pending
  <2> QED  BY <1>1, <1>5, <2>1
<1>7. \A i \in DOMAIN toSrv' : Now(toSrv[i])' => i = Len(toSrv')
  <2> SUFFICES ASSUME NEW i \in DOMAIN toSrv', Now(toSrv[i])' PROVE i = Len(toSrv')
    OBVIOUS
  <2>1. i \in 1..(Len(toSrv) - 1) /\ i + 1 \in DOMAIN toSrv /\ toSrv'[i] = toSrv[i + 1]
    BY <1>1, <1>2
  <2>2. loop' = loop /\ Cur' = Cur  BY ServerFrame
  <2>3. Now(toSrv[i + 1])  BY <2>1, <2>2 DEF Now
  <2>4. i + 1 = Len(toSrv)  BY <1>3, <2>1, <2>3
  <2> QED  BY <1>1, <1>2, <2>1, <2>4
<1>8. loop.at = "operating" => r.op = Cur /\ r.at = "operating"  BY <1>1, <1>3 DEF Now
<1> QED  BY <1>1, <1>3, <1>4, <1>5, <1>6, <1>7, <1>8

(* The control object is left alone, or what is new there is a selection,  *)
(* an operation of the request or the end of one.                          *)
LEMMA ServedQueue ==
  ASSUME TypeOK, IInv, Serves, NEW r, Taken(r), NEW ok,
         \A m \in Answers' : m \in Answers \/ m = Answer(r, ok),
         \A o \in Objects : srv'[o].op \in {0, srv[o].op, r.op}
  PROVE  QueueInv'
<1>1. /\ Now(r) => toSrv' = <<>>
      /\ \A x \in Pending' : x \in Pending
      /\ \A m \in Answers : ~Now(m)
      /\ loop.ans # "yes"
      /\ loop.at = "operating" => Now(r)
      /\ \A i \in DOMAIN toSrv' : /\ Now(toSrv[i])' => i = Len(toSrv')
                                  /\ toSrv'[i].at # "operating"
  BY QueueTaken DEF IInv, Now
<1>2. loop' = loop /\ Cur' = Cur /\ doubt' = doubt /\ (\A x : Now(x)' <=> Now(x))  BY ServerFrame
<1>3. Now(Answer(r, ok)) => Now(r)  BY DEF Answer, Now
<1>4. \A m \in Answers' : Now(m) => toSrv' = <<>>  BY <1>1, <1>3
<1>5. /\ loop.at \notin Stages => loop.ans = "none"
      /\ \A x \in Pending : x.op \in doubt \/ (Now(x) /\ loop.ans = "none")
      /\ loop.at = "operating" => \A x \in Pending : Now(x)
  BY DEF IInv, QueueInv
<1> QED  BY <1>1, <1>2, <1>4, <1>5 DEF QueueInv

(* What RangeInv says of a control object of the server. *)
EntryRange(v, o) ==
  /\ v.op \in 0..Cur /\ v.sel \in 0..Cur
  /\ v.op # 0 => target[v.op] = o
  /\ v.op # 0 /\ v.op = Cur => Passed("operating", loop.at)
  /\ v.sel # 0 => target[v.sel] = o
  /\ v.sel # 0 /\ v.sel = Cur => Passed("selecting", loop.at)
  /\ v.op # 0 <=> v.state \in {"waiting", "executing"}
  /\ v.state = "selected" => Sbo(o) /\ v.sel # 0

LEMMA EntryInRange ==
  ASSUME TypeOK, IInv, NEW o \in Objects
  PROVE  /\ EntryRange(srv[o], o)
         /\ (Sbo(o) => srv[o].sel # 0) => EntryRange(Over(o), o)
         /\ srv[o].op # 0 => srv[o].op \in 1..Cur
<1>1. /\ srv[o].op \in 0..Cur /\ srv[o].sel \in 0..Cur
      /\ srv[o].op # 0 => target[srv[o].op] = o
      /\ srv[o].op # 0 /\ srv[o].op = Cur => Passed("operating", loop.at)
      /\ srv[o].sel # 0 => target[srv[o].sel] = o
      /\ srv[o].sel # 0 /\ srv[o].sel = Cur => Passed("selecting", loop.at)
      /\ srv[o].op # 0 <=> srv[o].state \in {"waiting", "executing"}
      /\ srv[o].state = "selected" => Sbo(o) /\ srv[o].sel # 0
  BY DEF IInv, RangeInv
<1>2. EntryRange(srv[o], o)  BY <1>1 DEF EntryRange
<1>3. Cur \in Nat  BY Typed
<1>4. srv[o].op # 0 => srv[o].op \in 1..Cur  BY <1>1, <1>3
<1>5. (Sbo(o) => srv[o].sel # 0) => EntryRange(Over(o), o)
  <2>1. Over(o).op = 0 /\ Over(o).sel = srv[o].sel
        /\ Over(o).state = IF Sbo(o) /\ o \notin once THEN "selected" ELSE "ready"
    BY OverTyped
  <2> QED  BY <1>1, <1>3, <2>1 DEF EntryRange
<1> QED  BY <1>2, <1>4, <1>5

LEMMA ServedRange ==
  ASSUME TypeOK, IInv, Serves, Pending' \subseteq Pending, NEW e \in 1..Cur,
         \A m \in Sent' : m \in Sent \/ m.op = e,
         \A m \in Answers' : m \in Answers \/ (m.op = Cur => Passed(m.at, loop.at)),
         \A o \in Objects : EntryRange(srv'[o], o)
  PROVE  RangeInv'
<1>1. /\ UNCHANGED <<model, target, loop, rx>> /\ Cur' = Cur /\ Object' = Object
      /\ \A o : Sbo(o)' <=> Sbo(o)
  BY ServerFrame
<1>2. /\ \A r \in Pending : /\ r.op \in 1..Cur /\ (r.op = Cur => Passed(r.at, loop.at))
                            /\ r.at = "selecting" => Sbo(target[r.op])
      /\ \A m \in Sent : m.op \in 1..Cur
      /\ \A m \in Answers : m.op = Cur => Passed(m.at, loop.at)
      /\ rx.op \in 0..Cur
      /\ rx.op = 0 => rx.parts = <<>> /\ rx.at = 0
      /\ rx.at \in 0..Cur
      /\ rx.using => rx.at # 0
      /\ loop.at # "idle" => Cur # 0
      /\ loop.at = "selecting" => Sbo(Object)
      /\ loop.at = "operating" => model[Object] # "status"
  BY DEF IInv, RangeInv
<1>3. /\ \A m \in Sent' : m.op \in 1..Cur
      /\ \A m \in Answers' : m.op = Cur => Passed(m.at, loop.at)
  BY <1>2
<1>4. \A o \in Objects :
        /\ srv'[o].op \in 0..Cur /\ srv'[o].sel \in 0..Cur
        /\ srv'[o].op # 0 => target[srv'[o].op] = o
        /\ srv'[o].op # 0 /\ srv'[o].op = Cur => Passed("operating", loop.at)
        /\ srv'[o].sel # 0 => target[srv'[o].sel] = o
        /\ srv'[o].sel # 0 /\ srv'[o].sel = Cur => Passed("selecting", loop.at)
        /\ srv'[o].op # 0 <=> srv'[o].state \in {"waiting", "executing"}
        /\ srv'[o].state = "selected" => Sbo(o) /\ srv'[o].sel # 0
  BY DEF EntryRange
<1>5. \A r \in Pending' : /\ r.op \in 1..Cur /\ (r.op = Cur => Passed(r.at, loop.at))
                          /\ r.at = "selecting" => Sbo(target[r.op])
  BY <1>2
<1> QED  BY <1>1, <1>2, <1>3, <1>4, <1>5 DEF RangeInv

(* Nothing that is new on the way or at the server was not on its way or   *)
(* at the server before.                                                   *)
LEMMA ServedOutlived ==
  ASSUME TypeOK, IInv, Serves, Pending' \subseteq Pending, NEW e,
         \A m \in Sent' : m \in Sent \/ m.kind = "answer" \/ (m.op = e /\ Concerns(e)),
         \A o \in Objects : srv'[o].op \in {0, srv[o].op} \/ (srv'[o].op = e /\ Concerns(e))
  PROVE  OutlivedInv'
<1>1. /\ UNCHANGED <<loop, rx, linked, refs, outlived>> /\ Cur' = Cur /\ Cur \in Nat
  BY ServerFrame
<1>2. \A x \in 1..Cur : Concerns(x)' => Concerns(x)
  <2> SUFFICES ASSUME NEW x \in 1..Cur, Concerns(x)' PROVE Concerns(x)
    OBVIOUS
  <2>1. x # 0  BY <1>1
  <2>2. \/ \E r \in Pending' : r.op = x /\ r.at \in {"selecting", "operating"}
        \/ \E o \in Objects : srv'[o].op = x
        \/ \E m \in Sent' : m.op = x /\ m.kind = "report"
        \/ rx.op = x
    BY <1>1 DEF Concerns
  <2> QED  BY <2>1, <2>2 DEF Concerns
<1> QED  BY <1>1, <1>2 DEF IInv, OutlivedInv

LEMMA HeardSplit ==
  ASSUME TypeOK, NEW r, NEW ok, Heard(r, ok)
  PROVE  /\ \A m \in Sent' : m \in Sent \/ m.op = r.op
         /\ \A m \in Answers' : m \in Answers \/ m = Answer(r, ok)
         /\ Answer(r, ok).at = r.at /\ Answer(r, ok).op = r.op /\ Answer(r, ok).kind = "answer"
         /\ Answer(r, ok).bad = ~ok
<1>1. Answer(r, ok).at = r.at /\ Answer(r, ok).op = r.op /\ Answer(r, ok).kind = "answer"
      /\ Answer(r, ok).bad = ~ok
  BY DEF Answer
<1>2. \A m \in Sent' : m \in Sent \/ m = Answer(r, ok) \/ (m.kind = "report" /\ m.op = r.op)
  BY DEF Heard
<1>3. \A m \in Answers' : m \in Sent' /\ m.kind = "answer"  BY DEF Answers
<1>4. \A m \in Answers' : m \in Answers \/ m = Answer(r, ok)  BY <1>2, <1>3 DEF Answers
<1> QED  BY <1>1, <1>2, <1>4

LEMMA ReadStep ==
  ASSUME TypeOK, IInv, ServeRead
  PROVE  IInv'
<1>1. PICK r \in Pending, ok \in BOOLEAN :
           /\ Taken(r) /\ r.at \in {"creating", "reading"} /\ Tells({Answer(r, ok)})
           /\ UNCHANGED srv /\ Serves
  BY ReadServed DEF IInv
<1>2. Heard(r, ok)  BY <1>1 DEF Tells, Heard
<1>3. /\ \A m \in Answers' : m \in Answers \/ m = Answer(r, ok)
      /\ \A m \in Sent' : m \in Sent \/ m.op = r.op
      /\ Answer(r, ok).at = r.at /\ Answer(r, ok).op = r.op /\ Answer(r, ok).kind = "answer"
  BY <1>2, HeardSplit
<1>4. \A m \in Sent' : m \in Sent \/ m.kind = "answer"  BY <1>1, <1>3 DEF Tells
<1>5. /\ Pending' \subseteq Pending /\ r.op \in 1..Cur
      /\ r.op = Cur => Passed(r.at, loop.at)
  BY <1>1 DEF Taken, IInv, RangeInv
<1>6. /\ UNCHANGED <<model, once, target, loop, num, doubt, srv>>
      /\ Cur' = Cur /\ Object' = Object /\ Cur \in Nat
      /\ \A o : Sbo(o)' <=> Sbo(o)
      /\ \A x : Now(x)' <=> Now(x)
  BY <1>1, ServerFrame
<1>7. RangeInv'
  <2>1. \A m \in Answers' : m \in Answers \/ (m.op = Cur => Passed(m.at, loop.at))  BY <1>3, <1>5
  <2>2. \A o \in Objects : EntryRange(srv'[o], o)  BY <1>6, EntryInRange
  <2> QED  BY <1>1, <1>3, <1>5, <2>1, <2>2, ServedRange
<1>8. QueueInv'
  <2>1. \A o \in Objects : srv'[o].op \in {0, srv[o].op, r.op}  BY <1>6
  <2> QED  BY <1>1, <1>3, <2>1, ServedQueue
<1>9. \A m \in Answers' : Now(m) => m.at \in {"creating", "reading"}
  BY <1>1, <1>3, QueueTaken DEF IInv
<1>10. SelectInv'
  BY <1>5, <1>6, <1>9 DEF IInv, SelectInv
<1>11. LeftInv'
  BY <1>6, <1>9 DEF IInv, LeftInv
<1>12. OutlivedInv'
  <2>1. \A o \in Objects : srv'[o].op \in {0, srv[o].op}  BY <1>6
  <2> QED  BY <1>1, <1>4, <1>5, <2>1, ServedOutlived
<1>13. ControlInv' /\ FreedUntouched'  BY <1>1, ServerFrame DEF IInv
<1> QED  BY <1>7, <1>8, <1>10, <1>11, <1>12, <1>13 DEF IInv

LEMMA SelectStep ==
  ASSUME TypeOK, IInv, ServeSelect
  PROVE  IInv'
<1>1. PICK r \in Pending :
           /\ Taken(r) /\ r.at = "selecting" /\ Serves
           /\ \/ /\ srv[target[r.op]].state = "ready" /\ Heard(r, TRUE)
                 /\ srv' = [srv EXCEPT ![target[r.op]] =
                              [state |-> "selected", op |-> 0, sel |-> r.op, num |-> r.num]]
              \/ Heard(r, FALSE) /\ UNCHANGED srv
  BY SelectServed DEF IInv
<1> DEFINE o == target[r.op]
           new == [state |-> "selected", op |-> 0, sel |-> r.op, num |-> r.num]
<1>2. PICK ok \in BOOLEAN :
        /\ Heard(r, ok)
        /\ ok => srv[o].state = "ready" /\ srv' = [srv EXCEPT ![o] = new]
        /\ ~ok => UNCHANGED srv
  BY <1>1
<1>3. /\ \A m \in Sent' : m \in Sent \/ m.op = r.op
      /\ \A m \in Answers' : m \in Answers \/ m = Answer(r, ok)
      /\ Answer(r, ok).at = "selecting" /\ Answer(r, ok).op = r.op /\ Answer(r, ok).bad = ~ok
  BY <1>1, <1>2, HeardSplit
<1>4. /\ Pending' \subseteq Pending /\ r.op \in 1..Cur /\ o \in Objects
      /\ r.op = Cur => Passed(r.at, loop.at)
      /\ Sbo(o)
  BY <1>1 DEF Taken, IInv, RangeInv
<1>5. /\ UNCHANGED <<model, once, target, loop, num, doubt>>
      /\ Cur' = Cur /\ Object' = Object /\ Cur \in Nat
      /\ \A x : Sbo(x)' <=> Sbo(x)
      /\ \A x : Now(x)' <=> Now(x)
      /\ ControlInv' /\ FreedUntouched'
  BY <1>1, ServerFrame DEF IInv
<1>6. /\ Now(r) => Pending' = {}
      /\ \A x \in Pending' : x.at # "operating" /\ x \in Pending
      /\ \A m \in Answers : ~Now(m)
      /\ loop.ans # "yes" /\ loop.at # "operating"
      /\ r.op \in doubt \/ (Now(r) /\ loop.ans = "none")
  BY <1>1, QueueTaken DEF IInv
<1>7. /\ new.op = 0 /\ new.sel = r.op /\ new.state = "selected" /\ new.num = r.num
      /\ EntryRange(new, o)
  <2>1. new.op = 0 /\ new.sel = r.op /\ new.state = "selected" /\ new.num = r.num  OBVIOUS
  <2> HIDE DEF new
  <2>2. r.op # 0 /\ r.op \in 0..Cur  BY <1>4, <1>5
  <2> QED  BY <1>1, <1>4, <1>5, <2>1, <2>2 DEF EntryRange
<1> HIDE DEF new
<1>8. \A x \in Objects : srv'[x] = IF ok /\ x = o THEN new ELSE srv[x]
  BY <1>2, <1>4 DEF TypeOK
<1>9. RangeInv'
  <2>1. \A m \in Answers' : m \in Answers \/ (m.op = Cur => Passed(m.at, loop.at))
    BY <1>1, <1>3, <1>4
  <2>2. \A x \in Objects : EntryRange(srv'[x], x)  BY <1>7, <1>8, EntryInRange
  <2> QED  BY <1>1, <1>3, <1>4, <2>1, <2>2, ServedRange
<1>10. QueueInv'
  <2>1. \A x \in Objects : srv'[x].op \in {0, srv[x].op, r.op}  BY <1>7, <1>8
  <2> QED  BY <1>1, <1>3, <2>1, ServedQueue
<1>11. Object \in Objects  BY <1>4, <1>5, Targets
<1>12. Now(r) => r.op = Cur /\ o = Object /\ r.num = num /\ loop.at = "selecting"
                 /\ srv[Object].sel # Cur
  BY <1>1 DEF Now, Object, IInv, SelectInv
<1>13. SelectInv'
  <2>1. \A x \in Objects : srv'[x].op # 0 /\ Sbo(x) => srv'[x].sel = srv'[x].op
    BY <1>7, <1>8 DEF IInv, SelectInv
  <2>2. \A x \in Pending' : Now(x) /\ x.at = "selecting" => srv'[Object].sel # Cur
    <3> SUFFICES ASSUME NEW x \in Pending', Now(x), x.at = "selecting", srv'[Object].sel = Cur
                 PROVE  FALSE
      OBVIOUS
    <3>1. srv[Object].sel # Cur  BY <1>6 DEF IInv, SelectInv
    <3>2. r.op = Cur  BY <1>7, <1>8, <1>11, <3>1
    <3>3. Now(r)  BY <1>1, <3>2 DEF Now
    <3> QED  BY <1>6, <3>3
  <2>3. \A x \in Pending' : Now(x) /\ x.at \in {"selecting", "operating"} => x.num = num
    BY <1>6 DEF IInv, SelectInv
  <2>4. \A m \in Answers' : Now(m) => (srv'[Object].sel = Cur <=> ~m.bad)
    <3> SUFFICES ASSUME NEW m \in Answers', Now(m) PROVE srv'[Object].sel = Cur <=> ~m.bad
      OBVIOUS
    <3>1. m = Answer(r, ok)  BY <1>3, <1>6
    <3>2. Now(r)  BY <1>1, <1>3, <3>1 DEF Now
    <3>3. m.bad = ~ok  BY <1>3, <3>1
    <3> QED  BY <1>7, <1>8, <1>11, <1>12, <3>2, <3>3
  <2>5. loop.at \in {"selecting", "operating"} /\ srv'[Object].sel = Cur => srv'[Object].num = num
    <3> SUFFICES ASSUME loop.at \in {"selecting", "operating"}, srv'[Object].sel = Cur
                 PROVE  srv'[Object].num = num
      OBVIOUS
    <3>1. CASE srv'[Object] = srv[Object]  BY <3>1 DEF IInv, SelectInv
    <3>2. CASE srv'[Object] = new
      <4>1. r.op = Cur /\ loop.at = "selecting"  BY <1>6, <1>7, <3>2
      <4>2. Now(r)  BY <1>1, <4>1 DEF Now
      <4> QED  BY <1>7, <1>12, <3>2, <4>2
    <3> QED  BY <1>8, <1>11, <3>1, <3>2
  <2> QED  BY <1>5, <1>6, <2>1, <2>2, <2>3, <2>4, <2>5 DEF SelectInv
<1>14. LeftInv'
  <2>1. \A x \in once : srv'[x].state = "selected" =>
          \/ srv'[x].sel \in doubt
          \/ srv'[x].sel = Cur /\ loop.at = "selecting" /\ loop.ans \in {"none", "yes"}
    <3> SUFFICES ASSUME NEW x \in once, srv'[x].state = "selected"
                 PROVE  \/ srv'[x].sel \in doubt
                        \/ srv'[x].sel = Cur /\ loop.at = "selecting" /\ loop.ans \in {"none", "yes"}
      OBVIOUS
    <3>0. x \in Objects  BY DEF TypeOK
    <3>1. CASE srv'[x] = srv[x]  BY <1>6, <3>1 DEF IInv, LeftInv
    <3>2. CASE srv'[x] = new  BY <1>6, <1>7, <1>12, <3>2
    <3> QED  BY <1>8, <3>0, <3>1, <3>2
  <2>2. \A m \in Answers' : ~(Now(m) /\ m.at = "operating")  BY <1>6 DEF Now
  <2> QED  BY <1>5, <2>1, <2>2 DEF LeftInv
<1>15. OutlivedInv'
  <2>1. \A x \in Objects : srv'[x].op \in {0, srv[x].op}  BY <1>7, <1>8
  <2>2. Concerns(r.op)  BY <1>1 DEF Concerns
  <2> QED  BY <1>1, <1>3, <1>4, <2>1, <2>2, ServedOutlived
<1> QED  BY <1>5, <1>9, <1>10, <1>13, <1>14, <1>15 DEF IInv

LEMMA OperateStep ==
  ASSUME TypeOK, IInv, ServeOperate
  PROVE  IInv'
<1>1. PICK r \in Pending :
           LET o == target[r.op] IN
           /\ Taken(r) /\ r.at = "operating" /\ Serves
           /\ \/ /\ Operable(o, r) /\ Reported(r.op) /\ Sent' \subseteq Sent
                 /\ srv' = [srv EXCEPT ![o].state = "waiting", ![o].op = r.op]
              \/ Operable(o, r) /\ Heard(r, FALSE) /\ srv' = [srv EXCEPT ![o] = Over(o)]
              \/ ~Operable(o, r) /\ Heard(r, FALSE) /\ UNCHANGED srv
  BY OperateServed DEF IInv
<1> DEFINE o == target[r.op]
<1>2. /\ Pending' \subseteq Pending /\ r.op \in 1..Cur /\ o \in Objects
      /\ r.op = Cur => Passed(r.at, loop.at)
      /\ Sbo(o) => srv[o].sel = r.op
  BY <1>1 DEF Taken, IInv, RangeInv, SelectInv
<1>3. /\ UNCHANGED <<model, once, target, loop, num, doubt>>
      /\ Cur' = Cur /\ Object' = Object /\ Cur \in Nat
      /\ \A x : Sbo(x)' <=> Sbo(x)
      /\ \A x : Now(x)' <=> Now(x)
      /\ ControlInv' /\ FreedUntouched'
  BY <1>1, ServerFrame DEF IInv
<1>4. /\ \A x \in Pending' : x.at # "operating" /\ x \in Pending
      /\ \A m \in Answers : ~Now(m)
      /\ loop.ans # "yes"
      /\ \A x \in Objects : ~(srv[x].op # 0 /\ srv[x].op = Cur /\ loop.at = "operating")
  BY <1>1, QueueTaken DEF IInv
<1>5. /\ \A m \in Sent' : m \in Sent \/ m.op = r.op
      /\ \A m \in Answers' : m \in Answers \/ m = Answer(r, FALSE)
      /\ Answer(r, FALSE).at = r.at /\ Answer(r, FALSE).op = r.op
  <2>1. CASE Heard(r, FALSE)  BY <2>1, HeardSplit
  <2>2. CASE Sent' \subseteq Sent  BY <2>2 DEF Answers, Answer
  <2> QED  BY <1>1, <2>1, <2>2
<1>6. srv[o] \in Entries /\ srv \in [Objects -> Entries] /\ Over(o) \in Entries
  BY <1>2, OverTyped DEF TypeOK, Entries
<1>7. PICK v \in Entries :
        /\ v.sel = srv[o].sel /\ v.num = srv[o].num /\ v.op \in {0, srv[o].op, r.op}
        /\ \A x \in Objects : srv'[x] = IF x = o THEN v ELSE srv[x]
        /\ EntryRange(v, o)
        /\ v.state = "selected" /\ o \in once => v = srv[o] /\ ~Operable(o, r)
        /\ v.op # 0 => v.op = srv[o].op \/ (v.op = r.op)
  <2>0. EntryRange(srv[o], o)  BY <1>2, EntryInRange
  <2>1. CASE Operable(o, r) /\ srv' = [srv EXCEPT ![o].state = "waiting", ![o].op = r.op]
    <3> DEFINE v == srv'[o]
    <3>0. r.op \in Nat  BY <1>2, <1>3
    <3>1. /\ v.sel = srv[o].sel /\ v.num = srv[o].num /\ v.op = r.op /\ v.state = "waiting"
          /\ v \in Entries
          /\ \A x \in Objects : x # o => srv'[x] = srv[x]
      <4>1. srv' \in [Objects -> Entries]  BY <1>2, <1>6, <2>1, <3>0, EntryTyped
      <4>2. v = [srv[o] EXCEPT !.state = "waiting", !.op = r.op]  BY <1>2, <1>6, <2>1
      <4>3. srv[o] \in [state : {"ready", "selected", "waiting", "executing"},
                        op : Nat, sel : Nat, num : Nat]
        BY <1>6 DEF Entries
      <4>4. v.sel = srv[o].sel /\ v.num = srv[o].num /\ v.op = r.op /\ v.state = "waiting"
        BY <4>2, <4>3
      <4>5. \A x \in Objects : x # o => srv'[x] = srv[x]  BY <1>2, <1>6, <2>1
      <4> QED  BY <1>2, <4>1, <4>4, <4>5
    <3>2. \A x \in Objects : srv'[x] = IF x = o THEN v ELSE srv[x]  BY <3>1
    <3> HIDE DEF v
    <3>3. EntryRange(v, o)
      <4>1. r.op \in 0..Cur /\ r.op # 0  BY <1>2, <1>3
      <4> QED  BY <1>1, <1>2, <2>0, <3>1, <4>1 DEF EntryRange
    <3> QED  BY <3>1, <3>2, <3>3
  <2>2. CASE Operable(o, r) /\ srv' = [srv EXCEPT ![o] = Over(o)]
    <3>1. /\ Over(o).op = 0 /\ Over(o).sel = srv[o].sel /\ Over(o).num = srv[o].num
          /\ Over(o).state = IF Sbo(o) /\ o \notin once THEN "selected" ELSE "ready"
      BY <1>2, OverTyped
    <3>2. Sbo(o) => srv[o].sel # 0  BY <1>2, <1>3
    <3>3. EntryRange(Over(o), o)  BY <1>2, <3>2, EntryInRange
    <3>4. \A x \in Objects : srv'[x] = IF x = o THEN Over(o) ELSE srv[x]  BY <1>2, <1>6, <2>2
    <3> QED  BY <1>6, <2>2, <3>1, <3>3, <3>4
  <2>3. CASE ~Operable(o, r) /\ UNCHANGED srv
    <3>1. \A x \in Objects : srv'[x] = IF x = o THEN srv[o] ELSE srv[x]  BY <2>3
    <3> QED  BY <1>6, <2>0, <2>3, <3>1
  <2> QED  BY <1>1, <2>1, <2>2, <2>3
<1>8. \A x \in Objects : srv'[x] = IF x = o THEN v ELSE srv[x]  BY <1>7
<1>9. RangeInv'
  <2>1. \A m \in Answers' : m \in Answers \/ (m.op = Cur => Passed(m.at, loop.at))
    BY <1>2, <1>5
  <2>2. \A x \in Objects : EntryRange(srv'[x], x)  BY <1>7, <1>8, EntryInRange
  <2> QED  BY <1>1, <1>2, <1>5, <2>1, <2>2, ServedRange
<1>10. QueueInv'
  <2>1. \A x \in Objects : srv'[x].op \in {0, srv[x].op, r.op}  BY <1>7, <1>8
  <2> QED  BY <1>1, <1>5, <2>1, ServedQueue
<1>11. Object \in Objects  BY <1>2, <1>3, Targets
<1>12. \A x \in Objects : srv'[x].sel = srv[x].sel /\ srv'[x].num = srv[x].num  BY <1>7, <1>8
<1>13. \A m \in Answers' : Now(m) => m.at = "operating" /\ Now(r)
  BY <1>1, <1>4, <1>5 DEF Now
<1>14. SelectInv'
  <2>1. \A x \in Objects : srv'[x].op # 0 /\ Sbo(x) => srv'[x].sel = srv'[x].op
    <3>1. \A x \in Objects : srv[x].op # 0 /\ Sbo(x) => srv[x].sel = srv[x].op
      BY DEF IInv, SelectInv
    <3> QED  BY <1>2, <1>7, <1>8, <3>1
  <2>2. \A x \in Pending' : Now(x) /\ x.at = "selecting" => srv'[Object].sel # Cur
    BY <1>4, <1>11, <1>12 DEF IInv, SelectInv
  <2>3. \A x \in Pending' : Now(x) /\ x.at \in {"selecting", "operating"} => x.num = num
    BY <1>4 DEF IInv, SelectInv
  <2>4. loop.at \in {"selecting", "operating"} /\ srv'[Object].sel = Cur => srv'[Object].num = num
    BY <1>11, <1>12 DEF IInv, SelectInv
  <2> QED  BY <1>3, <1>4, <1>13, <2>1, <2>2, <2>3, <2>4 DEF SelectInv
<1>15. LeftInv'
  <2>1. \A x \in once : srv'[x].state = "selected" => srv[x].state = "selected" /\ (x = o => ~Operable(o, r))
    <3>1. once \subseteq Objects  BY DEF TypeOK
    <3> QED  BY <1>7, <1>8, <3>1
  <2>2. \A x \in once : srv[x].state = "selected" =>
          \/ srv[x].sel \in doubt
          \/ srv[x].sel = Cur /\ loop.at = "selecting" /\ loop.ans \in {"none", "yes"}
          \/ srv[x].sel = Cur /\ loop.at = "operating" /\ loop.ans = "none"
    BY DEF IInv, LeftInv
  <2>3. once \subseteq Objects  BY DEF TypeOK
  <2>4. \A m \in Answers' : Now(m) => \A x \in once : ~(srv'[x].state = "selected" /\ srv'[x].sel = Cur)
    <3> SUFFICES ASSUME Now(r), NEW x \in once, srv'[x].state = "selected", srv'[x].sel = Cur
                 PROVE  FALSE
      BY <1>13
    <3>1. x \in Objects /\ srv[x].state = "selected" /\ srv[x].sel = Cur  BY <1>12, <2>1, <2>3
    <3>2. r.op = Cur /\ loop.at = "operating" /\ o = Object  BY <1>1 DEF Now, Object
    <3>3. target[Cur] = x  BY <1>2, <3>1, <3>2, EntryInRange DEF EntryRange
    <3>4. x = o /\ Sbo(o)  BY <3>1, <3>2, <3>3, EntryInRange DEF EntryRange
    <3>5. r.num = num /\ srv[Object].num = num
      BY <1>1, <3>1, <3>2, <3>4 DEF IInv, SelectInv
    <3>6. Operable(o, r)  BY <3>1, <3>2, <3>4, <3>5 DEF Operable
    <3> QED  BY <2>1, <3>4, <3>6
  <2> QED  BY <1>3, <1>12, <2>1, <2>2, <2>3, <2>4 DEF LeftInv
<1>16. OutlivedInv'
  <2>1. \A x \in Objects : srv'[x].op \in {0, srv[x].op} \/ srv'[x].op = r.op  BY <1>7, <1>8
  <2>2. Concerns(r.op)  BY <1>1 DEF Concerns
  <2> QED  BY <1>1, <1>2, <1>5, <2>1, <2>2, ServedOutlived
<1> QED  BY <1>3, <1>9, <1>10, <1>14, <1>15, <1>16 DEF IInv

(* The server moves on by itself: the control object o goes from one state *)
(* to the next, with the operation it carries out or without.              *)
LEMMA OwnMove ==
  ASSUME TypeOK, IInv, Serves, UNCHANGED <<toSrv, Pending>>, NEW o \in Objects,
         NEW e, e = srv[o].op, NEW v,
         \A x \in Objects : srv'[x] = IF x = o THEN v ELSE srv[x],
         v.sel = srv[o].sel, v.num = srv[o].num, v.op \in {0, e}, EntryRange(v, o),
         v.state = "selected" => o \notin once,
         \A m \in Sent' : m \in Sent \/ (m.op = e /\ e # 0),
         \A m \in Answers' : m \in Answers \/ (m.op = e /\ m.at = "operating")
  PROVE  IInv'
<1>1. /\ UNCHANGED <<model, once, target, loop, num, doubt>>
      /\ Cur' = Cur /\ Object' = Object /\ Cur \in Nat
      /\ \A x : Sbo(x)' <=> Sbo(x)
      /\ \A x : Now(x)' <=> Now(x)
      /\ ControlInv' /\ FreedUntouched'
  BY ServerFrame DEF IInv
<1>2. /\ EntryRange(srv[o], o) /\ Answers' \subseteq Sent'
      /\ e # 0 => e \in 1..Cur
  BY EntryInRange DEF Answers
<1>3. \A x \in Objects : srv'[x].sel = srv[x].sel /\ srv'[x].num = srv[x].num
  OBVIOUS
<1>4. \A m \in Answers' : m \in Answers \/ (m.op = srv[o].op /\ srv[o].op # 0 /\ m.at = "operating")
  <2>1. \A m \in Answers : m \in Sent  BY DEF Answers
  <2>2. \A m \in Answers' : m.kind = "answer"  BY DEF Answers
  <2>3. \A m \in Answers' : m \in Sent => m \in Answers  BY <2>2 DEF Answers
  <2> QED  BY <1>2, <2>3
<1>5. RangeInv'
  <2>1. \A m \in Answers' : m \in Answers \/ (m.op = Cur => Passed(m.at, loop.at))
    BY <1>2, <1>4 DEF EntryRange
  <2>2. \A x \in Objects : EntryRange(srv'[x], x)  BY EntryInRange
  <2>3. CASE e # 0
    <3>1. \A m \in Sent' : m \in Sent \/ m.op = e  OBVIOUS
    <3> QED  BY <1>2, <2>1, <2>2, <2>3, <3>1, ServedRange
  <2>4. CASE e = 0
    <3>1. \A m \in Sent' : m \in Sent  BY <2>4
    <3>2. CASE Sent' = {}
      <4>1. UNCHANGED <<model, target, loop, rx>>  BY ServerFrame
      <4>2. \A x \in Objects :
             /\ srv'[x].op \in 0..Cur /\ srv'[x].sel \in 0..Cur
             /\ srv'[x].op # 0 => target[srv'[x].op] = x
             /\ srv'[x].op # 0 /\ srv'[x].op = Cur => Passed("operating", loop.at)
             /\ srv'[x].sel # 0 => target[srv'[x].sel] = x
             /\ srv'[x].sel # 0 /\ srv'[x].sel = Cur => Passed("selecting", loop.at)
             /\ srv'[x].op # 0 <=> srv'[x].state \in {"waiting", "executing"}
             /\ srv'[x].state = "selected" => Sbo(x) /\ srv'[x].sel # 0
        BY <2>2 DEF EntryRange
      <4>3. Answers' = {}  BY <1>2, <3>2
      <4> QED  BY <1>1, <3>2, <4>1, <4>2, <4>3 DEF IInv, RangeInv
    <3>3. CASE Sent' # {}
      <4>1. PICK m \in Sent' : TRUE  BY <3>3
      <4>2. m.op \in 1..Cur  BY <3>1 DEF IInv, RangeInv
      <4> QED  BY <2>1, <2>2, <3>1, <4>2, ServedRange
    <3> QED  BY <3>2, <3>3
  <2> QED  BY <2>3, <2>4
<1>6. \A m \in Answers' : Now(m) =>
        /\ toSrv = <<>>
        /\ m \in Answers \/ (srv[o].op = Cur /\ srv[o].op # 0 /\ m.at = "operating")
  <2>1. \A x \in Objects : srv[x].op # 0 /\ srv[x].op = Cur /\ loop.at = "operating" => toSrv = <<>>
    BY DEF IInv, QueueInv
  <2>2. \A m \in Answers : Now(m) => toSrv = <<>>  BY DEF IInv, QueueInv
  <2>3. \A m : Now(m) => m.op = Cur /\ m.at = loop.at  BY DEF Now
  <2> QED  BY <1>4, <2>1, <2>2, <2>3
<1>7. QueueInv'
  <2>1. /\ \A i \in DOMAIN toSrv : Now(toSrv[i]) => i = Len(toSrv)
        /\ \A i \in DOMAIN toSrv : toSrv[i].at = "operating" => i = 1
        /\ loop.at = "operating" => \A r \in Pending : Now(r)
        /\ loop.ans = "yes" => toSrv = <<>>
        /\ \A x \in Objects : srv[x].op # 0 /\ srv[x].op = Cur /\ loop.at = "operating" => toSrv = <<>>
        /\ loop.at \notin Stages => loop.ans = "none"
        /\ \A r \in Pending : r.op \in doubt \/ (Now(r) /\ loop.ans = "none")
    BY DEF IInv, QueueInv
  <2>2. \A x \in Objects : srv'[x].op # 0 /\ srv'[x].op = Cur => srv[x].op # 0 /\ srv[x].op = Cur
    OBVIOUS
  <2>3. \A i \in DOMAIN toSrv : Now(toSrv[i])' <=> Now(toSrv[i])  BY <1>1 DEF Now
  <2> QED  BY <1>1, <1>6, <2>1, <2>2, <2>3 DEF QueueInv
<1>8. SelectInv'
  <2>1. /\ \A x \in Objects : srv[x].op # 0 /\ Sbo(x) => srv[x].sel = srv[x].op
        /\ \A r \in Pending :
             /\ r.at = "operating" /\ Sbo(target[r.op]) => srv[target[r.op]].sel = r.op
             /\ Now(r) /\ r.at = "selecting" => srv[Object].sel # Cur
             /\ Now(r) /\ r.at \in {"selecting", "operating"} => r.num = num
        /\ \A m \in Answers : Now(m) /\ m.at = "selecting" => (srv[Object].sel = Cur <=> ~m.bad)
        /\ loop.at = "selecting" /\ loop.ans = "yes" => srv[Object].sel = Cur
        /\ loop.at \in {"selecting", "operating"} /\ srv[Object].sel = Cur => srv[Object].num = num
    BY DEF IInv, SelectInv
  <2>2. \A x \in Objects : srv'[x].op # 0 /\ Sbo(x) => srv'[x].sel = srv'[x].op  BY <2>1
  <2>3. \A r \in Pending : target[r.op] \in Objects
    BY Targets DEF IInv, RangeInv
  <2>4. \A r \in Pending : Now(r) => Object \in Objects  BY <2>3 DEF Now, Object
  <2>5. \A r \in Pending :
             /\ r.at = "operating" /\ Sbo(target[r.op]) => srv'[target[r.op]].sel = r.op
             /\ Now(r) /\ r.at = "selecting" => srv'[Object].sel # Cur
    BY <1>3, <2>1, <2>3, <2>4
  <2>6. loop.at # "idle" => Object \in Objects  BY Targets DEF IInv, RangeInv
  <2>7. \A m \in Answers' : Now(m) /\ m.at = "selecting" => (srv'[Object].sel = Cur <=> ~m.bad)
    <3>1. \A m : Now(m) /\ m.at = "selecting" => loop.at # "idle"  BY DEF Now
    <3> QED  BY <1>3, <1>6, <2>1, <2>6, <3>1
  <2>8. /\ loop.at = "selecting" /\ loop.ans = "yes" => srv'[Object].sel = Cur
        /\ loop.at \in {"selecting", "operating"} /\ srv'[Object].sel = Cur => srv'[Object].num = num
    BY <1>3, <2>1, <2>6
  <2> QED  BY <1>1, <2>1, <2>2, <2>5, <2>7, <2>8 DEF SelectInv
<1>9. LeftInv'
  <2>1. \A x \in once : x \in Objects /\ (srv'[x].state = "selected" => x # o /\ srv'[x] = srv[x])
    BY DEF TypeOK
  <2>2. /\ \A x \in once : srv[x].state = "selected" =>
             \/ srv[x].sel \in doubt
             \/ srv[x].sel = Cur /\ loop.at = "selecting" /\ loop.ans \in {"none", "yes"}
             \/ srv[x].sel = Cur /\ loop.at = "operating" /\ loop.ans = "none"
        /\ \A m \in Answers : Now(m) /\ m.at = "operating" =>
             \A x \in once : ~(srv[x].state = "selected" /\ srv[x].sel = Cur)
    BY DEF IInv, LeftInv
  <2>3. ASSUME srv[o].op = Cur, srv[o].op # 0, NEW x \in once,
               srv'[x].state = "selected", srv'[x].sel = Cur
        PROVE  FALSE
    <3>1. x \in Objects /\ x # o /\ srv[x].state = "selected" /\ srv[x].sel = Cur  BY <2>1, <2>3
    <3>2. target[Cur] = o  BY <1>2, <2>3 DEF EntryRange
    <3>3. target[Cur] = x  BY <2>3, <3>1, EntryInRange DEF EntryRange
    <3> QED  BY <3>1, <3>2, <3>3
  <2>4. \A m \in Answers' : Now(m) /\ m.at = "operating" =>
             \A x \in once : ~(srv'[x].state = "selected" /\ srv'[x].sel = Cur)
    BY <1>6, <2>1, <2>2, <2>3
  <2>5. \A x \in once : srv'[x].state = "selected" =>
             \/ srv'[x].sel \in doubt
             \/ srv'[x].sel = Cur /\ loop.at = "selecting" /\ loop.ans \in {"none", "yes"}
             \/ srv'[x].sel = Cur /\ loop.at = "operating" /\ loop.ans = "none"
    BY <2>1, <2>2
  <2> QED  BY <1>1, <2>4, <2>5 DEF LeftInv
<1>10. OutlivedInv'
  <2>1. e # 0 => Concerns(e)  BY DEF Concerns
  <2>2. \A m \in Sent' : m \in Sent \/ m.kind = "answer" \/ (m.op = e /\ Concerns(e))  BY <2>1
  <2>3. \A x \in Objects : srv'[x].op \in {0, srv[x].op} \/ (srv'[x].op = e /\ Concerns(e))
    OBVIOUS
  <2>4. Pending' \subseteq Pending  OBVIOUS
  <2> QED  BY <2>2, <2>3, <2>4, ServedOutlived
<1> QED  BY <1>1, <1>5, <1>7, <1>8, <1>9, <1>10 DEF IInv

LEMMA OwnSteps ==
  ASSUME TypeOK, IInv, NEW o \in Objects, Execute(o) \/ Finish(o) \/ SelectionExpires(o)
  PROVE  IInv'
<1> DEFINE e == srv[o].op
<1>0. /\ srv \in [Objects -> Entries] /\ srv[o] \in Entries /\ EntryRange(srv[o], o)
      /\ Over(o) \in Entries /\ Over(o).op = 0 /\ Over(o).sel = srv[o].sel /\ Over(o).num = srv[o].num
      /\ Over(o).state = IF Sbo(o) /\ o \notin once THEN "selected" ELSE "ready"
      /\ e # 0 /\ Sbo(o) => srv[o].sel = e
  BY OverTyped, EntryInRange DEF TypeOK, Entries, IInv, SelectInv
<1>1. e # 0 => EntryRange(Over(o), o)  BY <1>0, EntryInRange
<1>2. CASE Execute(o)
  <2>1. srv[o].state = "waiting" /\ UNCHANGED <<toSrv, Pending>> /\ Serves
    BY <1>2, Executed DEF IInv
  <2>2. PICK ok \in BOOLEAN :
          /\ Heard([at |-> "operating", op |-> srv[o].op], ok)
          /\ srv' = [srv EXCEPT ![o] = IF ok THEN [@ EXCEPT !.state = "executing"] ELSE Over(o)]
    BY <1>2, Executed DEF IInv
  <2>3. e # 0  BY <1>0, <2>1 DEF EntryRange
  <2>4. /\ \A m \in Sent' : m \in Sent \/ (m.op = e /\ e # 0)
        /\ \A m \in Answers' : m \in Answers \/ (m.op = e /\ m.at = "operating")
    <3> DEFINE r == [at |-> "operating", op |-> srv[o].op]
    <3>1. r.at = "operating" /\ r.op = e  OBVIOUS
    <3>2. Heard(r, ok)  BY <2>2
    <3> HIDE DEF r
    <3>3. /\ \A m \in Sent' : m \in Sent \/ m.op = r.op
          /\ \A m \in Answers' : m \in Answers \/ m = Answer(r, ok)
          /\ Answer(r, ok).at = r.at /\ Answer(r, ok).op = r.op
      BY <3>2, HeardSplit
    <3> QED  BY <2>3, <3>1, <3>3
  <2> DEFINE v == srv'[o]
  <2>5. \A x \in Objects : srv'[x] = IF x = o THEN v ELSE srv[x]  BY <1>0, <2>2
  <2>6. /\ v.sel = srv[o].sel /\ v.num = srv[o].num /\ v.op \in {0, e} /\ EntryRange(v, o)
        /\ v.state = "selected" => o \notin once
    <3>1. CASE ok
      <4>1. v = [srv[o] EXCEPT !.state = "executing"]  BY <1>0, <2>2, <3>1
      <4>2. srv[o] \in [state : {"ready", "selected", "waiting", "executing"},
                        op : Nat, sel : Nat, num : Nat]
        BY <1>0 DEF Entries
      <4>3. v.sel = srv[o].sel /\ v.num = srv[o].num /\ v.op = e /\ v.state = "executing"
        BY <4>1, <4>2
      <4> HIDE DEF v
      <4>4. EntryRange(v, o)  BY <1>0, <2>3, <4>3 DEF EntryRange
      <4> QED  BY <4>3, <4>4
    <3>2. CASE ~ok
      <4>1. v = Over(o)  BY <1>0, <2>2, <3>2
      <4> HIDE DEF v
      <4> QED  BY <1>0, <1>1, <2>3, <4>1
    <3> QED  BY <3>1, <3>2
  <2> HIDE DEF v
  <2> QED  BY <2>1, <2>4, <2>5, <2>6, OwnMove
<1>3. CASE Finish(o)
  <2>1. /\ srv[o].state = "executing" /\ UNCHANGED <<toSrv, Pending>> /\ Serves
        /\ Reported(e) /\ srv' = [srv EXCEPT ![o] = Over(o)]
    BY <1>3, Finished DEF IInv
  <2>2. e # 0  BY <1>0, <2>1 DEF EntryRange
  <2>3. /\ \A m \in Sent' : m \in Sent \/ (m.op = e /\ e # 0)
        /\ \A m \in Answers' : m \in Answers \/ (m.op = e /\ m.at = "operating")
    <3>1. \A m \in Sent' : m \in Sent \/ (m.kind = "report" /\ m.op = e)  BY <2>1 DEF Reported
    <3>2. \A m \in Answers' : m \in Sent' /\ m.kind = "answer"  BY DEF Answers
    <3>3. \A m \in Answers' : m \in Answers  BY <3>1, <3>2 DEF Answers
    <3> QED  BY <2>2, <3>1, <3>3
  <2>4. \A x \in Objects : srv'[x] = IF x = o THEN Over(o) ELSE srv[x]  BY <1>0, <2>1
  <2>5. /\ Over(o).sel = srv[o].sel /\ Over(o).num = srv[o].num /\ Over(o).op \in {0, e}
        /\ EntryRange(Over(o), o) /\ (Over(o).state = "selected" => o \notin once)
    BY <1>0, <1>1, <2>2
  <2> QED  BY <2>1, <2>3, <2>4, <2>5, OwnMove
<1>4. CASE SelectionExpires(o)
  <2>1. /\ srv[o].state = "selected" /\ Serves /\ toSrv' = toSrv /\ wire' = wire
        /\ srv' = [srv EXCEPT ![o].state = "ready"]
    BY <1>4 DEF SelectionExpires
  <2>2. UNCHANGED <<toSrv, Pending>> /\ Sent' = Sent /\ Answers' = Answers
    BY <2>1 DEF Pending, Sent, Answers
  <2> DEFINE v == srv'[o]
  <2>3. \A x \in Objects : srv'[x] = IF x = o THEN v ELSE srv[x]  BY <1>0, <2>1
  <2>4. /\ v.sel = srv[o].sel /\ v.num = srv[o].num /\ v.op = e /\ v.state = "ready"
    <3>1. v = [srv[o] EXCEPT !.state = "ready"]  BY <1>0, <2>1
    <3>2. srv[o] \in [state : {"ready", "selected", "waiting", "executing"},
                      op : Nat, sel : Nat, num : Nat]
      BY <1>0 DEF Entries
    <3> QED  BY <3>1, <3>2
  <2> HIDE DEF v
  <2>5. EntryRange(v, o)  BY <1>0, <2>1, <2>4 DEF EntryRange
  <2>6. /\ \A m \in Sent' : m \in Sent \/ (m.op = e /\ e # 0)
        /\ \A m \in Answers' : m \in Answers \/ (m.op = e /\ m.at = "operating")
    BY <2>2
  <2> QED  BY <2>1, <2>2, <2>3, <2>4, <2>5, <2>6, OwnMove
<1> QED  BY <1>2, <1>3, <1>4

LEMMA LoseStep ==
  ASSUME TypeOK, IInv, Lose
  PROVE  IInv'
<1>1. /\ UNCHANGED <<model, once, target, loop, num, refs, linked, live, rx, doubt, outlived, touched>>
      /\ toSrv' = <<>> /\ wire' = <<>>
  BY DEF Lose, controlVars, ghosts
<1>2. /\ Cur' = Cur /\ Object' = Object /\ Cur \in Nat
      /\ Pending' = {} /\ Sent' = {} /\ Answers' = {}
      /\ \A x : Sbo(x)' <=> Sbo(x)
  BY <1>1, Typed, Nothing DEF Cur, Object, Pending, Sent, Answers, Sbo
<1>3. PICK gone \in SUBSET {o \in Objects : srv[o].sel # 0} :
        srv' = [o \in Objects |-> IF srv[o].op # 0 \/ o \in gone THEN Over(o) ELSE srv[o]]
  BY DEF Lose
<1>4. \A o \in Objects :
        /\ EntryRange(srv'[o], o) /\ srv'[o].sel = srv[o].sel /\ srv'[o].num = srv[o].num
        /\ srv'[o].op = 0
        /\ srv'[o].state = "selected" /\ o \in once => srv[o].state = "selected"
  <2> SUFFICES ASSUME NEW o \in Objects
               PROVE  /\ EntryRange(srv'[o], o) /\ srv'[o].sel = srv[o].sel /\ srv'[o].num = srv[o].num
                      /\ srv'[o].op = 0
                      /\ srv'[o].state = "selected" /\ o \in once => srv[o].state = "selected"
    OBVIOUS
  <2>1. /\ Over(o).op = 0 /\ Over(o).sel = srv[o].sel /\ Over(o).num = srv[o].num
        /\ Over(o).state = IF Sbo(o) /\ o \notin once THEN "selected" ELSE "ready"
    BY OverTyped
  <2>2. srv[o].op # 0 /\ Sbo(o) => srv[o].sel # 0  BY DEF IInv, SelectInv
  <2>3. EntryRange(srv[o], o) /\ ((Sbo(o) => srv[o].sel # 0) => EntryRange(Over(o), o))
    BY EntryInRange
  <2>4. srv'[o] = IF srv[o].op # 0 \/ o \in gone THEN Over(o) ELSE srv[o]  BY <1>3
  <2>5. o \in gone => srv[o].sel # 0  OBVIOUS
  <2> QED  BY <2>1, <2>2, <2>3, <2>4, <2>5
<1>5. RangeInv'
  <2>1. \A o \in Objects :
         /\ srv'[o].op \in 0..Cur /\ srv'[o].sel \in 0..Cur
         /\ srv'[o].op # 0 => target[srv'[o].op] = o
         /\ srv'[o].op # 0 /\ srv'[o].op = Cur => Passed("operating", loop.at)
         /\ srv'[o].sel # 0 => target[srv'[o].sel] = o
         /\ srv'[o].sel # 0 /\ srv'[o].sel = Cur => Passed("selecting", loop.at)
         /\ srv'[o].op # 0 <=> srv'[o].state \in {"waiting", "executing"}
         /\ srv'[o].state = "selected" => Sbo(o) /\ srv'[o].sel # 0
    BY <1>4 DEF EntryRange
  <2> QED  BY <1>1, <1>2, <2>1 DEF IInv, RangeInv
<1>6. QueueInv'
  <2>1. DOMAIN toSrv' = {}  BY <1>1
  <2>2. loop.at \notin Stages => loop.ans = "none"  BY DEF IInv, QueueInv
  <2> QED  BY <1>1, <1>2, <1>4, <2>1, <2>2 DEF QueueInv
<1>7. SelectInv'
  <2>1. loop.at # "idle" => Object \in Objects  BY Targets DEF IInv, RangeInv
  <2>2. /\ loop.at = "selecting" /\ loop.ans = "yes" => srv[Object].sel = Cur
        /\ loop.at \in {"selecting", "operating"} /\ srv[Object].sel = Cur => srv[Object].num = num
    BY DEF IInv, SelectInv
  <2>3. /\ loop.at = "selecting" /\ loop.ans = "yes" => srv'[Object].sel = Cur
        /\ loop.at \in {"selecting", "operating"} /\ srv'[Object].sel = Cur => srv'[Object].num = num
    BY <1>4, <2>1, <2>2
  <2> QED  BY <1>1, <1>2, <1>4, <2>3 DEF SelectInv
<1>8. LeftInv'
  <2>1. \A x \in once : x \in Objects  BY DEF TypeOK
  <2>2. \A x \in once : srv[x].state = "selected" =>
             \/ srv[x].sel \in doubt
             \/ srv[x].sel = Cur /\ loop.at = "selecting" /\ loop.ans \in {"none", "yes"}
             \/ srv[x].sel = Cur /\ loop.at = "operating" /\ loop.ans = "none"
    BY DEF IInv, LeftInv
  <2> QED  BY <1>1, <1>2, <1>4, <2>1, <2>2 DEF LeftInv
<1>9. ControlInv' /\ FreedUntouched'  BY <1>1, <1>2 DEF IInv, ControlInv, FreedUntouched
<1>10. OutlivedInv'
  <2>1. \A e \in 1..Cur : Concerns(e)' => Concerns(e)
    <3> SUFFICES ASSUME NEW e \in 1..Cur, Concerns(e)' PROVE Concerns(e)
      OBVIOUS
    <3>1. e # 0  BY <1>2
    <3>2. rx.op = e  BY <1>1, <1>2, <1>4, <3>1 DEF Concerns
    <3> QED  BY <3>2 DEF Concerns
  <2> QED  BY <1>1, <1>2, <2>1 DEF IInv, OutlivedInv
<1> QED  BY <1>5, <1>6, <1>7, <1>8, <1>9, <1>10 DEF IInv

-----------------------------------------------------------------------------
(* The receive thread *)

LEMMA DeliverStep ==
  ASSUME TypeOK, IInv, Deliver
  PROVE  IInv'
<1> DEFINE m == Head(wire)
<1>1. /\ UNCHANGED <<model, once, target, num, refs, linked, live, rx, toSrv, srv, doubt, outlived, touched>>
      /\ wire # <<>> /\ wire' = Tail(wire) /\ m.kind = "answer"
      /\ loop' = IF m.op = Cur /\ m.at = loop.at /\ loop.ans = "none"
                 THEN [loop EXCEPT !.ans = IF m.bad THEN "no" ELSE "yes"]
                 ELSE loop
  BY DEF Deliver, serverVars, controlVars, ghosts
<1>2. m \in Answers /\ m \in Messages /\ Sent' \subseteq Sent /\ Answers' \subseteq Answers
  BY <1>1, MessageTaken DEF Answers
<1> HIDE DEF m
<1>3. /\ Cur' = Cur /\ Object' = Object /\ Cur \in Nat /\ Pending' = Pending
      /\ \A x : Sbo(x)' <=> Sbo(x)
  BY <1>1, Typed DEF Cur, Object, Pending, Sbo
<1>4. /\ loop'.at = loop.at
      /\ \/ loop'.ans = loop.ans /\ (Now(m) => loop.ans # "none")
         \/ /\ Now(m) /\ loop.ans = "none"
            /\ loop'.ans = IF m.bad THEN "no" ELSE "yes"
  BY <1>1 DEF TypeOK, Now
<1>5. /\ \A x : Now(x)' <=> Now(x)
      /\ \A i \in DOMAIN toSrv : Now(toSrv[i])' <=> Now(toSrv[i])
  BY <1>1, <1>3, <1>4 DEF Now
<1>6. RangeInv'
  BY <1>1, <1>2, <1>3, <1>4 DEF IInv, RangeInv
<1>7. QueueInv'
  <2>1. /\ \A i \in DOMAIN toSrv : Now(toSrv[i]) => i = Len(toSrv)
        /\ \A i \in DOMAIN toSrv : toSrv[i].at = "operating" => i = 1
        /\ loop.at = "operating" => \A r \in Pending : Now(r)
        /\ loop.ans = "yes" => toSrv = <<>>
        /\ \A x \in Answers : Now(x) => toSrv = <<>>
        /\ \A x \in Objects : srv[x].op # 0 /\ srv[x].op = Cur /\ loop.at = "operating" => toSrv = <<>>
        /\ loop.at \notin Stages => loop.ans = "none"
        /\ \A r \in Pending : r.op \in doubt \/ (Now(r) /\ loop.ans = "none")
    BY DEF IInv, QueueInv
  <2>2. Now(m) => toSrv = <<>> /\ Pending = {} /\ loop.at \in Stages
    BY <1>2, <2>1, Typed DEF Now, Messages
  <2>3. /\ loop'.ans = "yes" => toSrv = <<>>
        /\ loop.at \notin Stages => loop'.ans = "none"
        /\ \A r \in Pending : r.op \in doubt \/ (Now(r) /\ loop'.ans = "none")
    BY <1>4, <2>1, <2>2
  <2> QED  BY <1>1, <1>2, <1>3, <1>4, <1>5, <2>1, <2>3 DEF QueueInv
<1>8. \A x \in Answers : Now(x) /\ x.at = "selecting" => (srv[Object].sel = Cur <=> ~x.bad)
  BY DEF IInv, SelectInv
<1>9. SelectInv'
  <2>1. loop.at = "selecting" /\ loop'.ans = "yes" => srv[Object].sel = Cur
    <3>1. loop.at = "selecting" /\ loop.ans = "yes" => srv[Object].sel = Cur  BY DEF IInv, SelectInv
    <3>2. Now(m) => m.at = loop.at  BY DEF Now
    <3> QED  BY <1>2, <1>4, <1>8, <3>1, <3>2
  <2>2. \A r \in Pending :
          /\ r.at = "operating" /\ Sbo(target[r.op]) => srv[target[r.op]].sel = r.op
          /\ Now(r) /\ r.at = "selecting" => srv[Object].sel # Cur
          /\ Now(r) /\ r.at \in {"selecting", "operating"} => r.num = num
    BY DEF IInv, SelectInv
  <2>3. /\ \A o \in Objects : srv[o].op # 0 /\ Sbo(o) => srv[o].sel = srv[o].op
        /\ loop.at \in {"selecting", "operating"} /\ srv[Object].sel = Cur => srv[Object].num = num
    BY DEF IInv, SelectInv
  <2> QED  BY <1>1, <1>2, <1>3, <1>4, <1>5, <1>8, <2>1, <2>2, <2>3 DEF SelectInv
<1>10. LeftInv'
  <2>1. /\ \A o \in once : srv[o].state = "selected" =>
             \/ srv[o].sel \in doubt
             \/ srv[o].sel = Cur /\ loop.at = "selecting" /\ loop.ans \in {"none", "yes"}
             \/ srv[o].sel = Cur /\ loop.at = "operating" /\ loop.ans = "none"
        /\ \A x \in Answers : Now(x) /\ x.at = "operating" =>
             \A o \in once : ~(srv[o].state = "selected" /\ srv[o].sel = Cur)
    BY DEF IInv, LeftInv
  <2>2. \A o \in once : srv[o].state = "selected" =>
             \/ srv[o].sel \in doubt
             \/ srv[o].sel = Cur /\ loop.at = "selecting" /\ loop'.ans \in {"none", "yes"}
             \/ srv[o].sel = Cur /\ loop.at = "operating" /\ loop'.ans = "none"
    <3> SUFFICES ASSUME NEW o \in once, srv[o].state = "selected", srv[o].sel \notin doubt
                 PROVE  \/ srv[o].sel = Cur /\ loop.at = "selecting" /\ loop'.ans \in {"none", "yes"}
                        \/ srv[o].sel = Cur /\ loop.at = "operating" /\ loop'.ans = "none"
      OBVIOUS
    <3>1. CASE loop'.ans = loop.ans  BY <2>1, <3>1
    <3>2. CASE Now(m)
      <4>1. srv[o].sel = Cur /\ m.at = loop.at  BY <2>1, <3>2 DEF Now
      <4>2. m.at = "operating" => FALSE  BY <1>2, <2>1, <3>2, <4>1
      <4>3. loop.at = "selecting"  BY <2>1, <4>1, <4>2
      <4>4. o \in Objects  BY DEF TypeOK
      <4>5. srv[o].sel # 0 /\ target[srv[o].sel] = o  BY <4>4, EntryInRange DEF EntryRange
      <4>6. o = Object  BY <4>1, <4>5 DEF Object
      <4>7. ~m.bad  BY <1>2, <1>8, <3>2, <4>1, <4>3, <4>6
      <4>8. loop'.ans \in {"none", "yes"}  BY <1>4, <2>1, <4>3, <4>7
      <4> QED  BY <4>1, <4>3, <4>8
    <3> QED  BY <1>4, <3>1, <3>2
  <2> QED  BY <1>1, <1>2, <1>3, <1>4, <1>5, <2>1, <2>2 DEF LeftInv
<1>11. ControlInv' /\ FreedUntouched'
  BY <1>1, <1>3, <1>4 DEF IInv, ControlInv, FreedUntouched
<1>12. OutlivedInv'
  <2>1. \A e \in 1..Cur : Concerns(e)' => Concerns(e)  BY <1>1, <1>2, <1>3 DEF Concerns
  <2> QED  BY <1>1, <1>3, <1>4, <2>1 DEF IInv, OutlivedInv
<1> QED  BY <1>6, <1>7, <1>9, <1>10, <1>11, <1>12 DEF IInv

(* What the receive thread does with a report. *)
LEMMA ReportSteps ==
  ASSUME TypeOK, IInv, TakeReport \/ Step \/ Visit
  PROVE  IInv'
<1>1. /\ UNCHANGED <<model, once, target, loop, num, refs, linked, live, toSrv, srv, doubt, outlived>>
  BY DEF TakeReport, Step, Visit, serverVars, controlVars, linkVars, ghosts
<1>2. Sent' \subseteq Sent /\ Answers' \subseteq Answers
  <2>1. CASE TakeReport  BY <2>1, MessageTaken DEF TakeReport, Answers
  <2>2. CASE Step \/ Visit  BY <2>2 DEF Step, Visit, linkVars, Sent, Answers
  <2> QED  BY <2>1, <2>2
<1>3. /\ Cur' = Cur /\ Object' = Object /\ Cur \in Nat /\ Pending' = Pending
      /\ \A x : Sbo(x)' <=> Sbo(x)
      /\ \A x : Now(x)' <=> Now(x)
      /\ \A i \in DOMAIN toSrv : Now(toSrv[i])' <=> Now(toSrv[i])
  BY <1>1, Typed DEF Cur, Object, Pending, Sbo, Now
<1>4. rx \in [op : Nat, bad : BOOLEAN, parts : Seq(Parts), at : Nat, using : BOOLEAN]
  BY DEF TypeOK
<1>5. /\ rx.op \in 0..Cur /\ rx.at \in 0..Cur /\ (rx.using => rx.at # 0)
      /\ rx.op = 0 => rx.parts = <<>> /\ rx.at = 0
  BY DEF IInv, RangeInv
<1>6. /\ linked \subseteq {Cur} /\ refs \subseteq {Cur} /\ live \subseteq Nat
      /\ Cur \in linked /\ Cur \notin refs => loop.at = "unlinking"
      /\ linked # {} => Cur \in live
      /\ refs \subseteq live /\ linked \subseteq live
  <2>1. linked \subseteq {Cur} /\ refs \subseteq {Cur} /\ live \subseteq Nat /\ refs \subseteq live /\ linked \subseteq live
    BY DEF IInv, ControlInv, TypeOK
  <2>2. loop.at \in {"creating", "selecting", "operating", "reading", "idle", "sleeping", "unlinking", "freeing"}
    BY DEF TypeOK, Stages
  <2>3. /\ loop.at \in {"selecting", "operating", "sleeping", "reading"} => Cur \in linked \cap refs \cap live
        /\ loop.at \in {"idle", "creating"} => live = {}
        /\ loop.at = "freeing" => linked = {}
    BY DEF IInv, ControlInv
  <2>4. Cur \in linked /\ Cur \notin refs => loop.at = "unlinking"  BY <2>1, <2>2, <2>3
  <2> QED  BY <2>1, <2>4
<1>7. /\ outlived \subseteq 1..Cur
      /\ \A e \in 1..Cur : Concerns(e) =>
           e \in outlived \/ (e = Cur /\ loop.at \notin {"unlinking", "freeing", "idle"})
      /\ rx.at # 0 => rx.at \in linked \cap refs \/ \E e \in outlived : e <= rx.at
  BY DEF IInv, OutlivedInv
<1>8. /\ rx'.op \in 0..Cur /\ rx'.at \in 0..Cur /\ (rx'.using => rx'.at # 0)
      /\ rx'.op = 0 => rx'.parts = <<>> /\ rx'.at = 0
      /\ rx'.op # 0 => Concerns(rx'.op)
      /\ rx'.at # 0 => rx'.at \in linked \cap refs \/ \E e \in outlived : e <= rx'.at
  <2>1. CASE TakeReport
    <3>1. /\ rx' = [Waiting EXCEPT !.op = Head(wire).op, !.bad = Head(wire).bad, !.parts = Head(wire).parts]
          /\ Head(wire) \in Sent /\ Head(wire).kind = "report"
      BY <2>1, MessageTaken DEF TakeReport
    <3>2. rx'.op = Head(wire).op /\ rx'.at = 0 /\ rx'.using = FALSE  BY <3>1 DEF Waiting
    <3>3. Head(wire).op \in 1..Cur  BY <3>1 DEF IInv, RangeInv
    <3>4. Concerns(Head(wire).op)  BY <3>1 DEF Concerns
    <3> QED  BY <1>3, <3>2, <3>3, <3>4
  <2>2. CASE Step /\ Beyond = {}
    <3>1. rx' = AfterList  BY <2>2 DEF Step
    <3>2. \/ rx'.op = 0 /\ rx'.parts = <<>> /\ rx'.at = 0 /\ ~rx'.using
          \/ rx'.op = rx.op /\ rx'.at = 0 /\ ~rx'.using /\ rx.parts # <<>>
      BY <1>4, <2>2, <3>1 DEF AfterList, Waiting, Step
    <3>3. rx.op # 0 => Concerns(rx.op)  BY DEF Concerns
    <3> QED  BY <1>3, <1>5, <3>2, <3>3
  <2>3. CASE Step /\ Beyond # {}
    <3>1. PICK c \in Beyond : rx' = [rx EXCEPT !.at = c, !.using = TRUE]  BY <2>3 DEF Step
    <3>2. c = Cur /\ c \in linked /\ c > rx.at  BY <1>6, <3>1 DEF Beyond
    <3>3. rx'.op = rx.op /\ rx'.at = Cur /\ rx.op # 0  BY <1>4, <1>5, <2>3, <3>1, <3>2 DEF Step
    <3>4. Cur # 0  BY <1>3, <1>4, <3>2
    <3>5. Concerns(rx.op) /\ rx.op \in 1..Cur  BY <1>3, <1>5, <3>3 DEF Concerns
    <3>6. Cur \in linked \cap refs \/ \E e \in outlived : e <= Cur
      <4>1. Cur \notin refs => rx.op \in outlived  BY <1>6, <1>7, <3>2, <3>5
      <4>2. rx.op <= Cur  BY <1>3, <3>5
      <4> QED  BY <3>2, <4>1, <4>2
    <3> QED  BY <1>3, <1>5, <3>3, <3>4, <3>5, <3>6
  <2>4. CASE Visit
    <3>1. rx'.op = rx.op /\ rx'.at = rx.at /\ rx'.parts = rx.parts /\ ~rx'.using
      BY <1>4, <2>4 DEF Visit
    <3>2. rx.op # 0 => Concerns(rx.op)  BY DEF Concerns
    <3> QED  BY <1>5, <1>7, <3>1, <3>2
  <2> QED  BY <2>1, <2>2, <2>3, <2>4
<1>9. RangeInv'  BY <1>1, <1>2, <1>3, <1>8 DEF IInv, RangeInv
<1>10. QueueInv'  BY <1>1, <1>2, <1>3 DEF IInv, QueueInv
<1>11. SelectInv'  BY <1>1, <1>2, <1>3 DEF IInv, SelectInv
<1>12. LeftInv'  BY <1>1, <1>2, <1>3 DEF IInv, LeftInv
<1>13. ControlInv'  BY <1>1, <1>3 DEF IInv, ControlInv
<1>14. OutlivedInv'
  <2>1. \A e \in 1..Cur : Concerns(e)' => Concerns(e)
    <3> SUFFICES ASSUME NEW e \in 1..Cur, Concerns(e)' PROVE Concerns(e)
      OBVIOUS
    <3>1. e # 0  BY <1>3
    <3>2. \/ \E r \in Pending : r.op = e /\ r.at \in {"selecting", "operating"}
          \/ \E o \in Objects : srv[o].op = e
          \/ \E m \in Sent : m.op = e /\ m.kind = "report"
          \/ rx'.op = e
      BY <1>1, <1>2, <1>3 DEF Concerns
    <3> QED  BY <1>8, <3>1, <3>2 DEF Concerns
  <2> QED  BY <1>1, <1>3, <1>7, <1>8, <2>1 DEF OutlivedInv
<1>15. FreedUntouched'
  <2>1. \A c \in touched : \E e \in outlived : e <= c  BY DEF IInv, FreedUntouched
  <2>2. touched' = touched \/ (touched' = touched \cup {rx.at} /\ \E e \in outlived : e <= rx.at)
    <3>1. CASE TakeReport  BY <3>1 DEF TakeReport, ghosts
    <3>2. CASE Step
      <4>1. touched' = touched \/ (touched' = touched \cup {rx.at} /\ rx.at # 0 /\ rx.at \notin linked)
        BY <3>2 DEF Step, Touch
      <4> QED  BY <1>7, <4>1
    <3>3. CASE Visit
      <4>1. \/ touched' = touched
            \/ touched' = touched \cup {rx.at} /\ rx.using /\ rx.at \notin refs \cap live
        BY <3>3 DEF Visit, Touch
      <4> QED  BY <1>5, <1>6, <1>7, <4>1
    <3> QED  BY <3>1, <3>2, <3>3
  <2> QED  BY <1>1, <2>1, <2>2 DEF FreedUntouched
<1> QED  BY <1>9, <1>10, <1>11, <1>12, <1>13, <1>14, <1>15 DEF IInv

-----------------------------------------------------------------------------
(* Theorems *)

LEMMA Start == Init => TypeOK /\ IInv
<1> SUFFICES ASSUME Init PROVE TypeOK /\ IInv
  OBVIOUS
<1>1. target = <<>> /\ toSrv = <<>> /\ wire = <<>>  BY DEF Init
<1>2. Cur = 0 /\ Pending = {} /\ Sent = {} /\ Answers = {}
  BY <1>1, Nothing DEF Cur, Pending, Sent, Answers
<1>3. <<>> \in Seq(Objects) /\ <<>> \in Seq(Requests) /\ <<>> \in Seq(Messages) /\ <<>> \in Seq(Parts)
  OBVIOUS
<1>4. TypeOK
  <2>1. Rested \in Entries  BY DEF Rested, Entries
  <2>2. srv \in [Objects -> Entries]  BY <2>1 DEF Init
  <2>3. rx \in [op : Nat, bad : BOOLEAN, parts : Seq(Parts), at : Nat, using : BOOLEAN]
    BY <1>3 DEF Init, Waiting
  <2> QED  BY <1>1, <1>3, <2>2, <2>3 DEF Init, TypeOK, Entries
<1>5. \A o \in Objects : srv[o].op = 0 /\ srv[o].sel = 0 /\ srv[o].state = "ready"
  BY DEF Init, Rested
<1>6. /\ rx.op = 0 /\ rx.parts = <<>> /\ rx.at = 0 /\ ~rx.using
      /\ loop.at = "idle" /\ loop.ans = "none"
      /\ refs = {} /\ linked = {} /\ live = {} /\ outlived = {} /\ touched = {}
      /\ DOMAIN toSrv = {}
  BY <1>1 DEF Init, Waiting
<1>7. RangeInv  BY <1>2, <1>5, <1>6 DEF RangeInv
<1>8. QueueInv  BY <1>2, <1>5, <1>6 DEF QueueInv
<1>9. SelectInv  BY <1>2, <1>5, <1>6 DEF SelectInv
<1>10. LeftInv
  <2>1. once \subseteq Objects  BY DEF Init
  <2> QED  BY <1>2, <1>5, <2>1 DEF LeftInv
<1>11. ControlInv  BY <1>6 DEF ControlInv
<1>12. OutlivedInv  BY <1>2, <1>6 DEF OutlivedInv
<1>13. FreedUntouched  BY <1>6 DEF FreedUntouched
<1> QED  BY <1>4, <1>7, <1>8, <1>9, <1>10, <1>11, <1>12, <1>13 DEF IInv

LEMMA Preserved == TypeOK /\ IInv /\ [Next]_vars => TypeOK' /\ IInv'
<1> SUFFICES ASSUME TypeOK, IInv, [Next]_vars PROVE TypeOK' /\ IInv'
  OBVIOUS
<1>1. CASE Next
  <2>1. TypeOK'  BY <1>1, TypeStep DEF IInv
  <2>2. IInv'
    <3>1. ASSUME NEW o \in Objects, Control(o) PROVE IInv'  BY <3>1, ControlStep
    <3>2. CASE Created \/ Selected \/ Operated \/ Slept  BY <3>2, AskSteps
    <3>3. CASE CreateFailed \/ StatusRead \/ Unlink \/ Free \/ GiveUp  BY <3>3, LoopSteps
    <3>4. CASE ServeRead  BY <3>4, ReadStep
    <3>5. CASE ServeSelect  BY <3>5, SelectStep
    <3>6. CASE ServeOperate  BY <3>6, OperateStep
    <3>7. ASSUME NEW o \in Objects, Execute(o) \/ Finish(o) \/ SelectionExpires(o) PROVE IInv'
      BY <3>7, OwnSteps
    <3>8. CASE Deliver  BY <3>8, DeliverStep
    <3>9. CASE TakeReport \/ Step \/ Visit  BY <3>9, ReportSteps
    <3>10. CASE Lose  BY <3>10, LoseStep
    <3> QED
      BY <1>1, <3>1, <3>2, <3>3, <3>4, <3>5, <3>6, <3>7, <3>8, <3>9, <3>10 DEF Next
  <2> QED  BY <2>1, <2>2
<1>2. CASE UNCHANGED vars
  <2>1. UNCHANGED <<model, once, srv, target, loop, num, refs, linked, live, bad, rx, toSrv, wire, up,
                    crashed, logs, doubt, outlived, touched>>
    BY <1>2 DEF vars, serverVars, controlVars, linkVars, ghosts
  <2>2. /\ Cur' = Cur /\ Object' = Object /\ Pending' = Pending /\ Sent' = Sent /\ Answers' = Answers
        /\ \A x : Sbo(x)' <=> Sbo(x)
        /\ \A x : Now(x)' <=> Now(x)
        /\ \A i \in DOMAIN toSrv : Now(toSrv[i])' <=> Now(toSrv[i])
    BY <2>1 DEF Cur, Object, Pending, Sent, Answers, Sbo, Now
  <2>3. \A e : Concerns(e)' <=> Concerns(e)  BY <2>1, <2>2 DEF Concerns
  <2>4. TypeOK'  BY <2>1 DEF TypeOK
  <2>5. RangeInv'  BY <2>1, <2>2 DEF IInv, RangeInv
  <2>6. QueueInv'  BY <2>1, <2>2 DEF IInv, QueueInv
  <2>7. SelectInv'  BY <2>1, <2>2 DEF IInv, SelectInv
  <2>8. LeftInv'  BY <2>1, <2>2 DEF IInv, LeftInv
  <2>9. ControlInv'  BY <2>1, <2>2 DEF IInv, ControlInv
  <2>10. OutlivedInv'  BY <2>1, <2>2, <2>3 DEF IInv, OutlivedInv
  <2>11. FreedUntouched'  BY <2>1 DEF IInv, FreedUntouched
  <2> QED  BY <2>4, <2>5, <2>6, <2>7, <2>8, <2>9, <2>10, <2>11 DEF IInv
<1> QED  BY <1>1, <1>2

(* The variables keep their types: the controls that are in the list or    *)
(* have a reference are allocated, and every request and report is of its  *)
(* kind.                                                                   *)
THEOREM TypeCorrect == Spec => []TypeOK
<1>1. TypeOK /\ IInv /\ [Next]_vars => (TypeOK /\ IInv)'  BY Preserved
<1> QED  BY Start, <1>1, PTL DEF Spec

(* The inductive invariant: where a request, an answer and a selection can *)
(* be while controlAction stands at a call.                                *)
THEOREM Invariance == Spec => []IInv
<1>1. TypeOK /\ IInv /\ [Next]_vars => (TypeOK /\ IInv)'  BY Preserved
<1> QED  BY Start, <1>1, PTL DEF Spec

(* An operation is carried out only under the selection its own invocation *)
(* of controlAction made, and the selection of an object that is operated  *)
(* once outlives its invocation only when a request got no answer.         *)
THEOREM SelectionsUsed == Spec => []SelectionsOwned
<1>1. IInv => OwnSelection  BY DEF IInv, SelectInv, OwnSelection
<1>2. IInv => NoSelectionLeft  BY DEF IInv, LeftInv, NoSelectionLeft
<1>3. IInv => SelectionsOwned  BY <1>1, <1>2 DEF SelectionsOwned
<1> QED  BY Invariance, <1>3, PTL

(* The receive thread meets a control that ControlObjectClient_destroy has *)
(* freed only when the server or the receive thread was not done with an   *)
(* operation when its control was destroyed.                               *)
THEOREM FreedControls == Spec => []FreedUntouched
<1>1. IInv => FreedUntouched  BY DEF IInv
<1> QED  BY Invariance, <1>1, PTL

-----------------------------------------------------------------------------
(* Operations: what it sees of the entry v of an object *)
Held(o, v) == IF Sbo(o) /\ v.state # "ready" THEN v.sel ELSE 0

LEMMA Seen ==
  /\ DOMAIN Holder = Objects /\ DOMAIN Carries = Objects
  /\ \A o \in Objects : Holder[o] = Held(o, srv[o]) /\ Carries[o] = srv[o].op
BY DEF Holder, Carries, Held

LEMMA SeenSame ==
  ASSUME UNCHANGED <<model, srv>>
  PROVE  Holder' = Holder /\ Carries' = Carries
BY DEF Holder, Carries, Sbo

(* A function that changes at one point. *)
LEMMA Updated ==
  ASSUME NEW S, NEW f, NEW g, f = [x \in S |-> f[x]], g = [x \in S |-> g[x]],
         NEW o \in S, \A x \in S : x # o => g[x] = f[x]
  PROVE  g = [f EXCEPT ![o] = g[o]]
OBVIOUS

(* A step of the server on one object. *)
LEMMA SeenAt ==
  ASSUME TypeOK, UNCHANGED model, NEW o \in Objects, NEW v, srv' = [srv EXCEPT ![o] = v]
  PROVE  /\ Holder' = [Holder EXCEPT ![o] = Held(o, v)]
         /\ Carries' = [Carries EXCEPT ![o] = v.op]
<1>1. DOMAIN srv = Objects  BY DEF TypeOK
<1>2. \A x \in Objects : srv'[x] = IF x = o THEN v ELSE srv[x]  BY <1>1
<1>3. \A x : Sbo(x)' <=> Sbo(x)  BY DEF Sbo
<1>4. /\ Holder' = [x \in Objects |-> Holder'[x]] /\ Holder = [x \in Objects |-> Holder[x]]
      /\ Carries' = [x \in Objects |-> Carries'[x]] /\ Carries = [x \in Objects |-> Carries[x]]
  BY DEF Holder, Carries
<1>5. \A x \in Objects : Holder'[x] = Held(x, srv'[x]) /\ Carries'[x] = srv'[x].op
  BY <1>3 DEF Holder, Carries, Held
<1>6. \A x \in Objects : x # o => Holder'[x] = Holder[x] /\ Carries'[x] = Carries[x]
  BY <1>2, <1>5, Seen
<1>7. Holder' = [Holder EXCEPT ![o] = Holder'[o]] /\ Carries' = [Carries EXCEPT ![o] = Carries'[o]]
  BY <1>4, <1>6, Updated
<1> QED  BY <1>2, <1>5, <1>7

(* Which invocations may operate. *)
LEMMA MayFacts ==
  ASSUME TypeOK
  PROVE  /\ Cur \in Nat /\ MayOperate \subseteq 1..Cur
         /\ \A e \in 1..Cur : e \in MayOperate <=>
              \/ e = Cur /\ loop.at \in {"creating", "selecting"}
              \/ \E r \in Pending : r.op = e /\ r.at = "operating"
BY Typed DEF MayOperate

LEMMA MaySame ==
  ASSUME UNCHANGED target,
         loop'.at = loop.at \/ {loop.at, loop'.at} \cap {"creating", "selecting"} = {},
         \A r : r.at = "operating" => (r \in Pending' <=> r \in Pending)
  PROVE  MayOperate' = MayOperate
<1>1. Cur' = Cur  BY DEF Cur
<1>2. \A e : (\E r \in Pending' : r.op = e /\ r.at = "operating")
             <=> (\E r \in Pending : r.op = e /\ r.at = "operating")
  OBVIOUS
<1>3. loop'.at \in {"creating", "selecting"} <=> loop.at \in {"creating", "selecting"}  OBVIOUS
<1> QED  BY <1>1, <1>2, <1>3 DEF MayOperate

(* A step that keeps what is seen stutters. *)
LEMMA UsesStutter ==
  ASSUME UNCHANGED <<model, once, target>>,
         MayOperate' = MayOperate, Holder' = Holder, Carries' = Carries
  PROVE  UNCHANGED Uses!vars
<1>1. \A o : Sbo(o)' <=> Sbo(o)  BY DEF Sbo
<1> QED  BY <1>1 DEF Uses!vars

LEMMA UsesNext ==
  ASSUME UNCHANGED <<model, once>>,
         \/ \E o \in Objects : \/ Uses!Invoke(o) \/ Uses!Hold(o) \/ Uses!Begin(o)
                               \/ Uses!Refuse(o) \/ Uses!End(o) \/ Uses!Expire(o)
         \/ Uses!GiveUp \/ Uses!Lose
  PROVE  Uses!Next
<1>1. \A o : Sbo(o)' <=> Sbo(o)  BY DEF Sbo
<1>2. {o \in Objects : Sbo(o)}' = {o \in Objects : Sbo(o)}  BY <1>1
<1> QED  BY <1>2 DEF Uses!Next

LEMMA UsesInit == Init => Uses!Init
<1> SUFFICES ASSUME Init PROVE Uses!Init  OBVIOUS
<1>1. target = <<>> /\ loop.at = "idle" /\ toSrv = <<>> /\ srv = [o \in Objects |-> Rested]
      /\ once \in SUBSET Objects
  BY DEF Init
<1>2. Cur = 0  BY <1>1 DEF Cur
<1>3. MayOperate = {}  BY <1>2 DEF MayOperate
<1>4. Holder = [o \in Objects |-> 0] /\ Carries = [o \in Objects |-> 0]
  BY <1>1 DEF Holder, Carries, Rested
<1> QED  BY <1>1, <1>3, <1>4 DEF Uses!Init, Uses!Free
-----------------------------------------------------------------------------
(* The event loop *)

LEMMA InvokeStep ==
  ASSUME TypeOK, IInv, NEW o \in Objects, Control(o)
  PROVE  Uses!Next
<1>1. /\ UNCHANGED <<model, once, srv>> /\ loop.at = "idle"
      /\ target' = Append(target, o) /\ Ask("creating", Cur + 1, 0, FALSE)
  BY Zenon DEF Control, At, serverVars
<1>2. Cur \in Nat /\ Cur' = Cur + 1  BY <1>1, Targets DEF Cur
<1>3. /\ loop'.at = "creating"
      /\ \A r : r.at = "operating" => (r \in Pending' <=> r \in Pending)
  <2> DEFINE q == [at |-> "creating", op |-> Cur + 1, num |-> 0]
  <2>1. "creating" \in Stages /\ Cur + 1 \in Nat /\ 0 \in Nat /\ FALSE \in BOOLEAN
    BY <1>2 DEF Stages
  <2>2. loop'.at = "creating" /\ (Queued(q) \/ Pending' = Pending)
    BY <1>1, <2>1, AskFacts
  <2>3. q.at = "creating"  OBVIOUS
  <2> HIDE DEF q
  <2> QED  BY <2>2, <2>3 DEF Queued
<1>4. \A r \in Pending : r.op \in 1..Cur  BY DEF IInv, RangeInv
<1>5. MayOperate' = MayOperate \cup {Cur + 1}
  <2>1. \A e \in 1..Cur' : e \in MayOperate' <=>
          \/ e = Cur + 1 \/ \E r \in Pending : r.op = e /\ r.at = "operating"
    BY <1>2, <1>3 DEF MayOperate
  <2>2. \A e \in 1..Cur : e \in MayOperate <=> \E r \in Pending : r.op = e /\ r.at = "operating"
    BY <1>1, MayFacts
  <2>3. MayOperate' \subseteq 1..(Cur + 1) /\ MayOperate \subseteq 1..Cur  BY <1>2 DEF MayOperate
  <2>4. 1..(Cur + 1) = 1..Cur \cup {Cur + 1}  BY <1>2
  <2> QED  BY <1>2, <1>4, <2>1, <2>2, <2>3, <2>4
<1>6. Holder' = Holder /\ Carries' = Carries  BY <1>1, SeenSame
<1>7. Uses!Invoke(o)  BY <1>1, <1>5, <1>6 DEF Uses!Invoke, Cur
<1> QED  BY <1>1, <1>7, UsesNext

(* Between its calls the action sends an operate, or will not any more.    *)
LEMMA ForwardUses ==
  ASSUME TypeOK, IInv, Created \/ Selected \/ Operated \/ Slept
  PROVE  [Uses!Next]_Uses!vars
<1>1. /\ Cur \in Nat /\ Cur # 0 /\ UNCHANGED <<model, once, target, srv>>
      /\ loop.at \in {"creating", "selecting", "operating", "sleeping"}
      /\ loop'.at \in {"selecting", "operating", "reading", "sleeping"}
      /\ loop'.at = "selecting" => Created
      /\ loop'.at = "operating" => loop.at \in {"creating", "selecting"}
  BY Forward
<1>2. PICK q \in Requests : Goes(q)  BY Forward
<1>3. Created => loop.at = "creating"  BY DEF Created, Answered, At
<1>4. Cur' = Cur  BY <1>1 DEF Cur
<1>5. \A r \in Pending' : r \in Pending \/ (r.op = Cur /\ r.at = loop'.at)
  BY <1>2 DEF Goes, Queued
<1>6. Pending \subseteq Pending'  BY <1>2 DEF Goes, Queued
<1>7. Holder' = Holder /\ Carries' = Carries  BY <1>1, SeenSame
<1>8. \A e \in 1..Cur : e # Cur => (e \in MayOperate' <=> e \in MayOperate)
  BY <1>4, <1>5, <1>6, <1>1 DEF MayOperate
<1>9. Cur \in MayOperate' => Cur \in MayOperate
  <2> SUFFICES ASSUME Cur \in MayOperate' PROVE Cur \in MayOperate  OBVIOUS
  <2>1. \/ loop'.at = "selecting"
        \/ \E r \in Pending' : r.op = Cur /\ r.at = "operating"
    BY <1>1, <1>4 DEF MayOperate
  <2>2. Cur \in 1..Cur  BY <1>1
  <2>3. CASE loop.at \in {"creating", "selecting"}  BY <2>2, <2>3 DEF MayOperate
  <2>4. CASE loop.at \notin {"creating", "selecting"}
    <3>1. loop'.at # "selecting" /\ loop'.at # "operating"  BY <1>1, <1>3, <2>4
    <3>2. \E r \in Pending : r.op = Cur /\ r.at = "operating"  BY <1>5, <2>1, <3>1
    <3> QED  BY <2>2, <3>2 DEF MayOperate
  <2> QED  BY <2>3, <2>4
<1>10. MayOperate \subseteq 1..Cur /\ MayOperate' \subseteq 1..Cur  BY <1>4 DEF MayOperate
<1>11. CASE Cur \in MayOperate /\ Cur \notin MayOperate'
  <2>1. MayOperate' = MayOperate \ {Cur}  BY <1>8, <1>10, <1>11
  <2>2. Uses!GiveUp  BY <1>1, <1>7, <1>11, <2>1 DEF Uses!GiveUp
  <2> QED  BY <1>1, <2>2, UsesNext
<1>12. CASE Cur \in MayOperate <=> Cur \in MayOperate'
  <2>1. \A e \in 1..Cur : e \in MayOperate' <=> e \in MayOperate  BY <1>8, <1>12
  <2>2. MayOperate' = MayOperate  BY <1>10, <2>1
  <2> QED  BY <1>1, <1>7, <2>2, UsesStutter
<1> QED  BY <1>9, <1>11, <1>12

(* The other steps of event loop and receive thread are not seen. *)
LEMMA UnseenSteps ==
  ASSUME TypeOK,
         \/ CreateFailed \/ StatusRead \/ Unlink \/ Free \/ GiveUp
         \/ Deliver \/ TakeReport \/ Step \/ Visit
  PROVE  UNCHANGED Uses!vars
<1>1. UNCHANGED <<model, once, target, srv, toSrv>>
  BY DEF CreateFailed, StatusRead, Unlink, Free, GiveUp, Deliver, TakeReport, Step, Visit,
         serverVars, linkVars
<1>2. loop'.at = loop.at \/ {loop.at, loop'.at} \cap {"creating", "selecting"} = {}
  <2>1. CASE CreateFailed \/ TakeReport \/ Step \/ Visit
    BY <2>1 DEF CreateFailed, TakeReport, Step, Visit
  <2>2. CASE StatusRead  BY <2>2 DEF StatusRead, Answered, At
  <2>3. CASE Unlink \/ Free  BY <2>3 DEF Unlink, Free, At, TypeOK
  <2>4. CASE GiveUp \/ Deliver  BY <2>4 DEF GiveUp, Deliver, TypeOK
  <2> QED  BY <2>1, <2>2, <2>3, <2>4
<1>3. Pending' = Pending  BY <1>1 DEF Pending
<1>4. MayOperate' = MayOperate  BY <1>1, <1>2, <1>3, MaySame
<1>5. Holder' = Holder /\ Carries' = Carries  BY <1>1, SeenSame
<1> QED  BY <1>1, <1>4, <1>5, UsesStutter
-----------------------------------------------------------------------------
(* The server *)

(* An operate that is taken was the only one. *)
LEMMA MayTaken ==
  ASSUME TypeOK, IInv, Serves, NEW r, Taken(r)
  PROVE  /\ r.at # "operating" => MayOperate' = MayOperate
         /\ r.at = "operating" => r.op \in MayOperate /\ MayOperate' = MayOperate \ {r.op}
<1>1. toSrv \in Seq(Requests) /\ toSrv # <<>> /\ r = Head(toSrv) /\ toSrv' = Tail(toSrv)
      /\ r \in Pending /\ r.op \in 1..Cur
  BY DEF TypeOK, Taken
<1>2. Pending = Pending' \cup {r}  BY <1>1, HeadTail DEF Pending
<1>3. \A x \in Pending' : x.at # "operating"  BY QueueTaken DEF IInv
<1>4. UNCHANGED <<target, loop>> /\ Cur' = Cur  BY ServerFrame
<1>5. CASE r.at # "operating"
  <2>1. \A x : x.at = "operating" => (x \in Pending' <=> x \in Pending)  BY <1>2, <1>5
  <2> QED  BY <1>4, <1>5, <2>1, MaySame
<1>6. CASE r.at = "operating"
  <2>1. \A e \in 1..Cur : e \in MayOperate' <=> e = Cur /\ loop.at \in {"creating", "selecting"}
    BY <1>3, <1>4 DEF MayOperate
  <2>2. \A e \in 1..Cur : e \in MayOperate <=>
          e = r.op \/ (e = Cur /\ loop.at \in {"creating", "selecting"})
    BY <1>1, <1>2, <1>3, <1>6, MayFacts
  <2>3. r.op = Cur => Passed("operating", loop.at)  BY <1>1, <1>6 DEF IInv, RangeInv
  <2>4. r.op = Cur => loop.at \notin {"creating", "selecting"}  BY <2>3 DEF Passed
  <2>5. MayOperate \subseteq 1..Cur /\ MayOperate' \subseteq 1..Cur  BY <1>4 DEF MayOperate
  <2>6. \A e \in 1..Cur : e \in MayOperate' <=> e \in MayOperate \ {r.op}  BY <2>1, <2>2, <2>4
  <2>7. MayOperate' = MayOperate \ {r.op}  BY <2>5, <2>6
  <2> QED  BY <1>1, <1>6, <2>2, <2>7
<1> QED  BY <1>5, <1>6

(* The use of an object is over for Operations as it is for the server. *)
LEMMA OverSeen ==
  ASSUME TypeOK, IInv, Serves, NEW o \in Objects, srv' = [srv EXCEPT ![o] = Over(o)],
         srv[o].op # 0 \/ srv[o].state = "selected" \/ ~Sbo(o)
  PROVE  Uses!LetGo(o) /\ Carries' = [Carries EXCEPT ![o] = 0]
<1>1. /\ Over(o).op = 0 /\ Over(o).sel = srv[o].sel
      /\ Over(o).state = IF Sbo(o) /\ o \notin once THEN "selected" ELSE "ready"
  BY OverTyped
<1>2. UNCHANGED model  BY ServerFrame
<1>3. /\ Holder' = [Holder EXCEPT ![o] = Held(o, Over(o))]
      /\ Carries' = [Carries EXCEPT ![o] = Over(o).op]
  BY <1>2, SeenAt
<1>4. Holder[o] = Held(o, srv[o]) /\ DOMAIN Holder = Objects  BY Seen
<1>5. srv[o].op # 0 => srv[o].state # "ready"  BY DEF IInv, RangeInv
<1>6. o \in once => Held(o, Over(o)) = 0  BY <1>1 DEF Held
<1>7. o \notin once => Held(o, Over(o)) = Holder[o]  BY <1>1, <1>4, <1>5 DEF Held
<1>8. o \notin once => Holder' = Holder
  <2>1. [Holder EXCEPT ![o] = Holder[o]] = Holder  BY <1>4 DEF Holder
  <2> QED  BY <1>3, <1>7, <2>1
<1> QED  BY <1>1, <1>3, <1>6, <1>8 DEF Uses!LetGo

LEMMA SelectUses ==
  ASSUME TypeOK, IInv, ServeSelect
  PROVE  [Uses!Next]_Uses!vars
<1>0. RangeInv  BY DEF IInv
<1>1. PICK r \in Pending :
        /\ Taken(r) /\ r.at = "selecting" /\ Serves
        /\ \/ /\ srv[target[r.op]].state = "ready" /\ Heard(r, TRUE)
              /\ srv' = [srv EXCEPT ![target[r.op]] =
                           [state |-> "selected", op |-> 0, sel |-> r.op, num |-> r.num]]
           \/ Heard(r, FALSE) /\ UNCHANGED srv
  BY <1>0, SelectServed
<1> DEFINE o == target[r.op]
           v == [state |-> "selected", op |-> 0, sel |-> r.op, num |-> r.num]
<1>2. UNCHANGED <<model, once, target>>  BY <1>1, ServerFrame
<1>3. MayOperate' = MayOperate  BY <1>1, MayTaken
<1>4. CASE UNCHANGED srv
  <2>1. Holder' = Holder /\ Carries' = Carries  BY <1>2, <1>4, SeenSame
  <2> QED  BY <1>2, <1>3, <2>1, UsesStutter
<1>5. CASE srv[o].state = "ready" /\ srv' = [srv EXCEPT ![o] = v]
  <2>1. o \in Objects /\ r.op \in 1..Cur /\ Sbo(o)
    BY <1>0, <1>1 DEF Taken, RangeInv
  <2>2. v.op = 0 /\ v.sel = r.op /\ v.state = "selected"  OBVIOUS
  <2>3. srv[o].op = 0  BY <1>0, <1>5, <2>1 DEF RangeInv
  <2>4. Holder[o] = 0 /\ Carries[o] = 0 /\ DOMAIN Carries = Objects
    BY <1>5, <2>1, <2>3, Seen DEF Held
  <2>5. Held(o, v) = r.op  BY <2>1, <2>2 DEF Held
  <2> HIDE DEF v
  <2>6. Holder' = [Holder EXCEPT ![o] = r.op] /\ Carries' = [Carries EXCEPT ![o] = 0]
    <3>1. PICK x \in Objects : x = o  BY <2>1
    <3>2. srv' = [srv EXCEPT ![x] = v]  BY <1>5, <3>1
    <3>3. UNCHANGED model  BY <1>2
    <3>4. /\ Holder' = [Holder EXCEPT ![x] = Held(x, v)]
          /\ Carries' = [Carries EXCEPT ![x] = v.op]
      BY <3>2, <3>3, SeenAt
    <3> QED  BY <2>2, <2>5, <3>1, <3>4
  <2>7. Carries' = Carries
    <3>1. [Carries EXCEPT ![o] = Carries[o]] = Carries  BY DEF Carries
    <3> QED  BY <2>4, <2>6, <3>1
  <2>8. r.op \in Uses!Of(o)  BY <2>1 DEF Uses!Of, Cur
  <2>9. Uses!Hold(o)  BY <1>2, <1>3, <2>1, <2>4, <2>6, <2>7, <2>8 DEF Uses!Hold
  <2> QED  BY <1>2, <2>1, <2>9, UsesNext
<1> QED  BY <1>1, <1>4, <1>5

LEMMA OperateUses ==
  ASSUME TypeOK, IInv, ServeOperate
  PROVE  [Uses!Next]_Uses!vars
<1>0. RangeInv  BY DEF IInv
<1>1. PICK r \in Pending :
        LET o == target[r.op] IN
        /\ Taken(r) /\ r.at = "operating" /\ Serves
        /\ \/ /\ Operable(o, r) /\ Reported(r.op) /\ Sent' \subseteq Sent
              /\ srv' = [srv EXCEPT ![o].state = "waiting", ![o].op = r.op]
           \/ Operable(o, r) /\ Heard(r, FALSE) /\ srv' = [srv EXCEPT ![o] = Over(o)]
           \/ ~Operable(o, r) /\ Heard(r, FALSE) /\ UNCHANGED srv
  BY <1>0, OperateServed
<1> DEFINE o == target[r.op]
<1>2. UNCHANGED <<model, once, target>>  BY <1>1, ServerFrame
<1>3. r.op \in MayOperate /\ MayOperate' = MayOperate \ {r.op}  BY <1>1, MayTaken
<1>4. o \in Objects /\ r.op \in 1..Cur  BY <1>1 DEF Taken
<1>5. r.op \in Uses!Of(o) \cap MayOperate  BY <1>3, <1>4 DEF Uses!Of, Cur
<1>6. Operable(o, r) => Uses!Operates(o, r.op) /\ (srv[o].state = "selected" \/ ~Sbo(o))
  <2> SUFFICES ASSUME Operable(o, r)
               PROVE  Uses!Operates(o, r.op) /\ (srv[o].state = "selected" \/ ~Sbo(o))
    OBVIOUS
  <2>1. srv[o].state \in {"ready", "selected"} /\ (Sbo(o) => srv[o].state = "selected")
    BY DEF Operable
  <2>2. srv[o].op = 0  BY <1>0, <1>4, <2>1 DEF RangeInv
  <2>3. Carries[o] = 0 /\ Holder[o] = Held(o, srv[o])  BY <1>4, <2>2, Seen
  <2>4. Sbo(o) => srv[o].sel = r.op  BY <1>1 DEF IInv, SelectInv
  <2>5. Sbo(o) => Holder[o] = r.op  BY <2>1, <2>3, <2>4 DEF Held
  <2> QED  BY <1>2, <1>3, <2>1, <2>3, <2>5 DEF Uses!Operates
<1>7. CASE Operable(o, r) /\ srv' = [srv EXCEPT ![o].state = "waiting", ![o].op = r.op]
  <2> DEFINE v == [srv[o] EXCEPT !.state = "waiting", !.op = r.op]
  <2>1. DOMAIN srv = Objects /\ srv[o] \in Entries  BY <1>4 DEF TypeOK, Entries
  <2>2. srv' = [srv EXCEPT ![o] = v]  BY <1>7, <2>1
  <2>3. v.op = r.op /\ v.sel = srv[o].sel /\ v.state = "waiting"  BY <2>1 DEF Entries
  <2> HIDE DEF v
  <2>4. Holder' = [Holder EXCEPT ![o] = Held(o, v)] /\ Carries' = [Carries EXCEPT ![o] = r.op]
    <3>1. PICK x \in Objects : x = o  BY <1>4
    <3>2. srv' = [srv EXCEPT ![x] = v]  BY <2>2, <3>1
    <3>3. UNCHANGED model  BY <1>2
    <3>4. /\ Holder' = [Holder EXCEPT ![x] = Held(x, v)]
          /\ Carries' = [Carries EXCEPT ![x] = v.op]
      BY <3>2, <3>3, SeenAt
    <3> QED  BY <2>3, <3>1, <3>4
  <2>5. Held(o, v) = Holder[o]
    <3>1. Holder[o] = Held(o, srv[o])  BY <1>4, Seen
    <3> QED  BY <1>6, <1>7, <2>3, <3>1 DEF Held
  <2>6. Holder' = Holder
    <3>1. [Holder EXCEPT ![o] = Holder[o]] = Holder  BY DEF Holder
    <3> QED  BY <2>4, <2>5, <3>1
  <2>7. Uses!Begin(o)  BY <1>5, <1>6, <1>7, <2>4, <2>6 DEF Uses!Begin
  <2> QED  BY <1>2, <1>4, <2>7, UsesNext
<1>8. CASE Operable(o, r) /\ srv' = [srv EXCEPT ![o] = Over(o)]
  <2>1. Uses!LetGo(o) /\ Carries' = [Carries EXCEPT ![o] = 0]
    BY <1>1, <1>4, <1>6, <1>8, OverSeen
  <2>2. Carries[o] = 0  BY <1>6, <1>8 DEF Uses!Operates
  <2>3. Carries' = Carries
    <3>1. [Carries EXCEPT ![o] = Carries[o]] = Carries  BY DEF Carries
    <3> QED  BY <2>1, <2>2, <3>1
  <2>4. Uses!Refuse(o)  BY <1>5, <1>6, <1>8, <2>1, <2>3 DEF Uses!Refuse
  <2> QED  BY <1>2, <1>4, <2>4, UsesNext
<1>9. CASE UNCHANGED srv
  <2>1. Holder' = Holder /\ Carries' = Carries  BY <1>2, <1>9, SeenSame
  <2>2. Uses!GiveUp  BY <1>2, <1>3, <2>1 DEF Uses!GiveUp
  <2> QED  BY <1>2, <2>2, UsesNext
<1> QED  BY <1>1, <1>7, <1>8, <1>9

LEMMA ReadUses ==
  ASSUME TypeOK, IInv, ServeRead
  PROVE  UNCHANGED Uses!vars
<1>0. RangeInv  BY DEF IInv
<1>1. PICK r \in Pending : Taken(r) /\ r.at \in {"creating", "reading"} /\ UNCHANGED srv /\ Serves
  BY <1>0, ReadServed
<1>2. UNCHANGED <<model, once, target>>  BY <1>1, ServerFrame
<1>3. MayOperate' = MayOperate  BY <1>1, MayTaken
<1>4. Holder' = Holder /\ Carries' = Carries  BY <1>1, <1>2, SeenSame
<1> QED  BY <1>2, <1>3, <1>4, UsesStutter

(* What the server does without a request. *)
LEMMA OwnUses ==
  ASSUME TypeOK, IInv, NEW o \in Objects, Execute(o) \/ Finish(o) \/ SelectionExpires(o)
  PROVE  [Uses!Next]_Uses!vars
<1>0. RangeInv  BY DEF IInv
<1>1. UNCHANGED toSrv /\ Serves  BY DEF Execute, Finish, SelectionExpires
<1>2. UNCHANGED <<model, once, target, loop>>  BY <1>1, ServerFrame
<1>3. MayOperate' = MayOperate
  <2>1. Pending' = Pending  BY <1>1 DEF Pending
  <2> QED  BY <1>2, <2>1, MaySame
<1>4. DOMAIN srv = Objects /\ srv[o] \in Entries  BY DEF TypeOK, Entries
<1>5. Holder[o] = Held(o, srv[o]) /\ Carries[o] = srv[o].op  BY Seen
<1>6. ASSUME srv[o].op # 0, srv' = [srv EXCEPT ![o] = Over(o)] PROVE Uses!Next
  <2>1. Uses!LetGo(o) /\ Carries' = [Carries EXCEPT ![o] = 0]  BY <1>1, <1>6, OverSeen
  <2>2. Uses!End(o)  BY <1>2, <1>3, <1>5, <1>6, <2>1 DEF Uses!End
  <2> QED  BY <1>2, <2>2, UsesNext
<1>7. srv[o].op # 0 <=> srv[o].state \in {"waiting", "executing"}  BY <1>0 DEF RangeInv
<1>8. CASE Execute(o)
  <2>1. PICK ok \in BOOLEAN :
          srv' = [srv EXCEPT ![o] = IF ok THEN [@ EXCEPT !.state = "executing"] ELSE Over(o)]
    BY <1>0, <1>8, Executed
  <2>2. srv[o].state = "waiting"  BY <1>8 DEF Execute
  <2>3. CASE ok
    <3> DEFINE v == [srv[o] EXCEPT !.state = "executing"]
    <3>1. srv' = [srv EXCEPT ![o] = v]  BY <2>1, <2>3
    <3>2. v.op = srv[o].op /\ v.sel = srv[o].sel /\ v.state = "executing"  BY <1>4 DEF Entries
    <3> HIDE DEF v
    <3>3. Holder' = [Holder EXCEPT ![o] = Holder[o]] /\ Carries' = [Carries EXCEPT ![o] = Carries[o]]
      <4>1. Held(o, v) = Holder[o] /\ v.op = Carries[o]  BY <1>5, <2>2, <3>2 DEF Held
      <4> QED  BY <1>2, <3>1, <4>1, SeenAt
    <3>4. Holder' = Holder /\ Carries' = Carries
      <4>1. [Holder EXCEPT ![o] = Holder[o]] = Holder  BY DEF Holder
      <4>2. [Carries EXCEPT ![o] = Carries[o]] = Carries  BY DEF Carries
      <4> QED  BY <3>3, <4>1, <4>2
    <3> QED  BY <1>2, <1>3, <3>4, UsesStutter
  <2>4. CASE ~ok  BY <1>6, <1>7, <2>1, <2>2, <2>4
  <2> QED  BY <2>3, <2>4
<1>9. CASE Finish(o)
  <2>1. srv[o].state = "executing" /\ srv' = [srv EXCEPT ![o] = Over(o)]  BY <1>0, <1>9, Finished
  <2> QED  BY <1>6, <1>7, <2>1
<1>10. CASE SelectionExpires(o)
  <2> DEFINE v == [srv[o] EXCEPT !.state = "ready"]
  <2>1. Sbo(o) /\ srv[o].state = "selected" /\ srv' = [srv EXCEPT ![o].state = "ready"]
    BY <1>10 DEF SelectionExpires
  <2>2. srv' = [srv EXCEPT ![o] = v]  BY <1>4, <2>1
  <2>3. v.op = srv[o].op /\ v.state = "ready"  BY <1>4 DEF Entries
  <2>4. srv[o].op = 0 /\ srv[o].sel # 0 /\ srv[o].sel \in Nat  BY <1>0, <1>4, <2>1 DEF RangeInv, Entries
  <2> HIDE DEF v
  <2>5. Held(o, v) = 0 /\ Holder[o] = srv[o].sel  BY <1>5, <2>1, <2>3 DEF Held
  <2>6. Holder' = [Holder EXCEPT ![o] = 0] /\ Carries' = [Carries EXCEPT ![o] = Carries[o]]
    BY <1>2, <1>5, <2>2, <2>3, <2>5, SeenAt
  <2>7. Carries' = Carries
    <3>1. [Carries EXCEPT ![o] = Carries[o]] = Carries  BY DEF Carries
    <3> QED  BY <2>6, <3>1
  <2>8. Uses!Expire(o)  BY <1>2, <1>3, <1>5, <2>4, <2>5, <2>6, <2>7 DEF Uses!Expire
  <2> QED  BY <1>2, <2>8, UsesNext
<1> QED  BY <1>8, <1>9, <1>10

LEMMA LoseUses ==
  ASSUME TypeOK, IInv, Lose
  PROVE  Uses!Next
<1>1. UNCHANGED <<model, once, target, loop>> /\ toSrv' = <<>>  BY DEF Lose
<1>2. PICK gone \in SUBSET {o \in Objects : srv[o].sel # 0} :
        srv' = [o \in Objects |-> IF srv[o].op # 0 \/ o \in gone THEN Over(o) ELSE srv[o]]
  BY DEF Lose
<1>3. MayOperate' \subseteq MayOperate
  <2>1. Pending' = {} /\ Cur' = Cur  BY <1>1, Nothing DEF Pending, Cur
  <2> QED  BY <1>1, <2>1 DEF MayOperate
<1>4. \A o : Sbo(o)' <=> Sbo(o)  BY <1>1 DEF Sbo
<1>5. DOMAIN Holder' = Objects  BY DEF Holder
<1>6. \A o \in Objects :
        /\ srv'[o].op = 0
        /\ Holder'[o] \in {0, Holder[o]} \/ (Sbo(o) /\ o \notin once /\ Holder'[o] \in Uses!Of(o))
  <2> SUFFICES ASSUME NEW o \in Objects
               PROVE  /\ srv'[o].op = 0
                      /\ \/ Holder'[o] \in {0, Holder[o]}
                         \/ Sbo(o) /\ o \notin once /\ Holder'[o] \in Uses!Of(o)
    OBVIOUS
  <2>1. /\ Over(o).op = 0 /\ Over(o).sel = srv[o].sel
        /\ Over(o).state = IF Sbo(o) /\ o \notin once THEN "selected" ELSE "ready"
    BY OverTyped
  <2>2. srv'[o] = IF srv[o].op # 0 \/ o \in gone THEN Over(o) ELSE srv[o]  BY <1>2
  <2>3. Holder[o] = Held(o, srv[o]) /\ Holder'[o] = Held(o, srv'[o])
    BY <1>4 DEF Holder, Held
  <2>4. srv[o].sel \in 0..Cur /\ (srv[o].sel # 0 => target[srv[o].sel] = o)
    BY DEF IInv, RangeInv
  <2>5. srv[o].sel = 0 \/ srv[o].sel \in Uses!Of(o)
    <3>1. Cur \in Nat  BY Typed
    <3> QED  BY <2>4, <3>1 DEF Uses!Of, Cur
  <2>6. CASE srv'[o] = srv[o] /\ srv[o].op = 0  BY <2>3, <2>6
  <2>7. CASE srv'[o] = Over(o)
    <3>1. Holder'[o] = IF Sbo(o) /\ o \notin once THEN srv[o].sel ELSE 0
      BY <2>1, <2>3, <2>7 DEF Held
    <3> QED  BY <2>1, <2>5, <2>7, <3>1
  <2> QED  BY <2>2, <2>6, <2>7
<1>7. Carries' = [o \in Objects |-> 0]  BY <1>6 DEF Carries
<1>8. Uses!Lose
  <2>1. {o \in Objects : Sbo(o)} \ once = {o \in Objects : Sbo(o) /\ o \notin once}  OBVIOUS
  <2> QED  BY <1>1, <1>3, <1>5, <1>6, <1>7, <2>1 DEF Uses!Lose, Uses!Free
<1> QED  BY <1>1, <1>8, UsesNext

LEMMA UsesStep == TypeOK /\ IInv /\ [Next]_vars => [Uses!Next]_Uses!vars
<1> SUFFICES ASSUME TypeOK, IInv, [Next]_vars PROVE [Uses!Next]_Uses!vars  OBVIOUS
<1>1. CASE \E o \in Objects : Control(o)  BY <1>1, InvokeStep
<1>2. CASE Created \/ Selected \/ Operated \/ Slept  BY <1>2, ForwardUses
<1>3. CASE \/ CreateFailed \/ StatusRead \/ Unlink \/ Free \/ GiveUp
           \/ Deliver \/ TakeReport \/ Step \/ Visit
  BY <1>3, UnseenSteps
<1>4. CASE ServeRead  BY <1>4, ReadUses
<1>5. CASE ServeSelect  BY <1>5, SelectUses
<1>6. CASE ServeOperate  BY <1>6, OperateUses
<1>7. CASE \E o \in Objects : Execute(o) \/ Finish(o) \/ SelectionExpires(o)  BY <1>7, OwnUses
<1>8. CASE Lose  BY <1>8, LoseUses
<1>9. CASE UNCHANGED vars
  <2>1. UNCHANGED <<model, once, srv, target, loop, toSrv>>
    BY <1>9 DEF vars, serverVars, linkVars
  <2>2. Pending' = Pending  BY <2>1 DEF Pending
  <2>3. MayOperate' = MayOperate  BY <2>1, <2>2, MaySame
  <2>4. Holder' = Holder /\ Carries' = Carries  BY <2>1, SeenSame
  <2> QED  BY <2>1, <2>3, <2>4, UsesStutter
<1> QED  BY <1>1, <1>2, <1>3, <1>4, <1>5, <1>6, <1>7, <1>8, <1>9 DEF Next

(* Each invocation operates its object at most once, and an object that is *)
(* selected first under its own selection, whatever requests of it are     *)
(* refused, time out, come late or are lost with the connection.           *)
THEOREM OperationsRefined == Spec => OperationsImplemented
<1> QED  BY TypeCorrect, Invariance, UsesInit, UsesStep, PTL
         DEF Spec, OperationsImplemented, Uses!Spec
=============================================================================
