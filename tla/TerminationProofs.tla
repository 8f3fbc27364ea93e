-------------------------- MODULE TerminationProofs --------------------------
(***************************************************************************)
(* That the command termination handler tells the truth, for any objects,  *)
(* control models and number of invocations.  The argument follows the one *)
(* trace an operation leaves: its request, then the server's entry, then   *)
(* the report, then the report the receive thread handles.                 *)
(***************************************************************************)
EXTENDS ControlActionProofs

(* Where the operation of the last invocation can be. *)
Sends(r) == r.op = Cur /\ r.at \in {"selecting", "operating"}
TellsOf(m) == m.kind = "report" /\ m.op = Cur
Asked == \E r \in Pending : Sends(r)
Doing == \E o \in Objects : srv[o].op = Cur
Telling == \E m \in Sent : TellsOf(m)
Hearing == rx.op = Cur

(* Its operate is not sent, and still may be. *)
Unsent ==
  \/ loop.at = "creating"
  \/ loop.at = "selecting" /\ (loop.ans = "yes" \/ \E m \in Answers : Now(m) /\ ~m.bad)

OneRequest == \A i, j \in DOMAIN toSrv : Sends(toSrv[i]) /\ Sends(toSrv[j]) => i = j
OneReport == \A i, j \in DOMAIN wire : TellsOf(wire[i]) /\ TellsOf(wire[j]) => i = j

(* It is in one place at most. *)
OnceInv ==
  Cur # 0 =>
    /\ OneRequest /\ OneReport
    /\ Asked => ~Doing /\ ~Telling /\ ~Hearing
    /\ Doing => ~Telling /\ ~Hearing
    /\ Telling => ~Hearing
    /\ Unsent => ~Asked /\ ~Doing /\ ~Telling /\ ~Hearing

Refused == <<"error">>
Done == <<"termination">>
Failed == <<"error", "termination">>

(* A report is a refusal, or a termination that comes with its outcome. *)
Shaped(m) ==
  \/ m.parts = Refused
  \/ m.parts = Done /\ ~m.bad
  \/ m.parts = Failed /\ m.bad
ShapeInv ==
  /\ \A m \in Sent : m.kind = "report" => Shaped(m)
  /\ \/ rx.parts \in {<<>>, Refused, Done}
     \/ rx.parts = Failed /\ rx.bad
  /\ rx.using => rx.parts # <<>>

(* No operation outlived an earlier control of the same object. *)
Clean == \A e \in outlived : e < Cur => target[e] # Object

(* The error of the control is none until the report has set it. *)
ErrorInv ==
  Clean /\ Cur # 0 =>
    /\ \A r \in Pending : r.op = Cur /\ r.at = "operating" => Cur \notin bad
    /\ Doing => Cur \notin bad
    /\ \A m \in Sent : TellsOf(m) /\ m.parts # Refused => Cur \notin bad
    /\ Hearing /\ Cur \in refs =>
         /\ rx.parts = Done => (Cur \in bad <=> rx.bad)
         /\ rx.parts = Failed /\ rx.at = Cur /\ ~rx.using => Cur \in bad

LogInv == (\A l \in logs : l.ctl \in 1..Cur) /\ TerminationTold

TInv == OnceInv /\ ShapeInv /\ ErrorInv /\ LogInv

-----------------------------------------------------------------------------
(* Requests and messages that come and go *)

LEMMA RequestTaken ==
  ASSUME TypeOK, OneRequest, toSrv # <<>>, toSrv' = Tail(toSrv), Cur' = Cur
  PROVE  /\ OneRequest' /\ (Asked' => Asked)
         /\ Sends(Head(toSrv)) => Asked /\ ~Asked'
<1>1. toSrv \in Seq(Requests)  BY DEF TypeOK
<1>2. /\ Head(toSrv) = toSrv[1] /\ Len(toSrv) \in Nat \ {0}
      /\ DOMAIN toSrv = 1..Len(toSrv) /\ DOMAIN toSrv' = 1..(Len(toSrv) - 1)
      /\ \A i \in DOMAIN toSrv' : i + 1 \in DOMAIN toSrv /\ toSrv'[i] = toSrv[i + 1]
      /\ Range(toSrv) = Range(toSrv') \cup {Head(toSrv)}
      /\ toSrv' \in Seq(Requests)
  BY <1>1, HeadTail
<1>3. \A x : Sends(x)' <=> Sends(x)  BY DEF Sends
<1>4. OneRequest'
  <2>1. SUFFICES ASSUME NEW i \in DOMAIN toSrv', NEW j \in DOMAIN toSrv',
                        Sends(toSrv[i + 1]), Sends(toSrv[j + 1])
                 PROVE  i = j
    BY <1>2 DEF OneRequest, Sends
  <2>2. i + 1 = j + 1  BY <1>2, <2>1 DEF OneRequest
  <2> QED  BY <1>2, <2>2
<1>5. Head(toSrv) \in Pending /\ Pending' \subseteq Pending  BY <1>2 DEF Pending
<1>6. Asked' => Asked  BY <1>5 DEF Asked, Sends
<1>7. ASSUME Sends(Head(toSrv)) PROVE ~Asked'
  <2>1. SUFFICES ASSUME NEW r \in Pending', Sends(r) PROVE FALSE
    BY DEF Asked, Sends
  <2>2. PICK i \in DOMAIN toSrv' : toSrv'[i] = r  BY DEF Pending, Range
  <2>3. i + 1 = 1  BY <1>2, <1>7, <2>1, <2>2 DEF OneRequest
  <2> QED  BY <1>2, <2>3
<1>8. Sends(Head(toSrv)) => Asked  BY <1>5 DEF Asked
<1> QED  BY <1>4, <1>6, <1>7, <1>8

LEMMA ReportTaken ==
  ASSUME TypeOK, OneReport, wire # <<>>, wire' = Tail(wire), Cur' = Cur
  PROVE  /\ OneReport' /\ (Telling' => Telling) /\ Sent' \subseteq Sent /\ Head(wire) \in Sent
         /\ TellsOf(Head(wire)) => Telling /\ ~Telling'
<1>1. wire \in Seq(Messages)  BY DEF TypeOK
<1>2. /\ Head(wire) = wire[1] /\ Len(wire) \in Nat \ {0}
      /\ DOMAIN wire = 1..Len(wire) /\ DOMAIN wire' = 1..(Len(wire) - 1)
      /\ \A i \in DOMAIN wire' : i + 1 \in DOMAIN wire /\ wire'[i] = wire[i + 1]
      /\ Range(wire) = Range(wire') \cup {Head(wire)}
      /\ wire' \in Seq(Messages)
  BY <1>1, HeadTail
<1>4. OneReport'
  <2>1. SUFFICES ASSUME NEW i \in DOMAIN wire', NEW j \in DOMAIN wire',
                        TellsOf(wire[i + 1]), TellsOf(wire[j + 1])
                 PROVE  i = j
    BY <1>2 DEF OneReport, TellsOf
  <2>2. i + 1 = j + 1  BY <1>2, <2>1 DEF OneReport
  <2> QED  BY <1>2, <2>2
<1>5. Head(wire) \in Sent /\ Sent' \subseteq Sent  BY <1>2 DEF Sent
<1>6. Telling' => Telling  BY <1>5 DEF Telling, TellsOf
<1>7. ASSUME TellsOf(Head(wire)) PROVE ~Telling'
  <2>1. SUFFICES ASSUME NEW m \in Sent', TellsOf(m) PROVE FALSE
    BY DEF Telling, TellsOf
  <2>2. PICK i \in DOMAIN wire' : wire'[i] = m  BY DEF Sent, Range
  <2>3. i + 1 = 1  BY <1>2, <1>7, <2>1, <2>2 DEF OneReport
  <2> QED  BY <1>2, <2>3
<1>8. TellsOf(Head(wire)) => Telling  BY <1>5 DEF Telling
<1> QED  BY <1>4, <1>5, <1>6, <1>7, <1>8

(* A message is added, a report of the last operation as the only one. *)
LEMMA OneMore ==
  ASSUME NEW s \in Seq(Messages), NEW x \in Messages,
         \A i, j \in DOMAIN s : TellsOf(s[i]) /\ TellsOf(s[j]) => i = j,
         TellsOf(x) => \A i \in DOMAIN s : ~TellsOf(s[i])
  PROVE  /\ \A i, j \in DOMAIN Append(s, x) :
              TellsOf(Append(s, x)[i]) /\ TellsOf(Append(s, x)[j]) => i = j
         /\ Append(s, x) \in Seq(Messages) /\ Range(Append(s, x)) = Range(s) \cup {x}
<1> DEFINE a == Append(s, x)
<1>1. /\ a \in Seq(Messages) /\ DOMAIN a = 1..(Len(s) + 1) /\ DOMAIN s = 1..Len(s)
      /\ \A i \in DOMAIN s : a[i] = s[i]
      /\ a[Len(s) + 1] = x /\ Range(a) = Range(s) \cup {x}
  BY Appended
<1>2. Len(s) \in Nat  OBVIOUS
<1> HIDE DEF a
<1>3. \A i \in DOMAIN a : i \in DOMAIN s \/ i = Len(s) + 1  BY <1>1, <1>2
<1>4. \A i, j \in DOMAIN a : TellsOf(a[i]) /\ TellsOf(a[j]) => i = j  BY <1>1, <1>3
<1> QED  BY <1>1, <1>4 DEF a

LEMMA Spoken ==
  ASSUME TypeOK, OneReport, Cur' = Cur, NEW x \in Messages, NEW y \in Messages,
         y.kind = "answer", TellsOf(x) => ~Telling
  PROVE  /\ wire' = wire \/ wire' = wire \o <<>> => OneReport' /\ Sent' = Sent
         /\ wire' = Append(wire, y) \/ wire' = wire \o <<y>> => OneReport' /\ Sent' = Sent \cup {y}
         /\ wire' = Append(wire, x) => OneReport' /\ Sent' = Sent \cup {x}
         /\ wire' = wire \o <<x, y>> => OneReport' /\ Sent' = Sent \cup {x, y}
<1> DEFINE w == wire
           one(s) == \A i, j \in DOMAIN s : TellsOf(s[i]) /\ TellsOf(s[j]) => i = j
<1>1. w \in Seq(Messages)  BY DEF TypeOK
<1>2. /\ w \o <<>> = w /\ w \o <<y>> = Append(w, y)
      /\ w \o <<x, y>> = Append(Append(w, x), y)
  BY <1>1
<1>3. one(w) /\ ~TellsOf(y)  BY DEF OneReport, TellsOf
<1>4. TellsOf(x) => \A i \in DOMAIN w : ~TellsOf(w[i])
  <2>1. \A i \in DOMAIN w : w[i] \in Sent  BY DEF Sent, Range
  <2> QED  BY <2>1 DEF Telling
<1>5. \A v : wire' = v => (OneReport' <=> one(v)) /\ Sent' = Range(v)
  BY DEF OneReport, TellsOf, Sent
<1>6. Range(w) = Sent  BY DEF Sent
<1> HIDE DEF w
<1>7. one(Append(w, y)) /\ Range(Append(w, y)) = Range(w) \cup {y}
  BY <1>1, <1>3, OneMore
<1>8. one(Append(w, x)) /\ Range(Append(w, x)) = Range(w) \cup {x} /\ Append(w, x) \in Seq(Messages)
  BY <1>1, <1>3, <1>4, OneMore
<1>9. one(Append(Append(w, x), y)) /\ Range(Append(Append(w, x), y)) = Range(w) \cup {x, y}
  <2> DEFINE s == Append(w, x)
  <2>1. s \in Seq(Messages) /\ one(s) /\ Range(s) = Range(w) \cup {x}  BY <1>8
  <2> HIDE DEF s
  <2>2. one(Append(s, y)) /\ Range(Append(s, y)) = Range(s) \cup {y}
    BY <1>3, <2>1, OneMore
  <2> QED  BY <2>1, <2>2 DEF s
<1> HIDE DEF one
<1>a. wire' = wire \/ wire' = wire \o <<>> => OneReport' /\ Sent' = Sent
  BY <1>2, <1>3, <1>5, <1>6 DEF w
<1>b. wire' = Append(wire, y) \/ wire' = wire \o <<y>> => OneReport' /\ Sent' = Sent \cup {y}
  BY <1>2, <1>5, <1>6, <1>7 DEF w
<1>c. wire' = Append(wire, x) => OneReport' /\ Sent' = Sent \cup {x}
  BY <1>5, <1>6, <1>8 DEF w
<1>d. wire' = wire \o <<x, y>> => OneReport' /\ Sent' = Sent \cup {x, y}
  BY <1>2, <1>5, <1>6, <1>9 DEF w
<1> QED  BY <1>a, <1>b, <1>c, <1>d

-----------------------------------------------------------------------------
(* The server *)

(* How a step of the server moves the operation. *)
Moves ==
  /\ OneRequest' /\ OneReport' /\ Pending' \subseteq Pending
  /\ \/ (Doing' => Doing) /\ (Telling' => Telling)
     \/ Asked /\ ~Asked' /\ ~(Doing' /\ Telling')
     \/ Doing /\ ~Doing'
  /\ Doing' => Doing \/ \E r \in Pending : r.op = Cur /\ r.at = "operating"
  /\ \A m \in Sent' : m.kind = "report" =>
       m \in Sent \/ (Shaped(m) /\ (TellsOf(m) /\ m.parts # Refused => Doing))
  /\ \A m \in Answers' : m.at = "selecting" /\ ~m.bad /\ m.op = Cur =>
       m \in Answers \/ (Asked /\ ~Asked' /\ ~Doing' /\ ~Telling')

LEMMA Moved ==
  ASSUME TypeOK, IInv, TInv, Cur \in Nat \ {0}, Serves, Moves
  PROVE  TInv'
<1>1. UNCHANGED <<model, once, target, loop, refs, bad, rx, logs, outlived, Cur, Object>>
  BY DEF Serves, controlVars, ghosts, Cur, Object
<1>2. (Clean' <=> Clean) /\ (Hearing' <=> Hearing)
  BY <1>1 DEF Clean, Hearing
<1>3. /\ OneRequest /\ OneReport
      /\ Asked => ~Doing /\ ~Telling /\ ~Hearing
      /\ Doing => ~Telling /\ ~Hearing
      /\ Telling => ~Hearing
      /\ Unsent => ~Asked /\ ~Doing /\ ~Telling /\ ~Hearing
  BY DEF TInv, OnceInv
<1>4. Asked' => Asked
  BY <1>1 DEF Moves, Asked, Sends
<1>5. Unsent' => Unsent \/ (Asked /\ ~Asked' /\ ~Doing' /\ ~Telling')
  <2>1. CASE loop.at = "creating" \/ (loop.at = "selecting" /\ loop.ans = "yes")
    BY <2>1 DEF Unsent
  <2>2. ASSUME loop.at = "selecting", NEW m \in Answers', Now(m)', ~m.bad
        PROVE  Unsent \/ (Asked /\ ~Asked' /\ ~Doing' /\ ~Telling')
    <3>1. m.at = "selecting" /\ m.op = Cur /\ Now(m)  BY <1>1, <2>2 DEF Now
    <3>2. m \in Answers => Unsent  BY <2>2, <3>1 DEF Unsent
    <3> QED  BY <2>2, <3>1, <3>2 DEF Moves
  <2> QED  BY <1>1, <2>1, <2>2 DEF Unsent
<1>6. OnceInv'
  <2>1. \/ (Doing' => Doing) /\ (Telling' => Telling)
        \/ Asked /\ ~Asked' /\ ~(Doing' /\ Telling')
        \/ Doing /\ ~Doing'
    BY DEF Moves
  <2>2. /\ Asked' => ~Doing' /\ ~Telling' /\ ~Hearing'
        /\ Doing' => ~Telling' /\ ~Hearing'
        /\ Telling' => ~Hearing'
    BY <1>2, <1>3, <1>4, <2>1
  <2>3. Unsent' => ~Asked' /\ ~Doing' /\ ~Telling' /\ ~Hearing'
    <3>1. CASE Unsent
      <4>1. ~Asked /\ ~Doing /\ ~Telling /\ ~Hearing  BY <1>3, <3>1
      <4> QED  BY <1>2, <1>4, <2>1, <4>1
    <3>2. CASE Asked /\ ~Asked' /\ ~Doing' /\ ~Telling'  BY <1>2, <1>3, <3>2
    <3> QED  BY <1>5, <3>1, <3>2
  <2>4. OneRequest' /\ OneReport'  BY DEF Moves
  <2> QED  BY <2>2, <2>3, <2>4 DEF OnceInv
<1>7. ShapeInv'
  <2>1. \A m \in Sent' : m.kind = "report" => Shaped(m)
    BY DEF Moves, TInv, ShapeInv
  <2>2. /\ rx.parts \in {<<>>, Refused, Done} \/ (rx.parts = Failed /\ rx.bad)
        /\ rx.using => rx.parts # <<>>
    BY DEF TInv, ShapeInv
  <2> QED  BY <1>1, <2>1, <2>2 DEF ShapeInv
<1>8. ErrorInv'
  <2>1. SUFFICES ASSUME Clean'
        PROVE  /\ \A r \in Pending' : r.op = Cur /\ r.at = "operating" => Cur \notin bad
               /\ Doing' => Cur \notin bad
               /\ \A m \in Sent' : TellsOf(m) /\ m.parts # Refused => Cur \notin bad
               /\ Hearing /\ Cur \in refs =>
                    /\ rx.parts = Done => (Cur \in bad <=> rx.bad)
                    /\ rx.parts = Failed /\ rx.at = Cur /\ ~rx.using => Cur \in bad
    BY <1>1, <1>2 DEF ErrorInv, TellsOf, Refused, Done, Failed
  <2>2. /\ \A r \in Pending : r.op = Cur /\ r.at = "operating" => Cur \notin bad
        /\ Doing => Cur \notin bad
        /\ \A m \in Sent : TellsOf(m) /\ m.parts # Refused => Cur \notin bad
        /\ Hearing /\ Cur \in refs =>
             /\ rx.parts = Done => (Cur \in bad <=> rx.bad)
             /\ rx.parts = Failed /\ rx.at = Cur /\ ~rx.using => Cur \in bad
    BY <1>2, <2>1 DEF TInv, ErrorInv
  <2>3. Doing' => Cur \notin bad  BY <2>2 DEF Moves
  <2>4. \A m \in Sent' : TellsOf(m) /\ m.parts # Refused => Cur \notin bad
    BY <2>2 DEF Moves, TellsOf
  <2>5. Pending' \subseteq Pending  BY DEF Moves
  <2> QED  BY <2>2, <2>3, <2>4, <2>5
<1>9. LogInv'  BY <1>1 DEF TInv, LogInv, TerminationTold
<1> QED  BY <1>6, <1>7, <1>8, <1>9 DEF TInv

(* What is on its way of the last invocation, in the invariants. *)
LEMMA Known ==
  ASSUME TypeOK, IInv, TInv, Cur # 0
  PROVE  /\ Cur \in Nat \ {0} /\ OneRequest /\ OneReport
         /\ Asked => ~Doing /\ ~Telling /\ ~Hearing
         /\ Doing => ~Telling /\ ~Hearing
         /\ Telling => ~Hearing
         /\ Unsent => ~Asked /\ ~Doing /\ ~Telling /\ ~Hearing
<1>1. Cur \in Nat  BY Typed
<1> QED  BY <1>1 DEF TInv, OnceInv

(* The request the server takes is that of the last invocation or another. *)
LEMMA Served ==
  ASSUME TypeOK, IInv, TInv, toSrv # <<>>, toSrv' = Tail(toSrv), Serves
  PROVE  LET r == Head(toSrv) IN
         /\ Cur \in Nat \ {0} /\ Cur' = Cur
         /\ r \in Pending /\ r.op \in 1..Cur /\ r.at \in Stages /\ target[r.op] \in Objects
         /\ OneRequest' /\ Pending' \subseteq Pending
         /\ Sends(r) => Asked /\ ~Asked'
<1> DEFINE r == Head(toSrv)
<1>1. Cur' = Cur  BY DEF Serves, Cur
<1>2. Taken(r)  BY TakenFacts DEF IInv
<1>3. r \in Pending /\ r.op \in 1..Cur /\ target[r.op] \in Objects /\ Pending' \subseteq Pending /\ r.at \in Stages
  BY <1>2 DEF Taken, Requests
<1>4. Cur \in Nat /\ Cur # 0  BY <1>3, Typed
<1>5. OneRequest  BY <1>4, Known
<1>6. OneRequest' /\ (Sends(r) => Asked /\ ~Asked')  BY <1>1, <1>5, RequestTaken
<1> QED  BY <1>1, <1>3, <1>4, <1>6

(* The server answers a request, after a LastApplError perhaps, and begins *)
(* no operation.                                                           *)
LEMMA RequestAnswered ==
  ASSUME TypeOK, IInv, TInv, toSrv # <<>>, Serves,
         \A o \in Objects : srv'[o].op = srv[o].op,
         LET r == Head(toSrv) IN
         \/ \E ok \in BOOLEAN : Reply(<<Answer(r, ok)>>)
         \/ /\ r.at \in {"selecting", "operating"}
            /\ \E minus \in BOOLEAN : Reply(<<Error(r.op, minus), Answer(r, FALSE)>>)
  PROVE  TInv'
<1> DEFINE r == Head(toSrv)
<1>1. /\ toSrv' = Tail(toSrv)
      /\ \/ \E ok \in BOOLEAN : wire' = wire \o <<Answer(r, ok)>>
         \/ /\ r.at \in {"selecting", "operating"}
            /\ \E minus \in BOOLEAN : wire' = wire \o <<Error(r.op, minus), Answer(r, FALSE)>>
  BY DEF Reply
<1>2. /\ Cur \in Nat \ {0} /\ Cur' = Cur
      /\ r \in Pending /\ r.op \in 1..Cur /\ r.at \in Stages
      /\ OneRequest' /\ Pending' \subseteq Pending
      /\ Sends(r) => Asked /\ ~Asked'
  BY <1>1, Served
<1> HIDE DEF r
<1>3. /\ OneReport /\ (Asked => ~Doing /\ ~Telling /\ ~Hearing)
  BY <1>2, Known
<1>4. Doing' <=> Doing  BY <1>2 DEF Doing
<1>5. ASSUME NEW ok \in BOOLEAN
      PROVE  /\ Answer(r, ok) \in Messages /\ Answer(r, ok).kind = "answer"
             /\ Answer(r, ok).at = r.at /\ Answer(r, ok).op = r.op /\ Answer(r, ok).bad = ~ok
  <2>1. Answer(r, ok) = Answer([at |-> r.at, op |-> r.op], ok) /\ r.op \in Nat
    BY <1>2 DEF Answer
  <2>2. Answer(r, ok) \in Messages  BY <1>2, <2>1, Made
  <2> QED  BY <2>2 DEF Answer
<1>6. CASE \E ok \in BOOLEAN : wire' = wire \o <<Answer(r, ok)>>
  <2>1. PICK ok \in BOOLEAN : wire' = wire \o <<Answer(r, ok)>>  BY <1>6
  <2>2. OneReport' /\ Sent' = Sent \cup {Answer(r, ok)}
    <3> DEFINE y == Answer(r, ok)
    <3>1. y \in Messages /\ y.kind = "answer" /\ wire' = wire \o <<y>>  BY <1>5, <2>1
    <3>2. TellsOf(y) => FALSE  BY <3>1 DEF TellsOf
    <3> HIDE DEF y
    <3>3. OneReport' /\ Sent' = Sent \cup {y}  BY <1>2, <1>3, <3>1, <3>2, Spoken
    <3> QED  BY <3>3 DEF y
  <2>3. Telling' => Telling  BY <1>2, <1>5, <2>2 DEF Telling, TellsOf
  <2>4. \A m \in Answers' : m \in Answers \/ m = Answer(r, ok)  BY <2>2 DEF Answers
  <2>5. ASSUME NEW m \in Answers', m.at = "selecting", ~m.bad, m.op = Cur, m \notin Answers
        PROVE  Asked /\ ~Asked' /\ ~Doing' /\ ~Telling'
    <3>1. Sends(r)  BY <1>5, <2>4, <2>5 DEF Sends
    <3> QED  BY <1>2, <1>3, <1>4, <2>3, <3>1
  <2>6. \A m \in Sent' : m.kind = "report" => m \in Sent  BY <1>5, <2>2
  <2>7. Moves  BY <1>2, <1>4, <2>2, <2>3, <2>5, <2>6 DEF Moves
  <2> QED  BY <1>2, <2>7, Moved
<1>7. CASE /\ r.at \in {"selecting", "operating"}
           /\ \E minus \in BOOLEAN : wire' = wire \o <<Error(r.op, minus), Answer(r, FALSE)>>
  <2>1. PICK minus \in BOOLEAN : wire' = wire \o <<Error(r.op, minus), Answer(r, FALSE)>>  BY <1>7
  <2>2. /\ Error(r.op, minus) \in Messages /\ Error(r.op, minus).kind = "report"
        /\ Error(r.op, minus).op = r.op /\ Error(r.op, minus).parts = Refused
    <3>1. r.op \in Nat  BY <1>2
    <3>2. Error(r.op, minus) \in Messages  BY <1>2, <3>1, Made
    <3> QED  BY <3>2 DEF Error, Report, Refused
  <2>3. TellsOf(Error(r.op, minus)) => Asked /\ ~Asked' /\ ~Doing' /\ ~Telling
    <3>1. r.op = Cur => Sends(r)  BY <1>7 DEF Sends
    <3> QED  BY <1>2, <1>3, <1>4, <2>2, <3>1 DEF TellsOf
  <2>4. OneReport' /\ Sent' = Sent \cup {Error(r.op, minus), Answer(r, FALSE)}
    <3> DEFINE x == Error(r.op, minus)
               y == Answer(r, FALSE)
    <3>1. y \in Messages /\ y.kind = "answer" /\ x \in Messages /\ wire' = wire \o <<x, y>>
      BY <1>5, <2>1, <2>2
    <3>2. TellsOf(x) => ~Telling  BY <2>3
    <3> HIDE DEF x, y
    <3>3. OneReport' /\ Sent' = Sent \cup {x, y}  BY <1>2, <1>3, <3>1, <3>2, Spoken
    <3> QED  BY <3>3 DEF x, y
  <2>5. Answer(r, FALSE).kind = "answer" /\ Answer(r, FALSE).bad  BY <1>5
  <2>6. Telling' => Telling \/ TellsOf(Error(r.op, minus))
    BY <1>2, <2>4, <2>5 DEF Telling, TellsOf
  <2>7. \A m \in Answers' : m \in Answers \/ m.bad  BY <2>2, <2>4, <2>5 DEF Answers
  <2>8. \A m \in Sent' : m.kind = "report" => m \in Sent \/ (Shaped(m) /\ m.parts = Refused)
    BY <2>2, <2>4, <2>5 DEF Shaped
  <2>9. Moves  BY <1>2, <1>4, <2>3, <2>4, <2>6, <2>7, <2>8 DEF Moves
  <2> QED  BY <1>2, <2>9, Moved
<1> QED  BY <1>1, <1>6, <1>7

(* The entry of an object changes, its operation does not. *)
LEMMA SameOperation ==
  ASSUME TypeOK, NEW o \in Objects, NEW v, v.op = srv[o].op, srv' = [srv EXCEPT ![o] = v]
  PROVE  \A p \in Objects : srv'[p].op = srv[p].op
BY DEF TypeOK

LEMMA RequestSteps ==
  ASSUME TypeOK, IInv, TInv, ServeRead \/ ServeSelect \/ ServeOperate
  PROVE  TInv'
<1> DEFINE r == Head(toSrv)
           o == target[r.op]
<1>1. Serves /\ toSrv # <<>> /\ toSrv' = Tail(toSrv)
  BY DEF ServeRead, ServeSelect, ServeOperate, Serving, Reply
<1>2. /\ Cur \in Nat \ {0} /\ Cur' = Cur /\ r \in Pending /\ r.op \in 1..Cur /\ o \in Objects
      /\ OneRequest' /\ Pending' \subseteq Pending
      /\ Sends(r) => Asked /\ ~Asked'
  BY <1>1, Served
<1>3. /\ OneReport /\ (Asked => ~Doing /\ ~Telling /\ ~Hearing)
      /\ \A p \in Objects : srv[p].op # 0 <=> srv[p].state \in {"waiting", "executing"}
  <2>1. Cur # 0  BY <1>2
  <2> HIDE DEF r, o
  <2>2. OneReport /\ (Asked => ~Doing /\ ~Telling /\ ~Hearing)  BY <2>1, Known
  <2>3. \A p \in Objects : srv[p].op # 0 <=> srv[p].state \in {"waiting", "executing"}
    BY DEF IInv, RangeInv
  <2> QED  BY <2>2, <2>3
<1>4. Over(o).op = 0  BY <1>2, OverTyped
<1>5. CASE ServeRead
  <2>1. \E ok \in BOOLEAN : Reply(<<Answer(r, ok)>>)  BY <1>5 DEF ServeRead
  <2>2. UNCHANGED srv  BY <1>5 DEF ServeRead
  <2> QED  BY <1>1, <2>1, <2>2, RequestAnswered
<1>6. CASE ServeSelect
  <2>1. /\ r.at = "selecting"
        /\ \/ /\ srv[o].state = "ready"
              /\ srv' = [srv EXCEPT ![o] = [state |-> "selected", op |-> 0, sel |-> r.op, num |-> r.num]]
              /\ Reply(<<Answer(r, TRUE)>>)
           \/ /\ UNCHANGED srv
              /\ \/ \E minus \in BOOLEAN : Reply(<<Error(r.op, minus), Answer(r, FALSE)>>)
                 \/ Reply(<<Answer(r, FALSE)>>)
    BY <1>6 DEF ServeSelect, Serving
  <2>2. srv[o].state = "ready" => srv[o].op = 0  BY <1>2, <1>3
  <2>3. \A p \in Objects : srv'[p].op = srv[p].op
    <3>1. CASE UNCHANGED srv  BY <3>1
    <3>2. CASE srv' = [srv EXCEPT ![o] = [state |-> "selected", op |-> 0, sel |-> r.op, num |-> r.num]]
               /\ srv[o].state = "ready"
      <4> DEFINE v == [state |-> "selected", op |-> 0, sel |-> r.op, num |-> r.num]
      <4>1. v.op = srv[o].op /\ srv' = [srv EXCEPT ![o] = v]  BY <2>2, <3>2
      <4> HIDE DEF v, o
      <4> QED  BY <1>2, <4>1, SameOperation DEF o
    <3> QED  BY <2>1, <3>1, <3>2
  <2>4. TRUE \in BOOLEAN /\ FALSE \in BOOLEAN  OBVIOUS
  <2> QED  BY <1>1, <2>1, <2>3, <2>4, RequestAnswered
<1>7. CASE ServeOperate
  <2>1. /\ r.at = "operating"
        /\ \/ /\ Operable(o, r)
              /\ srv' = [srv EXCEPT ![o].state = "waiting", ![o].op = r.op]
              /\ Reply(<<>>)
           \/ /\ Operable(o, r)
              /\ srv' = [srv EXCEPT ![o] = Over(o)]
              /\ Reply(<<Answer(r, FALSE)>>)
           \/ /\ UNCHANGED srv
              /\ \/ \E minus \in BOOLEAN : Reply(<<Error(r.op, minus), Answer(r, FALSE)>>)
                 \/ Reply(<<Answer(r, FALSE)>>)
    BY <1>7 DEF ServeOperate, Serving
  <2>2. Operable(o, r) => srv[o].op = 0  BY <1>2, <1>3 DEF Operable
  <2>3. CASE /\ Operable(o, r)
             /\ srv' = [srv EXCEPT ![o].state = "waiting", ![o].op = r.op]
             /\ Reply(<<>>)
    <3>1. wire' = wire \o <<>>  BY <2>3 DEF Reply
    <3>2. OneReport' /\ Sent' = Sent
      <4>1. wire \o <<>> = wire  BY DEF TypeOK
      <4>2. wire' = wire  BY <3>1, <4>1
      <4> QED  BY <1>2, <1>3, <4>2 DEF OneReport, TellsOf, Sent
    <3>3. Doing' => Doing \/ r.op = Cur
      <4>1. \A p \in Objects : p # o => srv'[p] = srv[p]  BY <2>3 DEF TypeOK
      <4>2. srv'[o].op = r.op  BY <1>2, <2>3 DEF TypeOK
      <4> HIDE DEF o
      <4> QED  BY <1>2, <4>1, <4>2 DEF Doing
    <3>4. r.op = Cur => Sends(r)  BY <2>1 DEF Sends
    <3>5. Telling' <=> Telling  BY <1>2, <3>2 DEF Telling, TellsOf
    <3>6. Answers' = Answers  BY <3>2 DEF Answers
    <3>7. \/ (Doing' => Doing) /\ (Telling' => Telling)
          \/ Asked /\ ~Asked' /\ ~(Doing' /\ Telling')
      <4>1. CASE r.op = Cur
        <5>1. Asked /\ ~Asked' /\ ~Telling  BY <1>2, <1>3, <3>4, <4>1
        <5> QED  BY <3>5, <5>1
      <4>2. CASE r.op # Cur  BY <3>3, <3>5, <4>2
      <4> QED  BY <4>1, <4>2
    <3>8. Doing' => Doing \/ \E q \in Pending : q.op = Cur /\ q.at = "operating"
      BY <1>2, <2>1, <3>3
    <3>9. Moves  BY <1>2, <3>2, <3>6, <3>7, <3>8 DEF Moves
    <3> QED  BY <1>1, <1>2, <3>9, Moved
  <2>4. CASE /\ Operable(o, r)
             /\ srv' = [srv EXCEPT ![o] = Over(o)]
             /\ Reply(<<Answer(r, FALSE)>>)
    <3>1. \A p \in Objects : srv'[p].op = srv[p].op
      BY <1>2, <1>4, <2>2, <2>4, SameOperation
    <3>2. FALSE \in BOOLEAN  OBVIOUS
    <3> QED  BY <1>1, <2>4, <3>1, <3>2, RequestAnswered
  <2>5. CASE /\ UNCHANGED srv
             /\ \/ \E minus \in BOOLEAN : Reply(<<Error(r.op, minus), Answer(r, FALSE)>>)
                \/ Reply(<<Answer(r, FALSE)>>)
    <3>1. FALSE \in BOOLEAN  OBVIOUS
    <3> QED  BY <1>1, <2>1, <2>5, <3>1, RequestAnswered
  <2> QED  BY <2>1, <2>3, <2>4, <2>5
<1> QED  BY <1>5, <1>6, <1>7

(* What the server does by itself. *)
LEMMA EntrySteps ==
  ASSUME TypeOK, IInv, TInv, NEW o \in Objects, Execute(o) \/ Finish(o) \/ SelectionExpires(o)
  PROVE  TInv'
<1>1. /\ Serves /\ toSrv' = toSrv
  BY DEF Execute, Finish, SelectionExpires
<1>2. /\ srv[o].op \in 0..Cur /\ srv[o].sel \in 0..Cur
      /\ srv[o].op # 0 <=> srv[o].state \in {"waiting", "executing"}
      /\ srv[o].state = "selected" => srv[o].sel # 0
  BY DEF IInv, RangeInv
<1>3. srv[o].state \in {"waiting", "executing", "selected"}
  BY DEF Execute, Finish, SelectionExpires
<1>4. Cur \in Nat \ {0} /\ srv[o].op \in Nat  BY <1>2, <1>3, Typed
<1>5. Cur' = Cur /\ Pending' = Pending  BY <1>1 DEF Serves, Cur, Pending
<1>6. OneRequest /\ OneReport /\ (Doing => ~Telling /\ ~Hearing /\ ~Asked)
  <2>1. Cur # 0  BY <1>4
  <2> QED  BY <2>1, Known
<1>7. OneRequest'  BY <1>1, <1>5, <1>6 DEF OneRequest, Sends
<1>8. Over(o).op = 0  BY OverTyped
<1>9. /\ \A v : srv' = [srv EXCEPT ![o] = v] => srv'[o] = v /\ \A p \in Objects \ {o} : srv'[p] = srv[p]
      /\ srv[o] \in Entries
  BY DEF TypeOK, Entries
<1>10. srv'[o].op \in {srv[o].op, 0} /\ \A p \in Objects \ {o} : srv'[p] = srv[p]
  <2>1. CASE Execute(o)
    <3>1. PICK ok \in BOOLEAN :
            srv' = [srv EXCEPT ![o] = IF ok THEN [srv[o] EXCEPT !.state = "executing"] ELSE Over(o)]
      BY <2>1 DEF Execute, TypeOK
    <3>2. [srv[o] EXCEPT !.state = "executing"].op = srv[o].op  BY <1>9 DEF Entries
    <3> QED  BY <1>8, <1>9, <3>1, <3>2
  <2>2. CASE Finish(o)
    <3>1. srv' = [srv EXCEPT ![o] = Over(o)]  BY <2>2 DEF Finish
    <3> QED  BY <1>8, <1>9, <3>1
  <2>3. CASE SelectionExpires(o)
    <3>1. srv' = [srv EXCEPT ![o].state = "ready"]  BY <2>3 DEF SelectionExpires
    <3> QED  BY <3>1 DEF TypeOK
  <2> QED  BY <2>1, <2>2, <2>3
<1>11. Doing' => Doing  BY <1>4, <1>5, <1>10 DEF Doing
<1>12. CASE SelectionExpires(o)
  <2>1. wire' = wire  BY <1>12 DEF SelectionExpires
  <2>2. OneReport' /\ Sent' = Sent /\ Answers' = Answers /\ (Telling' <=> Telling)
    BY <1>5, <1>6, <2>1 DEF OneReport, TellsOf, Sent, Answers, Telling
  <2>3. Moves  BY <1>5, <1>7, <1>11, <2>2 DEF Moves
  <2> QED  BY <1>1, <1>4, <2>3, Moved
<1>13. CASE Execute(o)
  <2> DEFINE r == [at |-> "operating", op |-> srv[o].op]
  <2>1. PICK ok \in BOOLEAN : wire' = Append(wire, Answer(r, ok))  BY <1>13 DEF Execute
  <2> DEFINE y == Answer(r, ok)
  <2>2. "operating" \in Stages  BY DEF Stages
  <2>3. y \in Messages  BY <1>4, <2>2, Made
  <2>4. y.kind = "answer" /\ y.at = "operating"  BY DEF Answer
  <2>5. TellsOf(y) => FALSE  BY <2>4 DEF TellsOf
  <2>6. wire' = Append(wire, y)  BY <2>1
  <2> HIDE DEF y
  <2>7. OneReport' /\ Sent' = Sent \cup {y}  BY <1>5, <1>6, <2>3, <2>4, <2>5, <2>6, Spoken
  <2>8. Telling' => Telling  BY <1>5, <2>4, <2>7 DEF Telling, TellsOf
  <2>9. \A m \in Answers' : m \in Answers \/ m.at = "operating"  BY <2>4, <2>7 DEF Answers
  <2>10. \A m \in Sent' : m.kind = "report" => m \in Sent  BY <2>4, <2>7
  <2>11. Moves  BY <1>5, <1>7, <1>11, <2>7, <2>8, <2>9, <2>10 DEF Moves
  <2> QED  BY <1>1, <1>4, <2>11, Moved
<1>14. CASE Finish(o)
  <2>1. PICK minus \in BOOLEAN :
          wire' = IF ~Enhanced(o) THEN wire
                  ELSE Append(wire, Report(srv[o].op, minus, IF minus THEN Failed ELSE Done))
    BY <1>14 DEF Finish, Failed, Done
  <2> DEFINE x == Report(srv[o].op, minus, IF minus THEN Failed ELSE Done)
  <2>2. x \in Messages  BY <1>4, Made, "operating" \in Stages DEF Stages, Failed, Done
  <2>3. x.kind = "report" /\ x.op = srv[o].op /\ Shaped(x)  BY DEF Report, Shaped
  <2>4. wire' = wire \/ wire' = Append(wire, x)  BY <2>1
  <2> HIDE DEF x
  <2>5. TellsOf(x) => Doing /\ ~Doing'
    <3>1. srv[o].op = Cur => Doing  BY DEF Doing
    <3>2. srv'[o].op = 0
      <4>1. srv' = [srv EXCEPT ![o] = Over(o)]  BY <1>14 DEF Finish
      <4> QED  BY <1>8, <1>9, <4>1
    <3>3. srv[o].op = Cur => ~Doing'
      <4>1. SUFFICES ASSUME srv[o].op = Cur, NEW p \in Objects, srv'[p].op = Cur PROVE FALSE
        BY <1>5 DEF Doing
      <4>2. p # o /\ srv[p].op = Cur  BY <1>4, <1>10, <3>2, <4>1
      <4>3. target[Cur] = p /\ target[Cur] = o  BY <1>4, <4>1, <4>2 DEF IInv, RangeInv
      <4> QED  BY <4>2, <4>3
    <3> QED  BY <2>3, <3>1, <3>3 DEF TellsOf
  <2>6. OneReport' /\ (Sent' = Sent \/ Sent' = Sent \cup {x})
    <3>1. CASE wire' = wire
      BY <1>5, <1>6, <3>1 DEF OneReport, TellsOf, Sent
    <3>2. CASE wire' = Append(wire, x)
      <4>1. TellsOf(x) => ~Telling  BY <1>6, <2>5
      <4> DEFINE y == Answer([at |-> "operating", op |-> srv[o].op], TRUE)
      <4>2. y \in Messages  BY <1>4, Made, "operating" \in Stages DEF Stages
      <4>3. y.kind = "answer"  BY DEF Answer
      <4> HIDE DEF y
      <4> QED  BY <1>5, <1>6, <2>2, <3>2, <4>1, <4>2, <4>3, Spoken
    <3> QED  BY <2>4, <3>1, <3>2
  <2>7. Telling' => Telling \/ TellsOf(x)  BY <1>5, <2>6 DEF Telling, TellsOf
  <2>8. \A m \in Answers' : m \in Answers  BY <2>3, <2>6 DEF Answers
  <2>9. \A m \in Sent' : m.kind = "report" => m \in Sent \/ (Shaped(m) /\ (TellsOf(m) => Doing))
    BY <2>3, <2>5, <2>6
  <2>10. Moves  BY <1>5, <1>7, <1>11, <2>5, <2>6, <2>7, <2>8, <2>9 DEF Moves
  <2> QED  BY <1>1, <1>4, <2>10, Moved
<1> QED  BY <1>12, <1>13, <1>14

(* The connection is lost: what was on its way is gone, the server lets    *)
(* its operations end.                                                     *)
LEMMA LostStep ==
  ASSUME TypeOK, IInv, TInv, Lose
  PROVE  TInv'
<1>1. /\ UNCHANGED <<model, once, target, loop, refs, bad, rx, logs, outlived, Cur, Object>>
      /\ toSrv' = <<>> /\ wire' = <<>>
  BY DEF Lose, controlVars, ghosts, Cur, Object
<1>2. Pending' = {} /\ Sent' = {} /\ Answers' = {}  BY <1>1, Nothing DEF Pending, Sent, Answers
<1>3. ~Asked' /\ ~Telling'  BY <1>2 DEF Asked, Telling
<1>4. \A o \in Objects : srv'[o].op = 0
  <2>1. PICK gone \in SUBSET {o \in Objects : srv[o].sel # 0} :
          srv' = [o \in Objects |-> IF srv[o].op # 0 \/ o \in gone THEN Over(o) ELSE srv[o]]
    BY DEF Lose
  <2> QED  BY <2>1, OverTyped
<1>5. Cur # 0 => ~Doing'  BY <1>1, <1>4 DEF Doing
<1>6. OneRequest' /\ OneReport'  BY <1>1 DEF OneRequest, OneReport
<1>7. Unsent' => Unsent  BY <1>1, <1>2 DEF Unsent
<1>8. (Hearing' <=> Hearing) /\ (Clean' <=> Clean)  BY <1>1 DEF Hearing, Clean
<1>9. Unsent' /\ Cur # 0 => ~Hearing'  BY <1>7, <1>8, Known
<1>10. OnceInv'  BY <1>1, <1>3, <1>5, <1>6, <1>9 DEF OnceInv
<1>11. ShapeInv'  BY <1>1, <1>2 DEF TInv, ShapeInv
<1>12. ErrorInv'
  <2>1. Clean /\ Cur # 0 /\ Hearing /\ Cur \in refs =>
          /\ rx.parts = Done => (Cur \in bad <=> rx.bad)
          /\ rx.parts = Failed /\ rx.at = Cur /\ ~rx.using => Cur \in bad
    BY DEF TInv, ErrorInv
  <2>2. Cur' # 0 => ~Doing'  BY <1>1, <1>5
  <2> QED  BY <1>1, <1>2, <1>8, <2>1, <2>2 DEF ErrorInv, Done, Failed
<1>13. LogInv'  BY <1>1 DEF TInv, LogInv, TerminationTold
<1> QED  BY <1>10, <1>11, <1>12, <1>13 DEF TInv

-----------------------------------------------------------------------------
(* The receive thread *)

(* An answer is handed over or dropped. *)
LEMMA AnswerDelivered ==
  ASSUME TypeOK, IInv, TInv, Deliver
  PROVE  TInv'
<1> DEFINE m == Head(wire)
<1>1. /\ UNCHANGED <<model, once, target, srv, toSrv, refs, bad, rx, logs, outlived, Cur, Object, Pending>>
      /\ wire # <<>> /\ wire' = Tail(wire) /\ m.kind = "answer"
      /\ \/ loop' = loop
         \/ /\ m.op = Cur /\ m.at = loop.at
            /\ loop' = [loop EXCEPT !.ans = IF m.bad THEN "no" ELSE "yes"]
  BY DEF Deliver, serverVars, controlVars, ghosts, Cur, Object, Pending
<1>2. m \in Sent /\ Sent' \subseteq Sent  BY <1>1, MessageTaken
<1>3. m \in Answers /\ Answers' \subseteq Answers  BY <1>1, <1>2 DEF Answers
<1> HIDE DEF m
<1>4. loop \in [at : Stages \cup {"idle", "sleeping", "unlinking", "freeing"}, ans : {"none", "yes", "no"}]
  BY DEF TypeOK
<1>5. loop'.at = loop.at /\ (loop'.ans = "yes" => loop.ans = "yes" \/ (Now(m) /\ ~m.bad))
  BY <1>1, <1>4 DEF Now
<1>6. \A x : Now(x)' <=> Now(x)  BY <1>1, <1>5 DEF Now
<1>7. Unsent' => Unsent
  <2>1. CASE loop.at = "selecting" /\ loop'.ans = "yes"  BY <1>3, <1>5, <2>1 DEF Unsent
  <2>2. CASE loop.at = "selecting" /\ \E x \in Answers' : Now(x)' /\ ~x.bad
    BY <1>3, <1>6, <2>2 DEF Unsent
  <2> QED  BY <1>5, <2>1, <2>2 DEF Unsent
<1>8. /\ Hearing' <=> Hearing
      /\ Clean' <=> Clean
      /\ Asked' <=> Asked
      /\ Doing' <=> Doing
      /\ Telling' => Telling
  BY <1>1, <1>2 DEF Hearing, Clean, Asked, Sends, Doing, Telling, TellsOf
<1>9. Cur # 0 => OneRequest' /\ OneReport'
  <2>1. SUFFICES ASSUME Cur # 0 PROVE OneRequest' /\ OneReport'  OBVIOUS
  <2>2. OneRequest /\ OneReport  BY <2>1, Known
  <2>3. OneRequest'  BY <1>1, <2>2 DEF OneRequest, Sends
  <2>4. OneReport'  BY <1>1, <2>2, ReportTaken
  <2> QED  BY <2>3, <2>4
<1>10. OnceInv'
  <2>1. SUFFICES ASSUME Cur # 0
        PROVE  /\ OneRequest' /\ OneReport'
               /\ Asked' => ~Doing' /\ ~Telling' /\ ~Hearing'
               /\ Doing' => ~Telling' /\ ~Hearing'
               /\ Telling' => ~Hearing'
               /\ Unsent' => ~Asked' /\ ~Doing' /\ ~Telling' /\ ~Hearing'
    BY <1>1 DEF OnceInv
  <2>2. /\ Asked => ~Doing /\ ~Telling /\ ~Hearing
        /\ Doing => ~Telling /\ ~Hearing
        /\ Telling => ~Hearing
        /\ Unsent => ~Asked /\ ~Doing /\ ~Telling /\ ~Hearing
    BY <2>1, Known
  <2> QED  BY <1>7, <1>8, <1>9, <2>1, <2>2
<1>11. ShapeInv'
  <2>1. \A x \in Sent : x.kind = "report" => Shaped(x)  BY DEF TInv, ShapeInv
  <2>2. /\ rx.parts \in {<<>>, Refused, Done} \/ (rx.parts = Failed /\ rx.bad)
        /\ rx.using => rx.parts # <<>>
    BY DEF TInv, ShapeInv
  <2> QED  BY <1>1, <1>2, <2>1, <2>2 DEF ShapeInv
<1>12. ErrorInv'
  <2>1. Clean /\ Cur # 0 =>
          /\ \A r \in Pending : r.op = Cur /\ r.at = "operating" => Cur \notin bad
          /\ Doing => Cur \notin bad
          /\ \A x \in Sent : TellsOf(x) /\ x.parts # Refused => Cur \notin bad
          /\ Hearing /\ Cur \in refs =>
               /\ rx.parts = Done => (Cur \in bad <=> rx.bad)
               /\ rx.parts = Failed /\ rx.at = Cur /\ ~rx.using => Cur \in bad
    BY DEF TInv, ErrorInv
  <2> QED  BY <1>1, <1>2, <1>8, <2>1 DEF ErrorInv, TellsOf, Refused, Done, Failed
<1>13. LogInv'  BY <1>1 DEF TInv, LogInv, TerminationTold
<1> QED  BY <1>10, <1>11, <1>12, <1>13 DEF TInv

LEMMA Sequenced ==
  /\ Len(Refused) = 1 /\ Len(Done) = 1 /\ Len(Failed) = 2
  /\ Tail(Failed) = Done
  /\ Head(Refused) = "error" /\ Head(Done) = "termination" /\ Head(Failed) = "error"
  /\ Refused # Done /\ Refused # Failed /\ Done # Failed
  /\ Refused # <<>> /\ Done # <<>> /\ Failed # <<>>
BY DEF Refused, Done, Failed

(* The control of the last invocation has its reference only while it is   *)
(* in the list.                                                            *)
LEMMA Referenced ==
  ASSUME TypeOK, IInv, Cur \in refs
  PROVE  Cur \in linked /\ Cur \in live /\ Cur \in Nat /\ Cur # 0
<1>1. loop.at \in {"creating", "selecting", "operating", "reading", "idle", "sleeping", "unlinking", "freeing"}
  BY DEF TypeOK, Stages
<1>2. refs \subseteq live  BY DEF TypeOK
<1>3. loop.at \in {"selecting", "operating", "sleeping", "reading"}
  BY <1>1, <1>2 DEF IInv, ControlInv
<1>4. Cur # 0  BY <1>3 DEF IInv, RangeInv
<1> QED  BY <1>3, <1>4, Typed DEF IInv, ControlInv

LEMMA ReportHandled ==
  ASSUME TypeOK, IInv, TInv, TakeReport
  PROVE  TInv'
<1> DEFINE m == Head(wire)
<1>1. /\ UNCHANGED <<model, once, target, loop, srv, toSrv, refs, bad, logs, outlived, Cur, Object, Pending>>
      /\ wire # <<>> /\ wire' = Tail(wire) /\ m.kind = "report"
      /\ rx' = [Waiting EXCEPT !.op = m.op, !.bad = m.bad, !.parts = m.parts]
  BY DEF TakeReport, serverVars, controlVars, linkVars, ghosts, Cur, Object, Pending
<1>2. m \in Sent /\ Sent' \subseteq Sent  BY <1>1, MessageTaken
<1>3. Answers' \subseteq Answers  BY <1>2 DEF Answers
<1>4. rx'.op = m.op /\ rx'.bad = m.bad /\ rx'.parts = m.parts /\ rx'.at = 0 /\ ~rx'.using
  <2> HIDE DEF m
  <2> QED  BY <1>1 DEF Waiting
<1>5. Shaped(m)  BY <1>1, <1>2 DEF TInv, ShapeInv
<1>6. Cur \in Nat \ {0}
  <2>1. m.op \in 1..Cur  BY <1>2 DEF IInv, RangeInv
  <2> QED  BY <2>1, Typed
<1>7. /\ OneRequest /\ OneReport
      /\ Asked => ~Doing /\ ~Telling /\ ~Hearing
      /\ Doing => ~Telling /\ ~Hearing
      /\ Telling => ~Hearing
      /\ Unsent => ~Asked /\ ~Doing /\ ~Telling /\ ~Hearing
  BY <1>6, Known
<1>8. OneReport' /\ (Telling' => Telling) /\ (TellsOf(m) => Telling /\ ~Telling')
  BY <1>1, <1>7, ReportTaken
<1> HIDE DEF m
<1>9. OneRequest'  BY <1>1, <1>7 DEF OneRequest, Sends
<1>10. /\ Hearing' <=> TellsOf(m)
       /\ Clean' <=> Clean
       /\ Asked' <=> Asked
       /\ Doing' <=> Doing
       /\ Unsent' => Unsent
  <2>1. Hearing' <=> TellsOf(m)  BY <1>1, <1>4 DEF Hearing, TellsOf
  <2>2. /\ Clean' <=> Clean
        /\ Asked' <=> Asked
        /\ Doing' <=> Doing
    BY <1>1 DEF Clean, Asked, Sends, Doing
  <2>3. Unsent' => Unsent  BY <1>1, <1>3 DEF Unsent, Now
  <2> QED  BY <2>1, <2>2, <2>3
<1>11. OnceInv'
  <2>1. /\ Asked' => ~Doing' /\ ~Telling' /\ ~Hearing'
        /\ Doing' => ~Telling' /\ ~Hearing'
        /\ Telling' => ~Hearing'
        /\ Unsent' => ~Asked' /\ ~Doing' /\ ~Telling' /\ ~Hearing'
    BY <1>7, <1>8, <1>10
  <2> QED  BY <1>8, <1>9, <2>1 DEF OnceInv
<1>12. ShapeInv'
  <2>1. \A x \in Sent' : x.kind = "report" => Shaped(x)  BY <1>2 DEF TInv, ShapeInv
  <2>2. rx'.parts \in {<<>>, Refused, Done} \/ (rx'.parts = Failed /\ rx'.bad)
    BY <1>4, <1>5 DEF Shaped
  <2> QED  BY <1>4, <2>1, <2>2 DEF ShapeInv
<1>13. ErrorInv'
  <2>1. Clean /\ Cur # 0 =>
          /\ \A r \in Pending : r.op = Cur /\ r.at = "operating" => Cur \notin bad
          /\ Doing => Cur \notin bad
          /\ \A x \in Sent : TellsOf(x) /\ x.parts # Refused => Cur \notin bad
    BY DEF TInv, ErrorInv
  <2>2. Clean /\ TellsOf(m) /\ m.parts = Done => Cur \notin bad /\ ~m.bad
    BY <1>2, <1>5, <1>6, <2>1, Sequenced DEF Shaped
  <2>3. Clean /\ Hearing' => /\ rx'.parts = Done => (Cur \in bad <=> rx'.bad)
                           /\ rx'.at # Cur
    BY <1>4, <1>6, <1>10, <2>2
  <2> QED  BY <1>1, <1>2, <1>6, <1>10, <2>1, <2>3 DEF ErrorInv, TellsOf, Refused, Done, Failed
<1>14. LogInv'  BY <1>1 DEF TInv, LogInv, TerminationTold
<1> QED  BY <1>11, <1>12, <1>13, <1>14 DEF TInv

(* The thread goes through the list of controls.  Only what it does to the *)
(* control of the last invocation matters, and only for its own report as  *)
(* long as no earlier operation outlived its control.                      *)
LEMMA ListWalked ==
  ASSUME TypeOK, IInv, TInv, Step \/ Visit
  PROVE  TInv'
<1>1. UNCHANGED <<model, once, target, loop, srv, toSrv, wire, refs, linked, live, outlived,
                  Cur, Object, Pending, Sent, Answers>>
  BY DEF Step, Visit, serverVars, controlVars, linkVars, Cur, Object, Pending, Sent, Answers
<1>2. rx \in [op : Nat, bad : BOOLEAN, parts : Seq(Parts), at : Nat, using : BOOLEAN]
  BY DEF TypeOK
<1>3. /\ rx.op \in 0..Cur /\ rx.at \in 0..Cur
      /\ rx.op = 0 => rx.parts = <<>> /\ rx.at = 0
      /\ Cur \in Nat /\ linked \subseteq {Cur} /\ refs \subseteq {Cur}
  BY Typed DEF IInv, RangeInv, ControlInv
<1>4. /\ rx.parts \in {<<>>, Refused, Done} \/ (rx.parts = Failed /\ rx.bad)
      /\ rx.using => rx.parts # <<>>
      /\ \A x \in Sent : x.kind = "report" => Shaped(x)
  BY DEF TInv, ShapeInv
<1>5. rx.parts # <<>> /\ rx.op # 0
  <2>1. rx.parts # <<>>  BY <1>4 DEF Step, Visit
  <2> QED  BY <1>3, <2>1
<1>6. Cur \in Nat \ {0}  BY <1>3, <1>5
<1>7. /\ OneRequest /\ OneReport
      /\ Asked => ~Doing /\ ~Telling /\ ~Hearing
      /\ Doing => ~Telling /\ ~Hearing
      /\ Telling => ~Hearing
      /\ Unsent => ~Asked /\ ~Doing /\ ~Telling /\ ~Hearing
  BY <1>6, Known
<1>8. /\ Clean' <=> Clean
      /\ Asked' <=> Asked
      /\ Doing' <=> Doing
      /\ Telling' <=> Telling
      /\ Unsent' <=> Unsent
      /\ OneRequest' /\ OneReport'
  <2>1. (Clean' <=> Clean) /\ (Asked' <=> Asked) /\ (Doing' <=> Doing) /\ (Telling' <=> Telling)
    BY <1>1 DEF Clean, Asked, Sends, Doing, Telling, TellsOf
  <2>2. Unsent' <=> Unsent  BY <1>1 DEF Unsent, Now
  <2>3. OneRequest' /\ OneReport'  BY <1>1, <1>7 DEF OneRequest, OneReport, Sends, TellsOf
  <2> QED  BY <2>1, <2>2, <2>3
<1>9. Clean =>
        /\ \A r \in Pending : r.op = Cur /\ r.at = "operating" => Cur \notin bad
        /\ Doing => Cur \notin bad
        /\ \A x \in Sent : TellsOf(x) /\ x.parts # Refused => Cur \notin bad
        /\ Hearing /\ Cur \in refs =>
             /\ rx.parts = Done => (Cur \in bad <=> rx.bad)
             /\ rx.parts = Failed /\ rx.at = Cur /\ ~rx.using => Cur \in bad
  BY <1>6 DEF TInv, ErrorInv
<1>10. (\A l \in logs : l.ctl \in 1..Cur) /\ TerminationTold  BY DEF TInv, LogInv
<1>11. Hearing' => Hearing
  <2>1. CASE Visit  BY <1>1, <2>1 DEF Visit, Hearing
  <2>2. CASE Step
    <3>1. rx'.op \in {rx.op, 0}
      <4>1. CASE Beyond = {}
        <5>1. rx' = AfterList  BY <2>2, <4>1 DEF Step
        <5>2. rx' = Waiting \/ rx' = [rx EXCEPT !.parts = Tail(@), !.at = 0, !.using = FALSE]
          BY <5>1 DEF AfterList
        <5>3. CASE rx' = Waiting  BY <5>3 DEF Waiting
        <5>4. CASE rx' = [rx EXCEPT !.parts = Tail(@), !.at = 0, !.using = FALSE]  BY <1>2, <5>4
        <5> QED  BY <5>2, <5>3, <5>4
      <4>2. CASE Beyond # {}
        <5>1. PICK c \in Beyond : rx' = [rx EXCEPT !.at = c, !.using = TRUE]  BY <2>2, <4>2 DEF Step
        <5> QED  BY <1>2, <5>1
      <4> QED  BY <4>1, <4>2
    <3> QED  BY <1>1, <1>6, <3>1 DEF Hearing
  <2> QED  BY <2>1, <2>2
<1>12. OnceInv'
  <2>1. /\ Asked' => ~Doing' /\ ~Telling' /\ ~Hearing'
        /\ Doing' => ~Telling' /\ ~Hearing'
        /\ Telling' => ~Hearing'
        /\ Unsent' => ~Asked' /\ ~Doing' /\ ~Telling' /\ ~Hearing'
    BY <1>7, <1>8, <1>11
  <2> QED  BY <1>8, <2>1 DEF OnceInv
<1>13. CASE Step /\ Beyond = {}
  <2>1. rx' = AfterList /\ bad' = bad /\ logs' = logs  BY <1>13 DEF Step
  <2>2. Len(rx.parts) # 1 => rx.parts = Failed  BY <1>4, <1>5, Sequenced
  <2>3. \/ rx'.op = 0 /\ rx'.parts = <<>> /\ ~rx'.using
        \/ /\ rx.parts = Failed /\ rx'.parts = Done /\ rx'.bad = rx.bad /\ ~rx'.using
    <3>1. CASE Len(rx.parts) = 1  BY <2>1, <3>1 DEF AfterList, Waiting
    <3>2. CASE Len(rx.parts) # 1
      <4>1. rx' = [rx EXCEPT !.parts = Tail(@), !.at = 0, !.using = FALSE]
        BY <2>1, <3>2 DEF AfterList
      <4>2. rx'.parts = Tail(rx.parts) /\ rx'.bad = rx.bad /\ ~rx'.using  BY <1>2, <4>1
      <4> QED  BY <2>2, <3>2, <4>2, Sequenced
    <3> QED  BY <3>1, <3>2
  <2>4. ShapeInv'
    <3>1. rx'.parts \in {<<>>, Refused, Done} /\ ~rx'.using  BY <2>3
    <3> QED  BY <1>1, <1>4, <3>1 DEF ShapeInv
  <2>5. ErrorInv'
    <3>1. Clean /\ Hearing' /\ Cur \in refs => rx'.parts = Done /\ Cur \in bad /\ rx'.bad
      <4>1. SUFFICES ASSUME Clean, Hearing', Cur \in refs
                     PROVE  rx'.parts = Done /\ Cur \in bad /\ rx'.bad
        OBVIOUS
      <4>2. rx.parts = Failed /\ rx'.parts = Done /\ rx'.bad = rx.bad /\ rx.bad
        <5>1. rx'.op = Cur  BY <1>1, <4>1 DEF Hearing
        <5>2. rx.parts = Failed /\ rx'.parts = Done /\ rx'.bad = rx.bad  BY <1>6, <2>3, <5>1
        <5> QED  BY <1>4, <5>2, Sequenced
      <4>3. Cur \in linked  BY <4>1, Referenced
      <4>4. rx.at = Cur /\ ~rx.using
        <5>1. ~(Cur > rx.at)  BY <1>13, <4>3 DEF Beyond
        <5> QED  BY <1>3, <1>13, <5>1 DEF Step
      <4> QED  BY <1>9, <1>11, <4>1, <4>2, <4>4
    <3>2. rx'.parts = Done => rx'.parts # Failed  BY Sequenced
    <3> QED  BY <1>1, <1>8, <1>9, <2>1, <3>1, <3>2 DEF ErrorInv, TellsOf, Refused, Done, Failed
  <2>6. LogInv'  BY <1>1, <1>10, <2>1 DEF LogInv, TerminationTold
  <2> QED  BY <1>12, <2>4, <2>5, <2>6 DEF TInv
<1>14. CASE Step /\ Beyond # {}
  <2>1. PICK c \in Beyond : rx' = [rx EXCEPT !.at = c, !.using = TRUE]  BY <1>14 DEF Step
  <2>2. bad' = bad /\ logs' = logs  BY <1>14 DEF Step
  <2>3. rx'.parts = rx.parts /\ rx'.bad = rx.bad /\ rx'.using  BY <1>2, <2>1
  <2>4. ShapeInv'  BY <1>1, <1>4, <1>5, <2>3 DEF ShapeInv
  <2>5. ErrorInv'
    BY <1>1, <1>8, <1>9, <1>11, <2>2, <2>3 DEF ErrorInv, TellsOf, Refused, Done, Failed
  <2>6. LogInv'  BY <1>1, <1>10, <2>2 DEF LogInv, TerminationTold
  <2> QED  BY <1>12, <2>4, <2>5, <2>6 DEF TInv
<1>15. CASE Visit
  <2>1. rx'.op = rx.op /\ rx'.parts = rx.parts /\ rx'.bad = rx.bad /\ rx'.at = rx.at /\ ~rx'.using
    BY <1>2, <1>15 DEF Visit
  <2>2. ShapeInv'  BY <1>1, <1>4, <2>1 DEF ShapeInv
  <2>3. CASE rx.at \notin refs \cap live
    <3>1. bad' = bad /\ logs' = logs  BY <1>15, <2>3 DEF Visit
    <3>2. Cur \in refs => rx.at # Cur  BY <2>3, Referenced
    <3>3. ErrorInv'
      BY <1>1, <1>8, <1>9, <1>11, <2>1, <3>1, <3>2 DEF ErrorInv, TellsOf, Refused, Done, Failed
    <3>4. LogInv'  BY <1>1, <1>10, <3>1 DEF LogInv, TerminationTold
    <3> QED  BY <1>12, <2>2, <3>3, <3>4 DEF TInv
  <2>4. CASE rx.at \in refs \cap live
    <3>1. rx.at = Cur  BY <1>3, <2>4
    <3>2. /\ bad' = IF Matches(Cur) /\ Head(rx.parts) = "error"
                    THEN IF rx.bad THEN bad \cup {Cur} ELSE bad \ {Cur}
                    ELSE bad
          /\ logs' = IF Matches(Cur) /\ Head(rx.parts) = "termination" /\ Enhanced(target[Cur])
                     THEN logs \cup {[ctl |-> Cur, from |-> rx.op, says |-> Cur \in bad, was |-> rx.bad]}
                     ELSE logs
      BY <1>15, <2>4, <3>1 DEF Visit
    <3>3. Matches(Cur) /\ rx.op # Cur => \E e \in outlived : e < Cur /\ target[e] = Object
      <4>1. SUFFICES ASSUME Matches(Cur), rx.op # Cur
                     PROVE  rx.op \in outlived /\ rx.op < Cur /\ target[rx.op] = Object
        OBVIOUS
      <4>2. rx.op \in 1..Cur /\ rx.op < Cur  BY <1>3, <1>5, <4>1
      <4>3. Concerns(rx.op)  BY DEF Concerns
      <4>4. rx.op \in outlived  BY <4>1, <4>2, <4>3 DEF IInv, OutlivedInv
      <4> QED  BY <4>1, <4>2, <4>4 DEF Matches, Object
    <3>4. Clean /\ Matches(Cur) => Hearing  BY <3>3 DEF Clean, Hearing
    <3>5. ErrorInv'
      <4>1. SUFFICES ASSUME Clean
            PROVE  /\ \A r \in Pending : r.op = Cur /\ r.at = "operating" => Cur \notin bad'
                   /\ Doing => Cur \notin bad'
                   /\ \A x \in Sent : TellsOf(x) /\ x.parts # Refused => Cur \notin bad'
                   /\ Hearing /\ Cur \in refs =>
                        /\ rx.parts = Done => (Cur \in bad' <=> rx.bad)
                        /\ rx.parts = Failed => Cur \in bad'
        BY <1>1, <1>8, <1>11, <2>1 DEF ErrorInv, TellsOf, Refused, Done, Failed
      <4>2. CASE Hearing
        <5>1. ~Asked /\ ~Doing /\ ~Telling  BY <1>7, <4>2
        <5>2. \A r \in Pending : ~(r.op = Cur /\ r.at = "operating")  BY <5>1 DEF Asked, Sends
        <5>3. \A x \in Sent : ~TellsOf(x)  BY <5>1 DEF Telling
        <5>4. rx.parts = Done => bad' = bad  BY <3>2, Sequenced
        <5>5. Matches(Cur)  BY <4>2 DEF Hearing, Matches
        <5>6. rx.parts = Failed => Cur \in bad'
          <6>1. rx.parts = Failed => Head(rx.parts) = "error" /\ rx.bad  BY <1>4, Sequenced
          <6> QED  BY <3>2, <5>5, <6>1
        <5>7. Cur \in refs /\ rx.parts = Done => (Cur \in bad <=> rx.bad)  BY <1>9, <4>1, <4>2
        <5> QED  BY <5>1, <5>2, <5>3, <5>4, <5>6, <5>7
      <4>3. CASE ~Hearing
        <5>1. bad' = bad  BY <3>2, <3>4, <4>1, <4>3
        <5> QED  BY <1>9, <4>1, <4>3, <5>1
      <4> QED  BY <4>2, <4>3
    <3>6. LogInv'
      <4>1. \A l \in logs : l.ctl \in 1..Cur
                            /\ (\/ l.ctl = l.from /\ l.says = l.was
                                \/ \E e \in outlived : e < l.ctl /\ target[e] = target[l.ctl])
        BY <1>10 DEF TerminationTold
      <4>2. CASE logs' = logs  BY <1>1, <1>10, <4>2 DEF LogInv, TerminationTold
      <4>3. ASSUME Matches(Cur), Head(rx.parts) = "termination",
                   logs' = logs \cup {[ctl |-> Cur, from |-> rx.op, says |-> Cur \in bad, was |-> rx.bad]}
            PROVE  LogInv'
        <5> DEFINE l == [ctl |-> Cur, from |-> rx.op, says |-> Cur \in bad, was |-> rx.bad]
        <5>1. l.ctl \in 1..Cur  BY <1>6
        <5>2. \/ l.ctl = l.from /\ l.says = l.was
              \/ \E e \in outlived : e < l.ctl /\ target[e] = target[l.ctl]
          <6>1. CASE rx.op # Cur  BY <3>3, <4>3, <6>1 DEF Object
          <6>2. CASE ~Clean  BY <6>2 DEF Clean, Object
          <6>3. CASE rx.op = Cur /\ Clean
            <7>1. rx.parts = Done  BY <1>4, <1>5, <4>3, Sequenced
            <7>2. Hearing /\ Cur \in refs  BY <2>4, <3>1, <6>3 DEF Hearing
            <7>3. (Cur \in bad) = rx.bad  BY <1>2, <1>9, <6>3, <7>1, <7>2
            <7> QED  BY <6>3, <7>3
          <6> QED  BY <6>1, <6>2, <6>3
        <5> HIDE DEF l
        <5>3. logs' = logs \cup {l}  BY <4>3 DEF l
        <5>4. \A k \in logs' : k.ctl \in 1..Cur
                              /\ (\/ k.ctl = k.from /\ k.says = k.was
                                  \/ \E e \in outlived : e < k.ctl /\ target[e] = target[k.ctl])
          BY <4>1, <5>1, <5>2, <5>3
        <5> QED  BY <1>1, <5>4 DEF LogInv, TerminationTold
      <4> QED  BY <3>2, <4>2, <4>3
    <3> QED  BY <1>12, <2>2, <3>5, <3>6 DEF TInv
  <2> QED  BY <2>3, <2>4
<1> QED  BY <1>13, <1>14, <1>15

-----------------------------------------------------------------------------
(* The event loop *)

(* What a request makes of the last error of the control. *)
LEMMA Cleared ==
  ASSUME TypeOK, Created \/ Selected \/ Operated \/ Slept
  PROVE  /\ UNCHANGED logs
         /\ loop'.at \in {"selecting", "operating"} => bad' = bad \ {Cur}
         /\ loop'.at \notin {"selecting", "operating"} => bad' = bad
         /\ ~Created => refs' = refs
         /\ Created => loop.at = "creating"
<1>1. Operate => loop'.at = "operating" /\ bad' = bad \ {Cur}
  BY DEF Operate, Ask
<1>2. Select => loop'.at = "selecting" /\ bad' = bad \ {Cur}
  BY DEF Select, Ask
<1>3. ReadStatus => loop'.at = "reading" /\ bad' = bad
  BY DEF ReadStatus, Ask
<1>4. Conclude => loop'.at \in {"reading", "sleeping"} /\ bad' = bad
  BY <1>3 DEF Conclude
<1>5. Operate \/ Select \/ ReadStatus \/ Conclude
  BY DEF Created, Selected, Operated, Slept
<1>6. /\ UNCHANGED logs
      /\ ~Created => refs' = refs
      /\ Created => loop.at = "creating"
  BY DEF Created, Selected, Operated, Slept, Answered, At
<1> QED  BY <1>1, <1>2, <1>3, <1>4, <1>5, <1>6

(* The action asks for more: it operates and selects only what it has not  *)
(* yet operated.                                                           *)
LEMMA Asking ==
  ASSUME TypeOK, IInv, TInv, Created \/ Selected \/ Operated \/ Slept
  PROVE  TInv'
<1>1. /\ Cur \in Nat \ {0}
      /\ UNCHANGED <<model, once, target, rx, wire, srv, outlived, Cur, Object, Sent, Answers>>
      /\ loop'.at \in {"selecting", "operating", "reading", "sleeping"}
      /\ \A x \in Stages : Passed(x, loop.at) => Passed(x, loop'.at) /\ x # loop'.at
      /\ loop'.at = "selecting" => Created
      /\ loop'.at = "operating" => loop.ans = "yes" /\ loop.at \in {"creating", "selecting"}
  <2>1. Cur \in Nat \ {0} /\ UNCHANGED <<model, once, target, rx, wire, srv, outlived>>  BY Forward
  <2>2. /\ loop'.at \in {"selecting", "operating", "reading", "sleeping"}
        /\ \A x \in Stages : Passed(x, loop.at) => Passed(x, loop'.at) /\ x # loop'.at
    BY Forward
  <2>3. /\ loop'.at = "selecting" => Created
        /\ loop'.at = "operating" => loop.ans = "yes" /\ loop.at \in {"creating", "selecting"}
    BY Forward
  <2>4. UNCHANGED <<Cur, Object, Sent, Answers>>  BY <2>1 DEF Cur, Object, Sent, Answers
  <2> QED  BY <2>1, <2>2, <2>3, <2>4
<1>2. PICK q \in Requests : Goes(q)  BY Forward
<1>3. /\ logs' = logs
      /\ loop'.at \in {"selecting", "operating"} => bad' = bad \ {Cur}
      /\ loop'.at \notin {"selecting", "operating"} => bad' = bad
      /\ ~Created => refs' = refs
      /\ Created => loop.at = "creating"
  BY Cleared
<1>4. /\ OneRequest /\ OneReport
      /\ Asked => ~Doing /\ ~Telling /\ ~Hearing
      /\ Doing => ~Telling /\ ~Hearing
      /\ Telling => ~Hearing
      /\ Unsent => ~Asked /\ ~Doing /\ ~Telling /\ ~Hearing
  BY <1>1, Known
<1>5. loop'.at \in {"selecting", "operating"} \/ Created => Unsent
  BY <1>1, <1>3 DEF Unsent
<1>6. ~Unsent'
  <2>1. loop'.ans # "yes"  BY <1>2 DEF Goes
  <2>2. \A m \in Answers' : ~Now(m)'
    <3>1. SUFFICES ASSUME NEW m \in Answers, m.op = Cur, m.at = loop'.at PROVE FALSE
      BY <1>1 DEF Now
    <3>2. m.at \in Stages  BY Typed DEF Answers, Messages
    <3>3. Passed(m.at, loop.at)  BY <3>1 DEF IInv, RangeInv
    <3> QED  BY <1>1, <3>1, <3>2, <3>3
  <2> QED  BY <1>1, <2>1, <2>2 DEF Unsent
<1>7. /\ Clean' <=> Clean
      /\ Doing' <=> Doing
      /\ Telling' <=> Telling
      /\ Hearing' <=> Hearing
      /\ OneReport'
  BY <1>1, <1>4 DEF Clean, Doing, Telling, TellsOf, Hearing, OneReport
<1>8. /\ OneRequest' /\ (Asked' => Asked \/ Unsent)
      /\ \A r \in Pending' : r \in Pending \/ (r.at = loop'.at /\ loop'.at # "sleeping")
  <2>1. CASE toSrv' = toSrv /\ Pending' = Pending
    BY <1>1, <1>4, <2>1 DEF OneRequest, Sends, Asked
  <2>2. CASE Queued(q) /\ q.at = loop'.at /\ loop'.at # "sleeping"
    <3>1. /\ Pending' = Pending \cup {q} /\ DOMAIN toSrv' = 1..(Len(toSrv) + 1)
          /\ \A i \in DOMAIN toSrv : toSrv'[i] = toSrv[i]
          /\ toSrv'[Len(toSrv) + 1] = q
      BY <2>2 DEF Queued
    <3>2. DOMAIN toSrv = 1..Len(toSrv) /\ Len(toSrv) \in Nat  BY DEF TypeOK
    <3>3. Sends(q) => Unsent  BY <1>5, <2>2 DEF Sends
    <3>4. Unsent => \A i \in DOMAIN toSrv : ~Sends(toSrv[i])
      BY <1>4, Typed DEF Asked
    <3>5. \A i \in DOMAIN toSrv' : i \in DOMAIN toSrv \/ i = Len(toSrv) + 1
      BY <3>1, <3>2
    <3>6. OneRequest'
      <4>1. SUFFICES ASSUME NEW i \in DOMAIN toSrv', NEW j \in DOMAIN toSrv',
                            Sends(toSrv'[i]), Sends(toSrv'[j])
                     PROVE  i = j
        BY <1>1 DEF OneRequest, Sends
      <4>2. CASE Unsent
        <5>1. i \notin DOMAIN toSrv /\ j \notin DOMAIN toSrv  BY <3>1, <3>4, <4>1, <4>2
        <5> QED  BY <3>5, <5>1
      <4>3. CASE ~Unsent
        <5>1. i \in DOMAIN toSrv /\ j \in DOMAIN toSrv  BY <3>1, <3>3, <3>5, <4>1, <4>3
        <5> QED  BY <1>4, <3>1, <4>1, <5>1 DEF OneRequest
      <4> QED  BY <4>2, <4>3
    <3>7. Asked' => Asked \/ Sends(q)  BY <1>1, <3>1 DEF Asked, Sends
    <3> QED  BY <2>2, <3>1, <3>3, <3>6, <3>7
  <2> QED  BY <1>2, <2>1, <2>2 DEF Goes
<1>9. OnceInv'
  <2>1. CASE Unsent
    <3>1. ~Doing' /\ ~Telling' /\ ~Hearing'  BY <1>4, <1>7, <2>1
    <3> QED  BY <1>6, <1>7, <1>8, <3>1 DEF OnceInv
  <2>2. CASE ~Unsent
    <3>1. /\ Asked' => ~Doing' /\ ~Telling' /\ ~Hearing'
          /\ Doing' => ~Telling' /\ ~Hearing'
          /\ Telling' => ~Hearing'
      BY <1>4, <1>7, <1>8, <2>2
    <3> QED  BY <1>6, <1>7, <1>8, <3>1 DEF OnceInv
  <2> QED  BY <2>1, <2>2
<1>10. ShapeInv'  BY <1>1 DEF TInv, ShapeInv
<1>11. ErrorInv'
  <2>1. Clean =>
          /\ \A r \in Pending : r.op = Cur /\ r.at = "operating" => Cur \notin bad
          /\ Doing => Cur \notin bad
          /\ \A x \in Sent : TellsOf(x) /\ x.parts # Refused => Cur \notin bad
          /\ Hearing /\ Cur \in refs =>
               /\ rx.parts = Done => (Cur \in bad <=> rx.bad)
               /\ rx.parts = Failed /\ rx.at = Cur /\ ~rx.using => Cur \in bad
    BY <1>1 DEF TInv, ErrorInv
  <2>2. CASE Unsent
    <3>1. ~Asked /\ ~Doing' /\ ~Telling' /\ ~Hearing'  BY <1>4, <1>7, <2>2
    <3>2. \A x \in Sent' : ~TellsOf(x)'  BY <3>1 DEF Telling
    <3>3. \A r \in Pending' : r.op = Cur /\ r.at = "operating" => Cur \notin bad'
      <4>1. \A r \in Pending : ~(r.op = Cur /\ r.at = "operating")  BY <3>1 DEF Asked, Sends
      <4>2. loop'.at = "operating" => Cur \notin bad'  BY <1>3
      <4> QED  BY <1>8, <4>1, <4>2
    <3> QED  BY <1>1, <3>1, <3>2, <3>3 DEF ErrorInv
  <2>3. CASE ~Unsent
    <3>1. bad' = bad /\ refs' = refs /\ loop'.at \notin {"selecting", "operating"}
      BY <1>3, <1>5, <2>3
    <3>2. \A r \in Pending' : r.at = "operating" => r \in Pending  BY <1>8, <3>1
    <3> QED  BY <1>1, <1>7, <2>1, <3>1, <3>2 DEF ErrorInv, TellsOf, Refused, Done, Failed
  <2> QED  BY <2>2, <2>3
<1>12. LogInv'  BY <1>1, <1>3 DEF TInv, LogInv, TerminationTold
<1> QED  BY <1>9, <1>10, <1>11, <1>12 DEF TInv

(* A new invocation: nothing of it exists yet. *)
LEMMA Begun ==
  ASSUME TypeOK, IInv, TInv, NEW o \in Objects, Control(o)
  PROVE  TInv'
<1>1. /\ UNCHANGED <<srv, refs, bad, rx, wire, logs, outlived, Sent, Answers>>
      /\ target' = Append(target, o) /\ loop.at = "idle" /\ Ask("creating", Cur + 1, 0, FALSE)
  BY DEF Control, At, serverVars, controlVars, Sent, Answers
<1>2. Cur \in Nat /\ Cur' = Cur + 1 /\ \A e \in 1..Cur : target'[e] = target[e]
  <2>1. Cur \in Nat /\ Len(Append(target, o)) = Cur + 1
        /\ \A e \in 1..Cur : Append(target, o)[e] = target[e]
    BY Targets
  <2> QED  BY <1>1, <2>1 DEF Cur
<1>3. /\ loop'.at = "creating"
      /\ Pending' \subseteq Pending \cup {[at |-> "creating", op |-> Cur + 1, num |-> 0]}
  <2>1. "creating" \in Stages /\ FALSE \in BOOLEAN /\ Cur + 1 \in Nat /\ 0 \in Nat
    BY <1>2 DEF Stages
  <2>2. /\ loop'.at = "creating"
        /\ \/ Queued([at |-> "creating", op |-> Cur + 1, num |-> 0])
           \/ Pending' = Pending
    BY <1>1, <2>1, AskFacts
  <2> QED  BY <2>2 DEF Queued
<1>4. /\ \A r \in Pending : r.op \in 1..Cur
      /\ \A m \in Sent : m.op \in 1..Cur
      /\ \A p \in Objects : srv[p].op \in 0..Cur
      /\ rx.op \in 0..Cur
  BY DEF IInv, RangeInv
<1>5. \A r \in Pending' : ~(r.op = Cur' /\ r.at \in {"selecting", "operating"})
  <2>1. \A r \in Pending : r.op # Cur + 1  BY <1>2, <1>4
  <2> QED  BY <1>2, <1>3, <2>1
<1>6. /\ ~Asked'
      /\ \A m \in Sent' : ~TellsOf(m)'
      /\ ~Doing' /\ ~Hearing'
  <2>1. ~Asked'  BY <1>5 DEF Asked, Sends
  <2>2. \A m \in Sent' : m.op # Cur'  BY <1>1, <1>2, <1>4
  <2>3. ~Doing' /\ ~Hearing'  BY <1>1, <1>2, <1>4 DEF Doing, Hearing
  <2> QED  BY <2>1, <2>2, <2>3 DEF TellsOf
<1>7. ~Telling'  BY <1>6 DEF Telling
<1>8. OneRequest'
  <2>1. \A i \in DOMAIN toSrv' : toSrv'[i] \in Pending'  BY DEF Pending, Range
  <2> QED  BY <1>6, <2>1 DEF OneRequest, Asked
<1>9. OneReport'
  <2>1. \A i \in DOMAIN wire' : wire'[i] \in Sent'  BY DEF Sent, Range
  <2> QED  BY <1>6, <2>1 DEF OneReport
<1>10. OnceInv'  BY <1>6, <1>7, <1>8, <1>9 DEF OnceInv
<1>11. ShapeInv'  BY <1>1 DEF TInv, ShapeInv
<1>12. ErrorInv'  BY <1>5, <1>6 DEF ErrorInv
<1>13. LogInv'
  <2>1. \A l \in logs : l.ctl \in 1..Cur
                        /\ (\/ l.ctl = l.from /\ l.says = l.was
                            \/ \E e \in outlived : e < l.ctl /\ target[e] = target[l.ctl])
    BY DEF TInv, LogInv, TerminationTold
  <2>2. outlived \subseteq 1..Cur  BY DEF IInv, OutlivedInv
  <2>3. \A l \in logs : l.ctl \in 1..Cur'
                        /\ (\/ l.ctl = l.from /\ l.says = l.was
                            \/ \E e \in outlived : e < l.ctl /\ target'[e] = target'[l.ctl])
    BY <1>2, <2>1, <2>2
  <2> QED  BY <1>1, <2>3 DEF LogInv, TerminationTold
<1> QED  BY <1>10, <1>11, <1>12, <1>13 DEF TInv

(* The steps of the event loop that ask for nothing. *)
LEMMA Ending ==
  ASSUME TypeOK, IInv, TInv, CreateFailed \/ StatusRead \/ Unlink \/ Free \/ GiveUp
  PROVE  TInv'
<1>1. /\ UNCHANGED <<target, model, srv, rx, toSrv, wire, logs, Cur, Object, Pending, Sent, Answers>>
      /\ refs' \subseteq refs
      /\ outlived \subseteq outlived'
  BY DEF CreateFailed, StatusRead, Unlink, Free, GiveUp, serverVars, controlVars, linkVars, ghosts,
         Cur, Object, Pending, Sent, Answers
<1>2. Unsent' => Unsent
  <2>1. loop \in [at : Stages \cup {"idle", "sleeping", "unlinking", "freeing"},
                  ans : {"none", "yes", "no"}]
    BY DEF TypeOK
  <2>2. \/ loop'.at \in {"unlinking", "freeing", "idle"}
        \/ loop'.at = loop.at /\ (loop'.ans = "yes" => loop.ans = "yes")
    BY <2>1 DEF CreateFailed, StatusRead, Unlink, Free, GiveUp
  <2> QED  BY <1>1, <2>2 DEF Unsent, Now
<1>3. /\ bad' = bad \/ (bad' = bad \ {Cur} /\ Cur \notin refs)
      /\ Cur \in refs' => Cur \in refs
  <2>1. CASE Free
    <3>1. refs = {} /\ bad' = bad \ {Cur}  BY <2>1 DEF Free, At, IInv, ControlInv
    <3> QED  BY <1>1, <3>1
  <2>2. CASE CreateFailed \/ StatusRead \/ Unlink \/ GiveUp
    <3>1. bad' = bad  BY <2>2 DEF CreateFailed, StatusRead, Unlink, GiveUp
    <3> QED  BY <1>1, <3>1
  <2> QED  BY <2>1, <2>2
<1>4. /\ Clean' => Clean
      /\ Asked' <=> Asked
      /\ Doing' <=> Doing
      /\ Telling' <=> Telling
      /\ Hearing' <=> Hearing
      /\ OneRequest' <=> OneRequest
      /\ OneReport' <=> OneReport
  BY <1>1 DEF Clean, Asked, Sends, Doing, Telling, TellsOf, Hearing, OneRequest, OneReport
<1>5. OnceInv'
  <2>1. Cur # 0 =>
          /\ OneRequest /\ OneReport
          /\ Asked => ~Doing /\ ~Telling /\ ~Hearing
          /\ Doing => ~Telling /\ ~Hearing
          /\ Telling => ~Hearing
          /\ Unsent => ~Asked /\ ~Doing /\ ~Telling /\ ~Hearing
    BY DEF TInv, OnceInv
  <2> QED  BY <1>1, <1>2, <1>4, <2>1 DEF OnceInv
<1>6. ShapeInv'  BY <1>1 DEF TInv, ShapeInv
<1>7. ErrorInv'
  <2>1. Clean /\ Cur # 0 =>
          /\ \A r \in Pending : r.op = Cur /\ r.at = "operating" => Cur \notin bad
          /\ Doing => Cur \notin bad
          /\ \A x \in Sent : TellsOf(x) /\ x.parts # Refused => Cur \notin bad
          /\ Hearing /\ Cur \in refs =>
               /\ rx.parts = Done => (Cur \in bad <=> rx.bad)
               /\ rx.parts = Failed /\ rx.at = Cur /\ ~rx.using => Cur \in bad
    BY DEF TInv, ErrorInv
  <2>2. Cur \notin bad => Cur \notin bad'  BY <1>3
  <2>3. Cur \in refs' => bad' = bad /\ Cur \in refs  BY <1>3
  <2> QED  BY <1>1, <1>4, <2>1, <2>2, <2>3 DEF ErrorInv, TellsOf, Refused, Done, Failed
<1>8. LogInv'
  <2>1. \A l \in logs : l.ctl \in 1..Cur
                        /\ (\/ l.ctl = l.from /\ l.says = l.was
                            \/ \E e \in outlived : e < l.ctl /\ target[e] = target[l.ctl])
    BY DEF TInv, LogInv, TerminationTold
  <2> QED  BY <1>1, <2>1 DEF LogInv, TerminationTold
<1> QED  BY <1>5, <1>6, <1>7, <1>8 DEF TInv

-----------------------------------------------------------------------------
(* Theorems *)

LEMMA TStart == Init => TInv
<1> SUFFICES ASSUME Init PROVE TInv
  OBVIOUS
<1>1. target = <<>> /\ toSrv = <<>> /\ wire = <<>> /\ logs = {}  BY DEF Init
<1>2. Cur = 0 /\ Sent = {}  BY <1>1, Nothing DEF Cur, Sent
<1>3. rx.parts = <<>> /\ ~rx.using  BY DEF Init, Waiting
<1>4. OnceInv /\ ErrorInv  BY <1>2 DEF OnceInv, ErrorInv
<1>5. ShapeInv  BY <1>2, <1>3 DEF ShapeInv
<1>6. LogInv  BY <1>1 DEF LogInv, TerminationTold
<1> QED  BY <1>4, <1>5, <1>6 DEF TInv

LEMMA TPreserved == TypeOK /\ IInv /\ TInv /\ [Next]_vars => TInv'
<1> SUFFICES ASSUME TypeOK, IInv, TInv, [Next]_vars PROVE TInv'
  OBVIOUS
<1>1. ASSUME NEW o \in Objects, Control(o) PROVE TInv'  BY <1>1, Begun
<1>2. CASE Created \/ Selected \/ Operated \/ Slept  BY <1>2, Asking
<1>3. CASE CreateFailed \/ StatusRead \/ Unlink \/ Free \/ GiveUp  BY <1>3, Ending
<1>4. CASE ServeRead \/ ServeSelect \/ ServeOperate  BY <1>4, RequestSteps
<1>5. ASSUME NEW o \in Objects, Execute(o) \/ Finish(o) \/ SelectionExpires(o) PROVE TInv'
  BY <1>5, EntrySteps
<1>6. CASE Deliver  BY <1>6, AnswerDelivered
<1>7. CASE TakeReport  BY <1>7, ReportHandled
<1>8. CASE Step \/ Visit  BY <1>8, ListWalked
<1>9. CASE Lose  BY <1>9, LostStep
<1>10. CASE UNCHANGED vars
  <2>1. UNCHANGED <<model, once, srv, target, loop, num, refs, linked, live, bad, rx, toSrv, wire, up,
                    crashed, logs, doubt, outlived, touched>>
    BY <1>10 DEF vars, serverVars, controlVars, linkVars, ghosts
  <2>2. UNCHANGED <<Cur, Object, Pending, Sent, Answers>>
    BY <2>1 DEF Cur, Object, Pending, Sent, Answers
  <2>3. OnceInv'
    BY <2>1, <2>2 DEF TInv, OnceInv, OneRequest, OneReport, Asked, Sends, Doing, Telling, TellsOf,
                      Hearing, Unsent, Now
  <2>4. ShapeInv' /\ LogInv'
    BY <2>1, <2>2 DEF TInv, ShapeInv, LogInv, TerminationTold
  <2>5. ErrorInv'
    BY <2>1, <2>2 DEF TInv, ErrorInv, Clean, Doing, TellsOf, Hearing, Refused, Done, Failed
  <2> QED  BY <2>3, <2>4, <2>5 DEF TInv
<1> QED
  BY <1>1, <1>2, <1>3, <1>4, <1>5, <1>6, <1>7, <1>8, <1>9, <1>10 DEF Next

(* commandTerminationHandler logs the termination of the operation its     *)
(* control sent, with its outcome, unless an earlier operation on the same *)
(* object outlived its control.                                            *)
THEOREM TerminationsTold == Spec => []TerminationTold
<1>1. Init => TypeOK /\ IInv /\ TInv  BY Start, TStart
<1>2. TypeOK /\ IInv /\ TInv /\ [Next]_vars => (TypeOK /\ IInv /\ TInv)'
  BY Preserved, TPreserved
<1>3. TInv => TerminationTold  BY DEF TInv, LogInv
<1> QED  BY <1>1, <1>2, <1>3, PTL DEF Spec

(* An operation is in one place at most: in its request, in the server, in *)
(* a report on its way or in the report the receive thread handles.        *)
THEOREM OperationOnce == Spec => []OnceInv
<1>1. Init => TypeOK /\ IInv /\ TInv  BY Start, TStart
<1>2. TypeOK /\ IInv /\ TInv /\ [Next]_vars => (TypeOK /\ IInv /\ TInv)'
  BY Preserved, TPreserved
<1>3. TInv => OnceInv  BY DEF TInv
<1> QED  BY <1>1, <1>2, <1>3, PTL DEF Spec
=============================================================================
