--------------------------- MODULE DataSetsProofs ---------------------------
(***************************************************************************)
(* What DataSets guarantees for any data sets, members and bound: types,   *)
(* the inductive invariant, and with it that the tree mirrors the server,  *)
(* that prepared work is kept and that a node in use is not freed.         *)
(***************************************************************************)
EXTENDS DataSets, TLAPS

(* The outcomes a call can have, and what distinguishes them. *)
LEMMA Kinds ==
  /\ Nothing \in Outcomes /\ Refused \in Outcomes /\ NoAnswer \in Outcomes
  /\ \A d \in SUBSET (Names \cup Members) : Ok(d) \in Outcomes
  /\ Nothing.kind = "none" /\ Refused.kind = "refused" /\ NoAnswer.kind = "failed"
  /\ Nothing # Refused /\ Nothing # NoAnswer
  /\ \A d : Ok(d).kind = "ok" /\ Ok(d).data = d /\ Ok(d) # Nothing
BY DEF Nothing, Refused, NoAnswer, Ok, Outcomes

LEMMA HeadTail ==
  ASSUME toSrv \in Seq(Requests), toSrv # <<>>
  PROVE  /\ Asked \in Requests /\ Tail(toSrv) \in Seq(Requests)
         /\ Asked = toSrv[1] /\ 1 \in DOMAIN toSrv
         /\ Len(Tail(toSrv)) = Len(toSrv) - 1
         /\ \A i \in DOMAIN Tail(toSrv) : i + 1 \in DOMAIN toSrv /\ Tail(toSrv)[i] = toSrv[i + 1]
BY DEF Asked

(* A call appends its request or, without connection, fails. *)
LEMMA CallTypes ==
  ASSUME toSrv \in Seq(Requests), NEW op \in Ops, NEW n \in Names \cup {None},
         NEW mem \in SUBSET Members, Call(op, n, mem)
  PROVE  /\ toSrv' \in Seq(Requests)
         /\ loop' \in [op : Ops \cup {"idle"}, name : Names \cup {None}, ans : Outcomes]
         /\ loop'.op = op /\ loop'.name = n
         /\ loop'.ans = Nothing \/ (loop'.ans = NoAnswer /\ toSrv' = toSrv)
<1>1. [op |-> op, name |-> n, members |-> mem, late |-> FALSE] \in Requests  BY DEF Requests
<1>2. toSrv' \in Seq(Requests)  BY <1>1 DEF Call
<1>3. CASE up  BY <1>2, <1>3, Kinds DEF Call
<1>4. CASE ~up  BY <1>2, <1>4, Kinds DEF Call
<1> QED  BY <1>3, <1>4

LEMMA ReturnTypes ==
  ASSUME Return
  PROVE  loop' \in [op : Ops \cup {"idle"}, name : Names \cup {None}, ans : Outcomes]
BY Kinds DEF Return, Idle

-----------------------------------------------------------------------------
(* Types, action by action. *)

LEMMA TypeTree ==
  ASSUME TypeOK, NEW n \in Names,
         Prepare(n) \/ RemovePrep(n) \/ (\E e \in Members : AddMember(n, e) \/ RemoveMember(n, e))
           \/ Clear
  PROVE  TypeOK'
<1> USE DEF TypeOK, serverVars, linkVars, Contents
<1>1. CASE Prepare(n)  BY <1>1 DEF Prepare
<1>2. CASE RemovePrep(n)  BY <1>2 DEF RemovePrep
<1>3. ASSUME NEW e \in Members, AddMember(n, e) \/ RemoveMember(n, e) PROVE TypeOK'
  <2>1. prep[n] \in SUBSET Members  BY <1>3 DEF AddMember, RemoveMember
  <2> QED  BY <1>3, <2>1 DEF AddMember, RemoveMember
<1>4. CASE Clear
  <2>1. shown' \in [Names -> Contents] /\ prep' \in [Names -> Contents]  BY <1>4 DEF Clear
  <2>2. discovered' \in BOOLEAN /\ rcbSet' = None  BY <1>4 DEF Clear
  <2> QED  BY <1>4, <2>1, <2>2 DEF Clear
<1> QED  BY <1>1, <1>2, <1>3, <1>4

LEMMA TypeStart ==
  ASSUME TypeOK, NEW n \in Names, Create(n) \/ Remove(n) \/ SetDataSet(n) \/ Discover
  PROVE  TypeOK'
<1> USE DEF TypeOK, serverVars, treeVars
<1> {} \in SUBSET Members  OBVIOUS
<1>1. CASE Create(n)
  <2>1. prep[n] \in SUBSET Members /\ "create" \in Ops  BY <1>1 DEF Create, Contents, Ops
  <2>2. Call("create", n, prep[n])  BY <1>1 DEF Create
  <2>3. toSrv' \in Seq(Requests) /\ loop' \in [op : Ops \cup {"idle"}, name : Names \cup {None}, ans : Outcomes]
    BY <2>1, <2>2, CallTypes
  <2> QED  BY <1>1, <2>3 DEF Create
<1>2. CASE Remove(n)
  <2>1. Call("delete", n, {}) /\ "delete" \in Ops  BY <1>2 DEF Remove, Ops
  <2>2. toSrv' \in Seq(Requests) /\ loop' \in [op : Ops \cup {"idle"}, name : Names \cup {None}, ans : Outcomes]
    BY <2>1, CallTypes
  <2> QED  BY <1>2, <2>2 DEF Remove
<1>3. CASE SetDataSet(n)
  <2>1. Call("set", n, {}) /\ "set" \in Ops  BY <1>3 DEF SetDataSet, Ops
  <2>2. toSrv' \in Seq(Requests) /\ loop' \in [op : Ops \cup {"idle"}, name : Names \cup {None}, ans : Outcomes]
    BY <2>1, CallTypes
  <2> QED  BY <1>3, <2>2 DEF SetDataSet
<1>4. CASE Discover
  <2>1. "list" \in Ops  BY DEF Ops
  <2>2. Call("list", None, {}) =>
          /\ toSrv' \in Seq(Requests)
          /\ loop' \in [op : Ops \cup {"idle"}, name : Names \cup {None}, ans : Outcomes]
    BY <2>1, CallTypes
  <2>3. lost' \in SUBSET Names /\ discovered' \in BOOLEAN  BY <1>4 DEF Discover
  <2> QED  BY <1>4, <2>2, <2>3 DEF Discover
<1> QED  BY <1>1, <1>2, <1>3, <1>4

(* Fields of the loop and of requests. *)
LEMMA LoopFields ==
  ASSUME TypeOK
  PROVE  /\ loop.op \in Ops \cup {"idle"} /\ loop.name \in Names \cup {None}
         /\ loop.ans \in Outcomes /\ wire \in Outcomes
         /\ loop.ans.data \in SUBSET (Names \cup Members)
         /\ loop.ans.kind \in {"none", "ok", "refused", "failed"}
BY DEF TypeOK, Outcomes

(* When a call is done its answer is no longer on the way. *)
LEMMA DoneResult ==
  ASSUME TypeOK, IInv, NEW op, Done(op)
  PROVE  wire = Nothing /\ Result = loop.ans /\ loop.op = op /\ loop.ans # Nothing
BY Kinds DEF Done, IInv, QueueInv, Result

LEMMA TypeFinish ==
  ASSUME TypeOK, IInv, Created \/ Informed \/ Removed \/ DataSetSet \/ ReadBack \/ RcbRead
  PROVE  TypeOK'
<1> USE DEF TypeOK, serverVars, treeVars
<1> DEFINE Loops == [op : Ops \cup {"idle"}, name : Names \cup {None}, ans : Outcomes]
<1> {} \in SUBSET Members  OBVIOUS
<1>r. Return => loop' \in Loops /\ toSrv' = toSrv  BY ReturnTypes DEF Return
<1>1. CASE Created
  <2>1. loop.op = "create" /\ loop.name \in Names  BY <1>1 DEF Created, Done, IInv, LoopInv
  <2>2. lost' \in SUBSET Names  BY <1>1, <2>1 DEF Created, Doubt
  <2>3. "info" \in Ops  BY DEF Ops
  <2>4. Call("info", loop.name, {}) => toSrv' \in Seq(Requests) /\ loop' \in Loops
    BY <2>1, <2>3, CallTypes
  <2>5. toSrv' \in Seq(Requests) /\ loop' \in Loops  BY <1>1, <2>4, <1>r DEF Created
  <2> HIDE DEF Loops
  <2> QED  BY <1>1, <2>2, <2>5 DEF Created, Loops
<1>2. CASE Informed
  <2>1. loop.op = "info" /\ loop.name \in Names  BY <1>2 DEF Informed, Done, IInv, LoopInv
  <2>2. lost' \in SUBSET Names  BY <1>2, <2>1 DEF Informed
  <2>3. Good => loop.ans.data \in Contents
    <3>1. Done("info")  BY <1>2 DEF Informed
    <3>2. Good => loop.ans.data = srvSets[loop.name]  BY <3>1, <2>1, DoneResult DEF IInv, CallInv, Good
    <3> QED  BY <3>2, <2>1
  <2>4. shown' \in [Names -> Contents] /\ prep' \in [Names -> Contents]
    BY <1>2, <2>1, <2>3 DEF Informed, NewNode, Contents
  <2>5. toSrv' \in Seq(Requests) /\ loop' \in Loops  BY <1>2, <1>r DEF Informed
  <2> QED  BY <1>2, <2>2, <2>4, <2>5 DEF Informed
<1>3. CASE Removed
  <2>1. loop.op = "delete" /\ loop.name \in Names  BY <1>3 DEF Removed, Done, IInv, LoopInv
  <2>2. lost' \in SUBSET Names  BY <1>3, <2>1 DEF Removed, Doubt
  <2>3. shown' \in [Names -> Contents]  BY <1>3, <2>1 DEF Removed, Contents
  <2>5. toSrv' \in Seq(Requests) /\ loop' \in Loops  BY <1>3, <1>r DEF Removed
  <2> QED  BY <1>3, <2>2, <2>3, <2>5 DEF Removed
<1>4. CASE DataSetSet
  <2>3. "get" \in Ops  BY DEF Ops
  <2>4. Call("get", None, {}) => toSrv' \in Seq(Requests) /\ loop' \in Loops
    BY <2>3, CallTypes
  <2>5. toSrv' \in Seq(Requests) /\ loop' \in Loops  BY <1>4, <2>4, <1>r DEF DataSetSet
  <2> QED  BY <1>4, <2>5 DEF DataSetSet
<1>5. CASE ReadBack \/ RcbRead
  <2>1. Good => loop.ans.data \subseteq Names
    <3>1. PICK op \in {"get", "rcb"} : Done(op)  BY <1>5 DEF ReadBack, RcbRead
    <3> QED  BY <3>1, DoneResult DEF IInv, CallInv, Good
  <2>2. rcbSet' \in Names \cup {None}  BY <1>5, <2>1 DEF ReadBack, RcbRead
  <2>5. toSrv' \in Seq(Requests) /\ loop' \in Loops  BY <1>5, <1>r DEF ReadBack, RcbRead
  <2> QED  BY <1>5, <2>2, <2>5 DEF ReadBack, RcbRead
<1> QED  BY <1>1, <1>2, <1>3, <1>4, <1>5

LEMMA TypeDiscovery ==
  ASSUME TypeOK, IInv, Listed \/ Filled
  PROVE  TypeOK'
<1> USE DEF TypeOK, serverVars, treeVars
<1> DEFINE Loops == [op : Ops \cup {"idle"}, name : Names \cup {None}, ans : Outcomes]
<1> {} \in SUBSET Members  OBVIOUS
<1>1. "rcb" \in Ops /\ "fill" \in Ops  BY DEF Ops
<1>2. Call("rcb", None, {}) => toSrv' \in Seq(Requests) /\ loop' \in Loops  BY <1>1, CallTypes
<1>3. \A n \in Names : Call("fill", n, {}) => toSrv' \in Seq(Requests) /\ loop' \in Loops
  BY <1>1, CallTypes
<1>4. CASE Listed
  <2>1. Done("list")  BY <1>4 DEF Listed
  <2>2. Good => loop.ans.data \subseteq Names
    BY <2>1, DoneResult DEF IInv, CallInv, Good
  <2>3. toSrv' \in Seq(Requests) /\ loop' \in Loops  BY <1>2, <1>3, <1>4, <2>2 DEF Listed
  <2>4. todo' \in SUBSET Names /\ lost' \in SUBSET Names /\ crashed' \in BOOLEAN
    BY <1>4, <2>2 DEF Listed
  <2> QED  BY <1>4, <2>3, <2>4 DEF Listed
<1>5. CASE Filled
  <2>1. Done("fill")  BY <1>5 DEF Filled
  <2>2. loop.name \in Names  BY <2>1 DEF Done, IInv, LoopInv
  <2>3. Good => loop.ans.data = srvSets[loop.name]
    BY <2>1, DoneResult DEF IInv, CallInv, Good
  <2>4. shown' \in [Names -> Contents]  BY <1>5, <2>2, <2>3 DEF Filled, NewNode
  <2>5. lost' \in SUBSET Names /\ todo' \in SUBSET Names  BY <1>5, <2>2 DEF Filled
  <2>6. toSrv' \in Seq(Requests) /\ loop' \in Loops  BY <1>2, <1>3, <1>5, <2>5 DEF Filled
  <2> QED  BY <1>5, <2>4, <2>5, <2>6 DEF Filled
<1> QED  BY <1>4, <1>5

LEMMA RequestFields ==
  ASSUME TypeOK, toSrv # <<>>
  PROVE  /\ Asked.op \in Ops /\ Asked.name \in Names \cup {None}
         /\ Asked.members \in SUBSET Members /\ Asked.late \in BOOLEAN
BY HeadTail DEF TypeOK, Requests

(* A request that concerns a data set names one. *)
LEMMA AskedName ==
  ASSUME TypeOK, toSrv # <<>>, NamesInv,
         Asked.op \in {"create", "delete", "info", "fill", "set"}
  PROVE  Asked.name \in Names
BY HeadTail DEF NamesInv, TypeOK

LEMMA ReplyTypes ==
  ASSUME TypeOK, toSrv # <<>>, NEW a \in Outcomes, Reply(a),
         srvSets' \in [Names -> Contents], rc' \in [value : Names, uses : Names \cup {None}]
  PROVE  TypeOK'
<1>1. wire' \in Outcomes  BY DEF Reply, TypeOK
<1>2. toSrv' \in Seq(Requests)  BY HeadTail DEF Reply, TypeOK
<1> QED  BY <1>1, <1>2 DEF Reply, TypeOK, treeVars

LEMMA TypeServe ==
  ASSUME TypeOK, IInv, Serve
  PROVE  TypeOK'
<1>1. toSrv # <<>>  BY DEF Serve, ServeCreate, ServeDelete, ServeDirectory, ServeList, ServeSet, ServeGet, Serves
<1> USE DEF serverVars
<1>n. NamesInv  BY DEF IInv
<1>t. srvSets \in [Names -> Contents] /\ rc \in [value : Names, uses : Names \cup {None}]
  BY DEF TypeOK
<1>k. Refused \in Outcomes /\ Ok({}) \in Outcomes  BY Kinds
<1>2. CASE ServeCreate
  <2>1. Asked.name \in Names /\ Asked.members \in Contents
    BY <1>1, <1>2, <1>n, AskedName, RequestFields DEF ServeCreate, Serves, Contents
  <2>2. srvSets' \in [Names -> Contents] /\ rc' = rc  BY <1>2, <1>t, <2>1 DEF ServeCreate
  <2>3. Reply(Ok({})) \/ Reply(Refused)  BY <1>2 DEF ServeCreate
  <2> QED  BY <1>1, <1>t, <1>k, <2>2, <2>3, ReplyTypes
<1>3. CASE ServeDelete
  <2>2. srvSets' \in [Names -> Contents] /\ rc' = rc  BY <1>3, <1>t DEF ServeDelete, Contents
  <2>3. Reply(Ok({})) \/ Reply(Refused)  BY <1>3 DEF ServeDelete
  <2> QED  BY <1>1, <1>t, <1>k, <2>2, <2>3, ReplyTypes
<1>4. CASE ServeDirectory
  <2>1. Asked.name \in Names  BY <1>1, <1>4, <1>n, AskedName DEF ServeDirectory, Serves
  <2>2. srvSets[Asked.name] # None => Ok(srvSets[Asked.name]) \in Outcomes
    BY <2>1, <1>t, Kinds DEF Contents
  <2>3. PICK a \in Outcomes : Reply(a)  BY <1>4, <1>k, <2>2 DEF ServeDirectory
  <2> QED  BY <1>1, <1>4, <1>t, <2>3, ReplyTypes DEF ServeDirectory
<1>5. CASE ServeList
  <2>1. {n \in Names : srvSets[n] # None} \in SUBSET (Names \cup Members)  OBVIOUS
  <2>2. Ok({n \in Names : srvSets[n] # None}) \in Outcomes  BY <2>1, Kinds
  <2> QED  BY <1>1, <1>5, <1>t, <2>2, ReplyTypes DEF ServeList
<1>6. CASE ServeSet
  <2>1. Asked.name \in Names  BY <1>1, <1>6, <1>n, AskedName DEF ServeSet, Serves
  <2>2. [value |-> Asked.name, uses |-> Asked.name] \in [value : Names, uses : Names \cup {None}]
    BY <2>1
  <2>3. LetGo \in [value : Names, uses : Names \cup {None}]  BY <1>t DEF LetGo
  <2>4. rc' \in [value : Names, uses : Names \cup {None}]  BY <1>6, <1>t, <2>2, <2>3 DEF ServeSet
  <2>5. Reply(Ok({})) \/ Reply(Refused)  BY <1>6 DEF ServeSet
  <2>6. srvSets' = srvSets  BY <1>6 DEF ServeSet
  <2> QED  BY <1>1, <1>t, <1>k, <2>4, <2>5, <2>6, ReplyTypes
<1>7. CASE ServeGet
  <2>1. {rc.value} \in SUBSET (Names \cup Members)  BY <1>t
  <2>2. Ok({rc.value}) \in Outcomes  BY <2>1, Kinds
  <2> QED  BY <1>1, <1>7, <1>t, <2>2, ReplyTypes DEF ServeGet
<1> QED  BY <1>2, <1>3, <1>4, <1>5, <1>6, <1>7 DEF Serve

LEMMA LateTypes ==
  ASSUME toSrv \in Seq(Requests),
         toSrv' = [i \in DOMAIN toSrv |-> [toSrv[i] EXCEPT !.late = TRUE]]
  PROVE  /\ toSrv' \in Seq(Requests) /\ DOMAIN toSrv' = DOMAIN toSrv
         /\ \A i \in DOMAIN toSrv : /\ toSrv'[i].late = TRUE
                                    /\ toSrv'[i].op = toSrv[i].op
                                    /\ toSrv'[i].name = toSrv[i].name
<1>1. \A i \in DOMAIN toSrv : toSrv[i] \in Requests  OBVIOUS
<1>2. \A i \in DOMAIN toSrv : [toSrv[i] EXCEPT !.late = TRUE] \in Requests  BY <1>1 DEF Requests
<1>3. toSrv' \in Seq(Requests) /\ DOMAIN toSrv' = DOMAIN toSrv  BY <1>2
<1>4. ASSUME NEW i \in DOMAIN toSrv
      PROVE  /\ toSrv'[i].late = TRUE /\ toSrv'[i].op = toSrv[i].op
             /\ toSrv'[i].name = toSrv[i].name
  BY <1>1, <1>4 DEF Requests
<1> QED  BY <1>3, <1>4

LEMMA TypeLink ==
  ASSUME TypeOK, Deliver \/ Expire \/ Lose \/ Report \/ Reported
  PROVE  TypeOK'
<1> USE DEF TypeOK, serverVars, treeVars, linkVars
<1> DEFINE Loops == [op : Ops \cup {"idle"}, name : Names \cup {None}, ans : Outcomes]
<1>1. [loop EXCEPT !.ans = NoAnswer] \in Loops /\ [loop EXCEPT !.ans = wire] \in Loops  BY Kinds
<1>2. CASE Deliver  BY <1>1, <1>2, Kinds DEF Deliver
<1>3. CASE Expire  BY <1>1, <1>3, Kinds, LateTypes DEF Expire
<1>4. CASE Lose
  <2>1. up' = FALSE /\ toSrv' = <<>> /\ wire' \in Outcomes  BY <1>4, Kinds DEF Lose
  <2>2. loop' \in Loops  BY <1>1, <1>4 DEF Lose
  <2>3. <<>> \in Seq(Requests)  OBVIOUS
  <2>4. up' \in BOOLEAN /\ toSrv' \in Seq(Requests)  BY <2>1, <2>3
  <2> QED  BY <1>4, <2>1, <2>2, <2>4 DEF Lose
<1>5. CASE Report \/ Reported  BY <1>5 DEF Report, Reported
<1> QED  BY <1>2, <1>3, <1>4, <1>5

LEMMA TypeStep ==
  ASSUME TypeOK, IInv, [Next]_vars
  PROVE  TypeOK'
<1>1. CASE UNCHANGED vars
  BY <1>1 DEF TypeOK, vars, serverVars, treeVars, linkVars
<1>2. ASSUME NEW n \in Names, Edit(n) PROVE TypeOK'  BY <1>2, TypeTree, TypeStart DEF Edit
<1>n. Rcb0 \in Names  BY DataSetsAssumption DEF DataSetsAssumption
<1>3. CASE Clear  BY <1>3, <1>n, TypeTree
<1>4. CASE Discover  BY <1>4, <1>n, TypeStart
<1>5. CASE Created \/ Informed \/ Removed \/ DataSetSet \/ ReadBack \/ RcbRead  BY <1>5, TypeFinish
<1>6. CASE Listed \/ Filled  BY <1>6, TypeDiscovery
<1>7. CASE Serve  BY <1>7, TypeServe
<1>8. CASE Deliver \/ Expire \/ Lose \/ Report \/ Reported  BY <1>8, TypeLink
<1> QED  BY <1>1, <1>2, <1>3, <1>4, <1>5, <1>6, <1>7, <1>8 DEF Next

-----------------------------------------------------------------------------
(* The queue. *)

LEMMA AllLate ==
  ASSUME TypeOK, IInv, loop.op = "idle" \/ loop.ans.kind # "none"
  PROVE  wire = Nothing /\ Result = loop.ans /\ \A i \in DOMAIN toSrv : toSrv[i].late
<1>1. wire = Nothing
  BY Kinds DEF IInv, QueueInv, LoopInv
<1>2. Result = loop.ans  BY <1>1 DEF Result
<1>3. ASSUME NEW i \in DOMAIN toSrv, ~toSrv[i].late PROVE FALSE
  <2>1. toSrv[i] \in Requests  BY DEF TypeOK
  <2>2. toSrv[i].op \in Ops  BY <2>1 DEF Requests
  <2>3. toSrv[i].op = loop.op /\ Result = Nothing  BY <1>3 DEF IInv, QueueInv
  <2> QED  BY <1>2, <2>2, <2>3, Kinds DEF Ops
<1> QED  BY <1>1, <1>2, <1>3

(* A new request goes behind late ones. *)
LEMMA CallQueue ==
  ASSUME toSrv \in Seq(Requests), \A i \in DOMAIN toSrv : toSrv[i].late, NamesInv,
         wire = Nothing, wire' = wire,
         NEW op \in Ops, NEW n \in Names \cup {None}, NEW mem \in SUBSET Members,
         Call(op, n, mem),
         op = "create" => mem = prep'[n],
         op \in {"create", "delete", "info", "fill", "set"} => n \in Names
  PROVE  /\ QueueInv' /\ NamesInv'
         /\ Result' = loop'.ans /\ Result'.kind \in {"none", "failed"}
         /\ \A i \in DOMAIN toSrv' :
              \/ i \in DOMAIN toSrv /\ toSrv'[i] = toSrv[i]
              \/ ~toSrv'[i].late /\ toSrv'[i].op = op
<1> DEFINE q == [op |-> op, name |-> n, members |-> mem, late |-> FALSE]
<1>1. q.op = op /\ q.name = n /\ q.members = mem /\ q.late = FALSE  OBVIOUS
<1>2. loop'.op = op /\ loop'.name = n  BY CallTypes
<1>3. Result' = loop'.ans  BY DEF Result
<1>4. Result'.kind \in {"none", "failed"}  BY <1>3, CallTypes, Kinds
<1>5. CASE up
  <2>1. toSrv' = Append(toSrv, q) /\ loop'.ans = Nothing  BY <1>5 DEF Call
  <2>2. Len(toSrv') = Len(toSrv) + 1 /\ DOMAIN toSrv' = 1 .. Len(toSrv) + 1  BY <2>1
  <2>3. \A i \in DOMAIN toSrv : toSrv'[i] = toSrv[i]  BY <2>1
  <2>4. toSrv'[Len(toSrv) + 1] = q  BY <2>1
  <2> HIDE DEF q
  <2>5. \A i \in DOMAIN toSrv' : i \in DOMAIN toSrv \/ i = Len(toSrv')  BY <2>2
  <2>6. QueueInv'  BY <1>1, <1>2, <1>3, <1>4, <2>1, <2>2, <2>3, <2>4, <2>5 DEF QueueInv, Told
  <2>7. NamesInv'  BY <1>1, <2>2, <2>3, <2>4, <2>5 DEF NamesInv
  <2> QED  BY <1>1, <1>3, <1>4, <2>2, <2>3, <2>4, <2>5, <2>6, <2>7
<1>6. CASE ~up
  <2>1. toSrv' = toSrv /\ loop'.ans = NoAnswer  BY <1>6 DEF Call
  <2> QED  BY <1>3, <1>4, <2>1, Kinds DEF QueueInv, NamesInv, Told
<1> QED  BY <1>5, <1>6

LEMMA ReturnQueue ==
  ASSUME \A i \in DOMAIN toSrv : toSrv[i].late, NamesInv, wire = Nothing, wire' = wire, Return
  PROVE  /\ QueueInv' /\ NamesInv'
         /\ toSrv' = toSrv /\ loop' = Idle
         /\ loop'.op = "idle" /\ loop'.name = None /\ loop'.ans = Nothing
<1>1. toSrv' = toSrv /\ loop' = Idle  BY DEF Return
<1>2. loop'.op = "idle" /\ loop'.name = None /\ loop'.ans = Nothing  BY <1>1 DEF Idle
<1>3. Result' = Nothing  BY <1>2 DEF Result
<1> QED  BY <1>1, <1>2, <1>3, Kinds DEF QueueInv, NamesInv, Told

-----------------------------------------------------------------------------
(* The invariant, by kind of step. *)

(* Preparing data sets touches only prep, and only while nothing is awaited. *)
LEMMA TreeStep ==
  ASSUME TypeOK, IInv, NEW n \in Names,
         Prepare(n) \/ RemovePrep(n) \/ (\E e \in Members : AddMember(n, e) \/ RemoveMember(n, e))
  PROVE  IInv'
<1>1. loop.op = "idle" /\ discovered /\ shown[n] = None /\ todo = {}
  BY DEF Prepare, RemovePrep, AddMember, RemoveMember, Ready, Taken, IInv, TreeInv, LoopInv
<1>2. UNCHANGED <<serverVars, shown, discovered, loop, todo, toSrv, wire, lost>>
  BY DEF Prepare, RemovePrep, AddMember, RemoveMember, linkVars
<1>3. Result' = Result  BY <1>2 DEF Result
<1>4. \A m \in Names : m # n => prep'[m] = prep[m]
  BY DEF Prepare, RemovePrep, AddMember, RemoveMember, TypeOK
<1>5. QueueInv' /\ NamesInv' /\ LateInv' /\ LoopInv'
  BY <1>1, <1>2, <1>3 DEF IInv, QueueInv, NamesInv, LateInv, LoopInv, Told, Failing
<1>6. TreeInv'  BY <1>1, <1>2, <1>4 DEF IInv, TreeInv
<1>7. CallInv'  BY <1>1, <1>2 DEF CallInv
<1>8. MirrorInv'  BY <1>1, <1>2, <1>3 DEF IInv, MirrorInv, Settling, serverVars
<1> QED  BY <1>5, <1>6, <1>7, <1>8 DEF IInv

LEMMA ClearStep ==
  ASSUME TypeOK, IInv, Clear
  PROVE  IInv'
<1>1. loop.op = "idle"  BY DEF Clear, Ready
<1>2. UNCHANGED <<serverVars, loop, todo, toSrv, wire, lost>>  BY DEF Clear, linkVars
<1>3. Result' = Result  BY <1>2 DEF Result
<1>4. QueueInv' /\ NamesInv' /\ LateInv' /\ LoopInv'
  BY <1>1, <1>2, <1>3 DEF IInv, QueueInv, NamesInv, LateInv, LoopInv, Told, Failing
<1>5. TreeInv' /\ MirrorInv'  BY <1>1, <1>2 DEF Clear, TreeInv, MirrorInv
<1>6. CallInv'  BY <1>1, <1>2 DEF CallInv
<1> QED  BY <1>4, <1>5, <1>6 DEF IInv

(* Calls start from rest, where every data set is mirrored or in doubt. *)
LEMMA AtRest ==
  ASSUME TypeOK, IInv, Ready
  PROVE  /\ wire = Nothing /\ loop.ans = Nothing /\ todo = {}
         /\ \A i \in DOMAIN toSrv : toSrv[i].late
         /\ \A i \in DOMAIN toSrv : toSrv[i].op \in {"create", "delete"} => toSrv[i].name \in lost
         /\ discovered => \A n \in Names : n \notin lost => shown[n] = srvSets[n]
<1>1. loop.op = "idle" /\ loop = Idle  BY DEF Ready, IInv, LoopInv
<1>2. wire = Nothing /\ loop.ans = Nothing /\ todo = {}
  BY <1>1 DEF IInv, LoopInv, Idle
<1>3. \A i \in DOMAIN toSrv : toSrv[i].late  BY <1>1, AllLate
<1>4. \A i \in DOMAIN toSrv : toSrv[i].op \in {"create", "delete"} => toSrv[i].name \in lost
  BY <1>2, <1>3, Kinds DEF IInv, LateInv, Failing
<1>5. discovered => \A n \in Names : n \notin lost => shown[n] = srvSets[n]
  BY <1>1, <1>2 DEF IInv, MirrorInv, Settling
<1> QED  BY <1>2, <1>3, <1>4, <1>5

LEMMA StartStep ==
  ASSUME TypeOK, IInv, NEW n \in Names, Create(n) \/ Remove(n) \/ SetDataSet(n)
  PROVE  IInv'
<1> DEFINE op == IF Create(n) THEN "create" ELSE IF Remove(n) THEN "delete" ELSE "set"
           mem == IF Create(n) THEN prep[n] ELSE {}
<1>1. Ready /\ UNCHANGED <<serverVars, shown, prep, discovered, todo, wire, lost>>
  BY DEF Create, Remove, SetDataSet, treeVars
<1>2. Call(op, n, mem)  BY DEF Create, Remove, SetDataSet
<1>3. mem \in SUBSET Members  BY DEF Create, TypeOK, Contents
<1>4. op \in {"create", "delete", "set"} /\ op \in Ops  BY DEF Ops
<1>5. op = "create" => prep[n] # None /\ prep[n] # {} /\ mem = prep[n]  BY DEF Create
<1>6. op = "delete" => shown[n] # None  BY DEF Remove
<1> HIDE DEF op, mem
<1>7. /\ wire = Nothing /\ todo = {} /\ toSrv \in Seq(Requests)
      /\ \A i \in DOMAIN toSrv : toSrv[i].late
  BY <1>1, AtRest DEF TypeOK
<1>8. loop'.op = op /\ loop'.name = n  BY <1>2, <1>3, <1>4, <1>7, CallTypes
<1>9. /\ QueueInv' /\ NamesInv'
      /\ Result' = loop'.ans /\ Result'.kind \in {"none", "failed"}
      /\ \A i \in DOMAIN toSrv' :
           \/ i \in DOMAIN toSrv /\ toSrv'[i] = toSrv[i]
           \/ ~toSrv'[i].late /\ toSrv'[i].op = op
  BY <1>1, <1>2, <1>3, <1>4, <1>5, <1>7, CallQueue DEF IInv
<1>10. LateInv'  BY <1>1, <1>9, AtRest DEF LateInv
<1>11. LoopInv'  BY <1>1, <1>4, <1>7, <1>8 DEF LoopInv
<1>12. TreeInv'  BY <1>1, <1>4, <1>8 DEF IInv, TreeInv
<1>13. CallInv'
  BY <1>1, <1>4, <1>5, <1>6, <1>8, <1>9 DEF IInv, TreeInv, CallInv
<1>14. MirrorInv'  BY <1>1, AtRest DEF MirrorInv, serverVars
<1> QED  BY <1>9, <1>10, <1>11, <1>12, <1>13, <1>14 DEF IInv

LEMMA DiscoverStep ==
  ASSUME TypeOK, IInv, Discover
  PROVE  IInv'
<1>1. /\ Ready /\ ~discovered /\ discovered'
      /\ UNCHANGED <<serverVars, shown, prep, todo, wire>>
  BY DEF Discover
<1>2. \A n \in Names : shown[n] = None /\ prep[n] = None  BY <1>1 DEF IInv, TreeInv
<1>3. /\ wire = Nothing /\ todo = {} /\ toSrv \in Seq(Requests)
      /\ \A i \in DOMAIN toSrv : toSrv[i].late
  BY <1>1, AtRest DEF TypeOK
<1>4. CASE Call("list", None, {}) /\ UNCHANGED lost
  <2>1. "list" \in Ops /\ {} \in SUBSET Members  BY DEF Ops
  <2>2. loop'.op = "list" /\ loop'.name = None  BY <1>3, <1>4, <2>1, CallTypes
  <2>3. /\ QueueInv' /\ NamesInv'
        /\ Result' = loop'.ans /\ Result'.kind \in {"none", "failed"}
        /\ \A i \in DOMAIN toSrv' :
             \/ i \in DOMAIN toSrv /\ toSrv'[i] = toSrv[i]
             \/ ~toSrv'[i].late /\ toSrv'[i].op = "list"
    BY <1>1, <1>3, <1>4, <2>1, CallQueue DEF IInv
  <2>4. LateInv'  BY <1>1, <1>4, <2>3, AtRest DEF LateInv
  <2>5. LoopInv' /\ TreeInv' /\ MirrorInv'  BY <1>1, <1>2, <1>3, <2>2 DEF LoopInv, TreeInv, MirrorInv
  <2>6. CallInv'  BY <2>2, <2>3 DEF CallInv
  <2> QED  BY <2>3, <2>4, <2>5, <2>6 DEF IInv
<1>5. CASE UNCHANGED <<loop, toSrv>> /\ lost' = Names
  <2>1. loop.op = "idle" /\ Result' = Result  BY <1>1, <1>5 DEF Ready, Result
  <2>2. QueueInv' /\ NamesInv' /\ LoopInv'
    BY <1>1, <1>5, <2>1 DEF IInv, QueueInv, NamesInv, LoopInv, Told
  <2>3. LateInv'  BY <1>5 DEF IInv, NamesInv, LateInv
  <2>4. TreeInv' /\ MirrorInv' /\ CallInv'
    BY <1>1, <1>2, <1>5, <2>1 DEF TreeInv, MirrorInv, CallInv
  <2> QED  BY <2>2, <2>3, <2>4 DEF IInv
<1> QED  BY <1>4, <1>5 DEF Discover

(* What holds when an action takes up the outcome of its call. *)
LEMMA AtAnswer ==
  ASSUME TypeOK, IInv, NEW op, Done(op)
  PROVE  /\ wire = Nothing /\ Result = loop.ans /\ loop.op = op
         /\ toSrv \in Seq(Requests) /\ \A i \in DOMAIN toSrv : toSrv[i].late
         /\ loop.ans.kind \in {"ok", "refused", "failed"}
         /\ Good \/ loop.ans.kind = "refused" => toSrv = <<>>
         /\ \A i \in DOMAIN toSrv : toSrv[i].op \in {"create", "delete"} =>
              toSrv[i].name \in lost \/ (loop.op = toSrv[i].op /\ toSrv[i].name = loop.name)
<1>1. wire = Nothing /\ Result = loop.ans /\ loop.op = op  BY DoneResult
<1>2. loop.ans.kind \in {"ok", "refused", "failed"}  BY LoopFields DEF Done
<1>3. \A i \in DOMAIN toSrv : toSrv[i].late  BY AllLate DEF Done
<1>4. Good \/ loop.ans.kind = "refused" => toSrv = <<>>
  BY <1>1 DEF Good, IInv, QueueInv, Told
<1>5. \A i \in DOMAIN toSrv : toSrv[i].op \in {"create", "delete"} =>
         toSrv[i].name \in lost \/ (loop.op = toSrv[i].op /\ toSrv[i].name = loop.name)
  BY <1>3 DEF IInv, LateInv, Failing
<1> QED  BY <1>1, <1>2, <1>3, <1>4, <1>5 DEF TypeOK

LEMMA CreatedStep ==
  ASSUME TypeOK, IInv, Created
  PROVE  IInv'
<1> DEFINE n == loop.name
<1>1. Done("create") /\ UNCHANGED <<serverVars, shown, prep, discovered, todo, wire>>
  BY DEF Created, treeVars
<1>2. n \in Names /\ todo = {} /\ prep[n] # None /\ loop.op = "create"
  BY <1>1 DEF Done, IInv, LoopInv, CallInv
<1>3. shown[n] = None  BY <1>2 DEF IInv, TreeInv
<1>4. lost \subseteq lost' /\ (loop.ans.kind = "failed" => n \in lost')
  BY DEF Created, Doubt
<1>5. \A m \in Names : discovered /\ m # n /\ m \notin lost' => shown[m] = srvSets[m]
  BY <1>2, <1>4 DEF IInv, MirrorInv, Settling
<1>6. CASE Good
  <2>1. Call("info", n, {})  BY <1>6 DEF Created
  <2>2. toSrv = <<>> /\ srvSets[n] = prep[n]
    BY <1>1, <1>2, <1>6, AtAnswer DEF Good, IInv, CallInv
  <2>3. "info" \in Ops /\ {} \in SUBSET Members  BY DEF Ops
  <2>4. loop'.op = "info" /\ loop'.name = n  BY <1>1, <1>2, <2>1, <2>3, AtAnswer, CallTypes
  <2>5. /\ QueueInv' /\ NamesInv'
        /\ Result' = loop'.ans /\ Result'.kind \in {"none", "failed"}
        /\ \A i \in DOMAIN toSrv' :
             \/ i \in DOMAIN toSrv /\ toSrv'[i] = toSrv[i]
             \/ ~toSrv'[i].late /\ toSrv'[i].op = "info"
    BY <1>1, <1>2, <2>1, <2>3, AtAnswer, CallQueue DEF IInv
  <2>6. \A i \in DOMAIN toSrv' : toSrv'[i].op = "info"  BY <2>2, <2>5
  <2>7. LateInv' /\ LoopInv'  BY <1>1, <1>2, <2>4, <2>6 DEF LateInv, LoopInv
  <2>8. TreeInv'  BY <1>1, <2>4 DEF IInv, TreeInv
  <2>9. CallInv'  BY <1>1, <1>2, <2>2, <2>4, <2>5, <2>6 DEF CallInv, serverVars
  <2>10. MirrorInv'  BY <1>1, <1>5, <2>4 DEF MirrorInv, Settling, serverVars
  <2> QED  BY <2>5, <2>7, <2>8, <2>9, <2>10 DEF IInv
<1>7. CASE ~Good
  <2>1. Return  BY <1>7 DEF Created
  <2>2. /\ QueueInv' /\ NamesInv' /\ toSrv' = toSrv /\ loop' = Idle
        /\ loop'.op = "idle" /\ loop'.name = None /\ loop'.ans = Nothing
    BY <1>1, <2>1, AtAnswer, ReturnQueue DEF IInv
  <2>3. \A i \in DOMAIN toSrv : toSrv[i].op \in {"create", "delete"} => toSrv[i].name \in lost'
    <3>1. toSrv = <<>> \/ loop.ans.kind = "failed"  BY <1>1, <1>7, AtAnswer DEF Good
    <3> QED  BY <1>1, <1>4, <3>1, AtAnswer
  <2>4. LateInv' /\ LoopInv'  BY <1>1, <1>2, <2>2, <2>3, AtAnswer DEF LateInv, LoopInv
  <2>5. TreeInv' /\ CallInv'  BY <1>1, <2>2 DEF IInv, TreeInv, CallInv
  <2>6. discovered /\ n \notin lost' => shown[n] = srvSets[n]
    <3>1. loop.ans.kind = "refused" \/ n \in lost'  BY <1>1, <1>4, <1>7, AtAnswer DEF Good
    <3>2. loop.ans.kind = "refused" => ~Settling(n)  BY <1>1, <1>2, AtAnswer DEF Settling
    <3> QED  BY <1>2, <1>4, <3>1, <3>2 DEF IInv, MirrorInv
  <2>7. MirrorInv'  BY <1>1, <1>5, <2>2, <2>6 DEF MirrorInv, serverVars
  <2> QED  BY <2>2, <2>4, <2>5, <2>7 DEF IInv
<1> QED  BY <1>6, <1>7

LEMMA InformedStep ==
  ASSUME TypeOK, IInv, Informed
  PROVE  IInv'
<1> DEFINE n == loop.name
<1>1. Done("info") /\ Return /\ UNCHANGED <<serverVars, discovered, todo, wire>>
  BY DEF Informed
<1>2. n \in Names /\ todo = {} /\ prep[n] # None /\ loop.op = "info"
  BY <1>1 DEF Done, IInv, LoopInv, CallInv
<1>3. shown[n] = None /\ discovered  BY <1>2 DEF IInv, TreeInv
<1>4. Good => loop.ans.data = srvSets[n]
  BY <1>1, <1>2, DoneResult DEF Good, IInv, CallInv
<1>5. /\ Good => shown' = [shown EXCEPT ![n] = srvSets[n]] /\ prep' = [prep EXCEPT ![n] = None]
      /\ ~Good => shown' = shown /\ prep' = prep
  BY <1>3, <1>4 DEF Informed, NewNode
<1>6. Good => shown'[n] = srvSets[n] /\ prep'[n] = None
  BY <1>2, <1>5 DEF TypeOK
<1>7. \A m \in Names : m # n => shown'[m] = shown[m] /\ prep'[m] = prep[m]
  BY <1>5 DEF TypeOK
<1>8. /\ QueueInv' /\ NamesInv' /\ toSrv' = toSrv /\ loop' = Idle
      /\ loop'.op = "idle" /\ loop'.name = None /\ loop'.ans = Nothing
  BY <1>1, AtAnswer, ReturnQueue DEF IInv
<1>9. \A i \in DOMAIN toSrv : toSrv[i].op = "info"  BY <1>2 DEF IInv, CallInv
<1>10. LateInv' /\ LoopInv'  BY <1>1, <1>2, <1>8, <1>9, AtAnswer DEF LateInv, LoopInv
<1>11. TreeInv'  BY <1>1, <1>3, <1>5, <1>6, <1>7, <1>8 DEF IInv, TreeInv
<1>12. CallInv'  BY <1>8 DEF CallInv
<1>13. MirrorInv'
  <2>1. ASSUME NEW m \in Names, m \notin lost' PROVE shown'[m] = srvSets[m]
    <3>1. CASE m = n  BY <1>6, <2>1, <3>1 DEF Informed
    <3>2. CASE m # n
      <4>1. m \notin lost /\ ~Settling(m)  BY <2>1, <3>2 DEF Informed, Settling
      <4> QED  BY <1>2, <1>3, <1>7, <3>2, <4>1 DEF IInv, MirrorInv
    <3> QED  BY <3>1, <3>2
  <2> QED  BY <1>1, <2>1 DEF MirrorInv, serverVars
<1> QED  BY <1>8, <1>10, <1>11, <1>12, <1>13 DEF IInv

LEMMA RemovedStep ==
  ASSUME TypeOK, IInv, Removed
  PROVE  IInv'
<1> DEFINE n == loop.name
<1>1. Done("delete") /\ Return /\ UNCHANGED <<serverVars, prep, discovered, todo, wire>>
  BY DEF Removed
<1>2. n \in Names /\ todo = {} /\ prep[n] = None /\ loop.op = "delete"
  BY <1>1 DEF Done, IInv, LoopInv, CallInv
<1>3. Good => srvSets[n] = None /\ toSrv = <<>>
  BY <1>1, <1>2, AtAnswer DEF Good, IInv, CallInv
<1>4. shown' = IF Good THEN [shown EXCEPT ![n] = None] ELSE shown  BY DEF Removed
<1>5. (Good => shown'[n] = None) /\ \A m \in Names : m # n \/ ~Good => shown'[m] = shown[m]
  BY <1>2, <1>4 DEF TypeOK
<1>6. \A m \in Names : m \in lost /\ m # n => m \in lost'  BY DEF Removed, Doubt
<1>7. ~Good => lost \subseteq lost' /\ (loop.ans.kind = "failed" => n \in lost')
  BY DEF Removed, Doubt
<1>8. /\ QueueInv' /\ NamesInv' /\ toSrv' = toSrv /\ loop' = Idle
      /\ loop'.op = "idle" /\ loop'.name = None /\ loop'.ans = Nothing
  BY <1>1, AtAnswer, ReturnQueue DEF IInv
<1>9. \A i \in DOMAIN toSrv : toSrv[i].op \in {"create", "delete"} => toSrv[i].name \in lost'
  <2>1. toSrv = <<>> \/ loop.ans.kind = "failed"  BY <1>1, AtAnswer DEF Good
  <2>2. loop.ans.kind = "failed" => ~Good  BY DEF Good
  <2> QED  BY <1>1, <1>7, <2>1, <2>2, AtAnswer
<1>10. LateInv' /\ LoopInv'  BY <1>1, <1>2, <1>8, <1>9, AtAnswer DEF LateInv, LoopInv
<1>11. TreeInv'  BY <1>1, <1>2, <1>5, <1>8 DEF IInv, TreeInv
<1>12. CallInv'  BY <1>8 DEF CallInv
<1>13. MirrorInv'
  <2>1. ASSUME NEW m \in Names, m \notin lost', discovered PROVE shown'[m] = srvSets[m]
    <3>1. CASE m = n /\ Good  BY <1>3, <1>5, <3>1
    <3>2. CASE m = n /\ ~Good
      <4>1. loop.ans.kind = "refused" /\ m \notin lost
        BY <1>1, <1>7, <2>1, <3>2, AtAnswer DEF Good
      <4>2. ~Settling(m)  BY <1>1, <1>2, <4>1, AtAnswer DEF Settling
      <4> QED  BY <1>2, <1>5, <2>1, <3>2, <4>1, <4>2 DEF IInv, MirrorInv
    <3>3. CASE m # n
      <4>1. m \notin lost /\ ~Settling(m)  BY <1>6, <2>1, <3>3 DEF Settling
      <4> QED  BY <1>2, <1>5, <2>1, <3>3, <4>1 DEF IInv, MirrorInv
    <3> QED  BY <3>1, <3>2, <3>3
  <2> QED  BY <1>1, <2>1 DEF MirrorInv, serverVars
<1> QED  BY <1>8, <1>10, <1>11, <1>12, <1>13 DEF IInv

LEMMA RcbStep ==
  ASSUME TypeOK, IInv, DataSetSet \/ ReadBack \/ RcbRead
  PROVE  IInv'
<1>1. PICK op \in {"set", "get", "rcb"} : Done(op)  BY DEF DataSetSet, ReadBack, RcbRead
<1>2. UNCHANGED <<serverVars, shown, prep, discovered, todo, wire, lost>>
  BY DEF DataSetSet, ReadBack, RcbRead, treeVars
<1>3. loop.op = op /\ todo = {}  BY <1>1 DEF Done, IInv, LoopInv
<1>4. \A i \in DOMAIN toSrv : toSrv[i].op \in {"create", "delete"} => toSrv[i].name \in lost
  BY <1>1, <1>3, AtAnswer
<1>5. \A m \in Names : discovered /\ m \notin lost => shown[m] = srvSets[m]
  BY <1>3 DEF IInv, MirrorInv, Settling
<1>6. CASE Return
  <2>1. /\ QueueInv' /\ NamesInv' /\ toSrv' = toSrv /\ loop' = Idle
        /\ loop'.op = "idle" /\ loop'.name = None /\ loop'.ans = Nothing
    BY <1>1, <1>2, <1>6, AtAnswer, ReturnQueue DEF IInv
  <2>2. LateInv' /\ LoopInv'  BY <1>1, <1>2, <1>3, <1>4, <2>1, AtAnswer DEF LateInv, LoopInv
  <2>3. TreeInv' /\ CallInv'  BY <1>2, <2>1 DEF IInv, TreeInv, CallInv
  <2>4. MirrorInv'  BY <1>2, <1>5 DEF MirrorInv, serverVars
  <2> QED  BY <2>1, <2>2, <2>3, <2>4 DEF IInv
<1>7. CASE Call("get", None, {})
  <2>1. "get" \in Ops /\ {} \in SUBSET Members  BY DEF Ops
  <2>2. loop'.op = "get" /\ loop'.name = None  BY <1>1, <1>7, <2>1, AtAnswer, CallTypes
  <2>3. /\ QueueInv' /\ NamesInv'
        /\ Result' = loop'.ans /\ Result'.kind \in {"none", "failed"}
        /\ \A i \in DOMAIN toSrv' :
             \/ i \in DOMAIN toSrv /\ toSrv'[i] = toSrv[i]
             \/ ~toSrv'[i].late /\ toSrv'[i].op = "get"
    BY <1>1, <1>2, <1>7, <2>1, AtAnswer, CallQueue DEF IInv
  <2>4. LateInv' /\ LoopInv'  BY <1>2, <1>3, <1>4, <2>2, <2>3 DEF LateInv, LoopInv
  <2>5. TreeInv' /\ CallInv'  BY <1>2, <2>2, <2>3 DEF IInv, TreeInv, CallInv
  <2>6. MirrorInv'  BY <1>2, <1>5 DEF MirrorInv, serverVars
  <2> QED  BY <2>3, <2>4, <2>5, <2>6 DEF IInv
<1> QED  BY <1>6, <1>7 DEF DataSetSet, ReadBack, RcbRead

(* The data sets still to be read have no node, the others are done. *)
LEMMA ListedStep ==
  ASSUME TypeOK, IInv, Listed
  PROVE  IInv'
<1>1. Done("list") /\ loop.op = "list" /\ UNCHANGED <<serverVars, shown, prep, discovered, wire>>
  BY DEF Listed, Done, treeVars
<1>2. discovered /\ todo = {} /\ \A m \in Names : shown[m] = None /\ prep[m] = None
  BY <1>1 DEF IInv, LoopInv, TreeInv
<1>3. CASE Good
  <2>1. toSrv = <<>> /\ loop.ans.data = {m \in Names : srvSets[m] # None}
    BY <1>1, <1>3, AtAnswer DEF Good, IInv, CallInv
  <2>2. todo' = {m \in Names : srvSets[m] # None} /\ lost' = {}
    BY <1>3, <2>1 DEF Listed
  <2>3. PICK op \in {"rcb", "fill"}, n \in Names \cup {None} :
          /\ Call(op, n, {})
          /\ op = "fill" => n \in todo'
          /\ op = "rcb" => n = None /\ todo' = {}
    BY <1>3, <2>1, <2>2 DEF Listed
  <2>4. op \in Ops /\ {} \in SUBSET Members /\ (op = "fill" => n \in Names)
    BY <2>2, <2>3 DEF Ops
  <2>5. loop'.op = op /\ loop'.name = n  BY <1>1, <2>3, <2>4, AtAnswer, CallTypes
  <2>6. /\ QueueInv' /\ NamesInv'
        /\ Result' = loop'.ans /\ Result'.kind \in {"none", "failed"}
        /\ \A i \in DOMAIN toSrv' :
             \/ i \in DOMAIN toSrv /\ toSrv'[i] = toSrv[i]
             \/ ~toSrv'[i].late /\ toSrv'[i].op = op
    BY <1>1, <2>3, <2>4, AtAnswer, CallQueue DEF IInv
  <2>7. \A i \in DOMAIN toSrv' : toSrv'[i].op = op  BY <2>1, <2>6
  <2>8. LateInv' /\ LoopInv'  BY <1>1, <1>2, <2>3, <2>4, <2>5, <2>7 DEF LateInv, LoopInv
  <2>9. TreeInv'  BY <1>1, <1>2, <2>5 DEF TreeInv
  <2>10. CallInv'  BY <1>1, <1>2, <2>2, <2>3, <2>5, <2>6, <2>7 DEF CallInv
  <2>11. MirrorInv'  BY <1>1, <1>2, <2>2 DEF MirrorInv, serverVars
  <2> QED  BY <2>6, <2>8, <2>9, <2>10, <2>11 DEF IInv
<1>4. CASE ~Good
  <2>1. UNCHANGED <<loop, toSrv, todo, lost>>  BY <1>4 DEF Listed
  <2>2. Result' = Result  BY <1>1, <2>1 DEF Result
  <2>3. QueueInv' /\ NamesInv' /\ LateInv' /\ LoopInv'
    BY <1>1, <2>1, <2>2 DEF IInv, QueueInv, NamesInv, LateInv, LoopInv, Told, Failing
  <2>4. TreeInv' /\ CallInv' /\ MirrorInv'
    BY <1>1, <1>2, <1>4, <2>1, AtAnswer, <2>2 DEF TreeInv, CallInv, MirrorInv, Good
  <2> QED  BY <2>3, <2>4 DEF IInv
<1> QED  BY <1>3, <1>4

LEMMA FilledStep ==
  ASSUME TypeOK, IInv, Filled
  PROVE  IInv'
<1> DEFINE n == loop.name
<1>1. Done("fill") /\ loop.op = "fill" /\ UNCHANGED <<serverVars, prep, discovered, wire>>
  BY DEF Filled, Done
<1>2. /\ discovered /\ n \in Names /\ n \in todo /\ todo \subseteq Names
      /\ (\A m \in todo : shown[m] = None) /\ (\A m \in Names : prep[m] = None)
      /\ \A i \in DOMAIN toSrv : toSrv[i].op = "fill"
  BY <1>1 DEF IInv, LoopInv, TreeInv, CallInv, TypeOK
<1>3. Good => shown' = [shown EXCEPT ![n] = srvSets[n]]
  BY <1>1, <1>2, DoneResult DEF Filled, NewNode, Good, IInv, CallInv
<1>4. ~Good => shown' = shown  BY DEF Filled
<1>5. (Good => shown'[n] = srvSets[n]) /\ \A m \in Names : m # n => shown'[m] = shown[m]
  BY <1>2, <1>3, <1>4 DEF TypeOK
<1>6. todo' = todo \ {n} /\ lost \subseteq lost' /\ (~Good => n \in lost')
  BY DEF Filled
<1>7. PICK op \in {"rcb", "fill"}, k \in Names \cup {None} :
        /\ Call(op, k, {})
        /\ op = "fill" => k \in todo'
        /\ op = "rcb" => k = None /\ todo' = {}
  BY <1>2, <1>6 DEF Filled
<1>8. op \in Ops /\ {} \in SUBSET Members /\ (op = "fill" => k \in Names)
  BY <1>2, <1>6, <1>7 DEF Ops
<1>9. loop'.op = op /\ loop'.name = k  BY <1>1, <1>7, <1>8, AtAnswer, CallTypes
<1>10. /\ QueueInv' /\ NamesInv'
       /\ Result' = loop'.ans /\ Result'.kind \in {"none", "failed"}
       /\ \A i \in DOMAIN toSrv' :
            \/ i \in DOMAIN toSrv /\ toSrv'[i] = toSrv[i]
            \/ ~toSrv'[i].late /\ toSrv'[i].op = op
  BY <1>1, <1>7, <1>8, AtAnswer, CallQueue DEF IInv
<1>11. \A i \in DOMAIN toSrv' : toSrv'[i].op \in {"fill", op}  BY <1>2, <1>10
<1>12. LateInv' /\ LoopInv'  BY <1>1, <1>2, <1>7, <1>8, <1>9, <1>11 DEF LateInv, LoopInv
<1>13. TreeInv'  BY <1>1, <1>2, <1>9 DEF TreeInv
<1>14. CallInv'  BY <1>1, <1>2, <1>5, <1>6, <1>7, <1>9, <1>10, <1>11 DEF CallInv
<1>15. MirrorInv'
  <2>1. ASSUME NEW m \in Names, m \notin todo' \cup lost' PROVE shown'[m] = srvSets[m]
    <3>1. CASE m = n  BY <1>5, <1>6, <2>1, <3>1
    <3>2. CASE m # n  BY <1>1, <1>2, <1>5, <1>6, <2>1, <3>2 DEF IInv, MirrorInv, Settling
    <3> QED  BY <3>1, <3>2
  <2> QED  BY <1>1, <2>1 DEF MirrorInv, serverVars
<1> QED  BY <1>10, <1>12, <1>13, <1>14, <1>15 DEF IInv

-----------------------------------------------------------------------------
(* Steps of the server: a late request, or the call that waits. *)

LEMMA ReplyQueue ==
  ASSUME TypeOK, IInv, toSrv # <<>>, NEW a, Reply(a), a.kind \in {"ok", "refused"}
  PROVE  /\ QueueInv' /\ NamesInv' /\ LateInv' /\ LoopInv' /\ TreeInv'
         /\ \A i \in DOMAIN toSrv' : i + 1 \in DOMAIN toSrv /\ toSrv'[i] = toSrv[i + 1]
         /\ Asked = toSrv[1] /\ 1 \in DOMAIN toSrv
         /\ UNCHANGED <<shown, prep, discovered, loop, todo, lost>>
         /\ ~Told
         /\ \/ Asked.late /\ Result' = Result
            \/ /\ ~Asked.late /\ Result = Nothing /\ Result' = a /\ toSrv' = <<>>
               /\ Asked.op = loop.op /\ Asked.name = loop.name
               /\ loop.op = "create" => Asked.members = prep[loop.name]
<1>1. /\ UNCHANGED <<shown, prep, discovered, loop, todo, lost>>
      /\ toSrv' = Tail(toSrv) /\ wire' = IF Asked.late THEN wire ELSE a
  BY DEF Reply, treeVars
<1>2. /\ Asked = toSrv[1] /\ 1 \in DOMAIN toSrv /\ Len(toSrv') = Len(toSrv) - 1
      /\ \A i \in DOMAIN toSrv' : i + 1 \in DOMAIN toSrv /\ toSrv'[i] = toSrv[i + 1]
  BY <1>1, HeadTail DEF TypeOK
<1>3. ~Told  BY DEF IInv, QueueInv
<1>4. NamesInv' /\ LateInv'  BY <1>1, <1>2 DEF IInv, NamesInv, LateInv, Failing
<1>5. TreeInv'  BY <1>1 DEF IInv, TreeInv
<1>6. CASE Asked.late
  <2>1. Result' = Result /\ wire' = wire  BY <1>1, <1>6 DEF Result
  <2>2. ASSUME NEW i \in DOMAIN toSrv', ~toSrv'[i].late PROVE i = Len(toSrv')
    <3>1. i + 1 = Len(toSrv) /\ i \in Nat  BY <1>2, <2>2 DEF IInv, QueueInv
    <3>2. Len(toSrv) \in Nat  BY DEF TypeOK
    <3> QED  BY <1>2, <3>1, <3>2
  <2>3. QueueInv'  BY <1>1, <1>2, <1>3, <2>1, <2>2 DEF IInv, QueueInv, Told
  <2>4. LoopInv'  BY <1>1, <2>1 DEF IInv, LoopInv
  <2> QED  BY <1>1, <1>2, <1>3, <1>4, <1>5, <1>6, <2>1, <2>3, <2>4
<1>7. CASE ~Asked.late
  <2>1. /\ 1 = Len(toSrv) /\ Result = Nothing /\ Asked.op = loop.op /\ Asked.name = loop.name
        /\ loop.op = "create" => Asked.members = prep[loop.name]
    BY <1>2, <1>7 DEF IInv, QueueInv
  <2>2. toSrv' = <<>>
    <3>1. toSrv' \in Seq(Requests) /\ Len(toSrv') = 0  BY <1>1, <1>2, <2>1, HeadTail DEF TypeOK
    <3> QED  BY <3>1
  <2>3. wire' = a /\ a # Nothing /\ Result' = a  BY <1>1, <1>7, Kinds DEF Result
  <2>4. wire = Nothing /\ loop.ans = Nothing  BY <2>1, Kinds DEF Result, IInv, QueueInv
  <2>5. QueueInv'  BY <1>1, <2>2, <2>3, <2>4 DEF QueueInv
  <2>6. loop.op # "idle"
    <3>1. Asked.op \in Ops  BY RequestFields
    <3> QED  BY <2>1, <3>1 DEF Ops
  <2>7. LoopInv'  BY <1>1, <2>6 DEF IInv, LoopInv
  <2> QED  BY <1>1, <1>2, <1>3, <1>4, <1>5, <1>7, <2>1, <2>2, <2>3, <2>5, <2>7
<1> QED  BY <1>6, <1>7

(* A step of the server that answers a, by what it does to the data sets. *)
LEMMA ServeCall ==
  ASSUME TypeOK, IInv, toSrv # <<>>, NEW a, Reply(a), a.kind \in {"ok", "refused"},
         Asked.op \notin {"create", "delete"} => srvSets' = srvSets,
         a.kind = "refused" => srvSets' = srvSets,
         \A m \in Names : m # Asked.name => srvSets'[m] = srvSets[m],
         a.kind = "ok" =>
           /\ Asked.op = "create" => srvSets'[Asked.name] = Asked.members
           /\ Asked.op = "delete" => srvSets'[Asked.name] = None /\ rc'.uses # Asked.name
           /\ Asked.op \in {"info", "fill"} => a.data = srvSets[Asked.name]
           /\ Asked.op = "list" => a.data = {m \in Names : srvSets[m] # None}
           /\ Asked.op \in {"get", "rcb"} => a.data \subseteq Names
  PROVE  IInv'
<1>1. /\ QueueInv' /\ NamesInv' /\ LateInv' /\ LoopInv' /\ TreeInv'
      /\ \A i \in DOMAIN toSrv' : i + 1 \in DOMAIN toSrv /\ toSrv'[i] = toSrv[i + 1]
      /\ Asked = toSrv[1] /\ 1 \in DOMAIN toSrv
      /\ UNCHANGED <<shown, prep, discovered, loop, todo, lost>>
      /\ ~Told
  BY ReplyQueue
<1>2. \/ Asked.late /\ Result' = Result
      \/ /\ ~Asked.late /\ Result = Nothing /\ Result' = a
         /\ Asked.op = loop.op /\ Asked.name = loop.name
         /\ loop.op = "create" => Asked.members = prep[loop.name]
  BY ReplyQueue
<1>3. Result.kind \notin {"ok", "refused"}  BY <1>1 DEF Told
<1>4. Result'.kind = "ok" =>
        /\ ~Asked.late /\ Result' = a /\ a.kind = "ok"
        /\ Asked.op = loop.op /\ Asked.name = loop.name
        /\ loop.op = "create" => Asked.members = prep[loop.name]
  BY <1>2, <1>3
<1>5. ASSUME loop.op \in {"info", "fill"}
      PROVE  srvSets' = srvSets /\ \A i \in DOMAIN toSrv' : toSrv'[i].op = loop.op
  <2>1. \A i \in DOMAIN toSrv : toSrv[i].op = loop.op  BY <1>5 DEF IInv, CallInv
  <2>2. Asked.op = loop.op  BY <1>1, <2>1
  <2> QED  BY <1>1, <1>5, <2>1, <2>2
<1>6. CallInv'
  <2>1. loop.op = "create" =>
          /\ prep[loop.name] # None /\ prep[loop.name] # {}
          /\ Result'.kind = "ok" => srvSets'[loop.name] = prep[loop.name]
    BY <1>4 DEF IInv, CallInv
  <2>2. loop.op = "delete" =>
          /\ prep[loop.name] = None
          /\ Result'.kind = "ok" => srvSets'[loop.name] = None /\ rc'.uses # loop.name
    BY <1>4 DEF IInv, CallInv
  <2>3. loop.op = "info" =>
          /\ prep[loop.name] # None
          /\ srvSets'[loop.name] = prep[loop.name]
          /\ \A i \in DOMAIN toSrv' : toSrv'[i].op = "info"
          /\ Result'.kind = "ok" => Result'.data = srvSets'[loop.name]
    BY <1>4, <1>5 DEF IInv, CallInv
  <2>4. loop.op = "fill" =>
          /\ loop.name \in todo
          /\ \A n \in todo : shown[n] = None
          /\ \A i \in DOMAIN toSrv' : toSrv'[i].op = "fill"
          /\ Result'.kind = "ok" => Result'.data = srvSets'[loop.name]
    BY <1>4, <1>5 DEF IInv, CallInv
  <2>5. loop.op = "list" /\ Result'.kind = "ok" => Result'.data = {n \in Names : srvSets'[n] # None}
    BY <1>4
  <2>6. loop.op \in {"get", "rcb"} /\ Result'.kind = "ok" => Result'.data \subseteq Names
    BY <1>4
  <2> QED  BY <1>1, <2>1, <2>2, <2>3, <2>4, <2>5, <2>6 DEF CallInv
<1>7. MirrorInv'
  <2>1. SUFFICES ASSUME NEW m \in Names, discovered, loop.op # "list",
                        ~Settling(m)', m \notin todo \cup lost
                 PROVE  shown[m] = srvSets'[m]
    BY <1>1 DEF MirrorInv
  <2>2. ~Settling(m)
    <3>1. Result.kind = "failed" => Result' = Result  BY <1>2, Kinds
    <3> QED  BY <1>1, <1>3, <2>1, <3>1 DEF Settling
  <2>3. shown[m] = srvSets[m]  BY <2>1, <2>2 DEF IInv, MirrorInv
  <2>4. ASSUME m = Asked.name, a.kind = "ok", Asked.op \in {"create", "delete"} PROVE FALSE
    <3>1. CASE Asked.late
      <4>1. Failing(m) /\ loop.op = Asked.op  BY <1>1, <2>1, <2>4, <3>1 DEF IInv, LateInv
      <4>2. wire = Nothing  BY <4>1, Kinds DEF Failing, IInv, QueueInv
      <4>3. Result.kind = "failed"  BY <4>1, <4>2, Kinds DEF Failing, Result
      <4> QED  BY <2>2, <2>4, <4>1, <4>3 DEF Failing, Settling
    <3>2. CASE ~Asked.late  BY <1>1, <1>2, <2>1, <2>4, <3>2 DEF Settling
    <3> QED  BY <3>1, <3>2
  <2> QED  BY <2>3, <2>4
<1> QED  BY <1>1, <1>6, <1>7 DEF IInv

LEMMA ServeStep ==
  ASSUME TypeOK, IInv, Serve
  PROVE  IInv'
<1>1. toSrv # <<>>  BY DEF Serve, ServeCreate, ServeDelete, ServeDirectory, ServeList, ServeSet, ServeGet, Serves
<1>t. srvSets \in [Names -> Contents] /\ rc.value \in Names  BY DEF TypeOK
<1>k. Refused.kind = "refused" /\ \A d : Ok(d).kind = "ok" /\ Ok(d).data = d  BY Kinds
<1>2. CASE ServeCreate
  <2>1. Asked.op = "create" /\ Asked.name \in Names
    BY <1>1, <1>2, AskedName DEF ServeCreate, Serves, IInv
  <2>2. CASE srvSets' = [srvSets EXCEPT ![Asked.name] = Asked.members] /\ Reply(Ok({}))
    <3>1. /\ srvSets'[Asked.name] = Asked.members
          /\ \A m \in Names : m # Asked.name => srvSets'[m] = srvSets[m]
      BY <1>t, <2>1, <2>2
    <3> QED  BY <1>1, <1>k, <2>1, <2>2, <3>1, ServeCall
  <2>3. CASE srvSets' = srvSets /\ Reply(Refused)
    BY <1>1, <1>k, <2>1, <2>3, ServeCall
  <2> QED  BY <1>2, <2>2, <2>3 DEF ServeCreate
<1>3. CASE ServeDelete
  <2>1. Asked.op = "delete" /\ Asked.name \in Names
    BY <1>1, <1>3, AskedName DEF ServeDelete, Serves, IInv
  <2>2. CASE /\ Asked.name \notin Fixed /\ ~InUse(Asked.name)
             /\ srvSets' = [srvSets EXCEPT ![Asked.name] = None] /\ Reply(Ok({}))
    <3>1. /\ srvSets'[Asked.name] = None
          /\ \A m \in Names : m # Asked.name => srvSets'[m] = srvSets[m]
      BY <1>t, <2>1, <2>2
    <3>2. rc' = rc /\ rc.uses # Asked.name  BY <1>3, <2>2 DEF ServeDelete, InUse
    <3> QED  BY <1>1, <1>k, <2>1, <2>2, <3>1, <3>2, ServeCall
  <2>3. CASE srvSets' = srvSets /\ Reply(Refused)
    BY <1>1, <1>k, <2>1, <2>3, ServeCall
  <2> QED  BY <1>3, <2>2, <2>3 DEF ServeDelete
<1>4. CASE ServeDirectory
  <2>1. Asked.op \in {"info", "fill"} /\ srvSets' = srvSets
    BY <1>4 DEF ServeDirectory, Serves, serverVars
  <2>2. CASE Reply(Ok(srvSets[Asked.name]))  BY <1>1, <1>k, <2>1, <2>2, ServeCall
  <2>3. CASE Reply(Refused)  BY <1>1, <1>k, <2>1, <2>3, ServeCall
  <2> QED  BY <1>4, <2>2, <2>3 DEF ServeDirectory
<1>5. CASE ServeList
  <2>1. /\ Asked.op = "list" /\ srvSets' = srvSets
        /\ Reply(Ok({n \in Names : srvSets[n] # None}))
    BY <1>5 DEF ServeList, Serves, serverVars
  <2> QED  BY <1>1, <1>k, <2>1, ServeCall
<1>6. CASE ServeSet
  <2>1. Asked.op = "set" /\ srvSets' = srvSets  BY <1>6 DEF ServeSet, Serves
  <2>2. CASE Reply(Ok({}))  BY <1>1, <1>k, <2>1, <2>2, ServeCall
  <2>3. CASE Reply(Refused)  BY <1>1, <1>k, <2>1, <2>3, ServeCall
  <2> QED  BY <1>6, <2>2, <2>3 DEF ServeSet
<1>7. CASE ServeGet
  <2>1. Asked.op \in {"get", "rcb"} /\ srvSets' = srvSets /\ Reply(Ok({rc.value}))
    BY <1>7 DEF ServeGet, Serves, serverVars
  <2>2. {rc.value} \subseteq Names  BY <1>t
  <2> QED  BY <1>1, <1>k, <2>1, <2>2, ServeCall
<1> QED  BY <1>2, <1>3, <1>4, <1>5, <1>6, <1>7 DEF Serve

-----------------------------------------------------------------------------
(* Steps of the connection and the receive thread. *)

LEMMA DeliverStep ==
  ASSUME TypeOK, IInv, Deliver
  PROVE  IInv'
<1>1. /\ loop.op # "idle" /\ wire # Nothing /\ wire' = Nothing
      /\ loop' = [loop EXCEPT !.ans = wire]
      /\ UNCHANGED <<serverVars, shown, prep, discovered, todo, toSrv, lost>>
  BY DEF Deliver, Pending, treeVars
<1>2. loop'.op = loop.op /\ loop'.name = loop.name /\ loop'.ans = wire  BY <1>1 DEF TypeOK
<1>3. Result = wire /\ Result' = wire /\ wire.kind \in {"ok", "refused"}
  BY <1>1, <1>2 DEF Result, IInv, QueueInv
<1>4. toSrv = <<>>  BY <1>3 DEF IInv, QueueInv, Told
<1>5. QueueInv' /\ NamesInv' /\ LateInv'  BY <1>1, <1>4 DEF QueueInv, NamesInv, LateInv
<1>6. LoopInv' /\ TreeInv'  BY <1>1, <1>2 DEF IInv, LoopInv, TreeInv
<1>7. CallInv'  BY <1>1, <1>2, <1>3 DEF IInv, CallInv, serverVars
<1>8. MirrorInv'  BY <1>1, <1>2, <1>3 DEF IInv, MirrorInv, Settling, serverVars
<1> QED  BY <1>5, <1>6, <1>7, <1>8 DEF IInv

(* A request that may still be carried out is in doubt until its failure is *)
(* recorded, which is what Settling covers.                                 *)
LEMMA ExpireStep ==
  ASSUME TypeOK, IInv, Expire
  PROVE  IInv'
<1>1. /\ loop.op # "idle" /\ loop.ans = Nothing /\ wire' = Nothing
      /\ loop' = [loop EXCEPT !.ans = NoAnswer]
      /\ UNCHANGED <<serverVars, shown, prep, discovered, todo, lost>>
  BY DEF Expire, Pending, treeVars
<1>2. loop'.op = loop.op /\ loop'.name = loop.name /\ loop'.ans = NoAnswer  BY <1>1 DEF TypeOK
<1>3. Result' = NoAnswer /\ Result'.kind = "failed"  BY <1>1, <1>2, Kinds DEF Result
<1>4. /\ DOMAIN toSrv' = DOMAIN toSrv
      /\ \A i \in DOMAIN toSrv : /\ toSrv'[i].late = TRUE
                                 /\ toSrv'[i].op = toSrv[i].op
                                 /\ toSrv'[i].name = toSrv[i].name
  BY LateTypes DEF Expire, TypeOK
<1>5. QueueInv' /\ NamesInv'  BY <1>1, <1>3, <1>4 DEF IInv, QueueInv, NamesInv, Told
<1>6. LateInv'
  <2>1. ASSUME NEW i \in DOMAIN toSrv, toSrv[i].op \in {"create", "delete"}
        PROVE  toSrv[i].name \in lost \/ (loop.name = toSrv[i].name /\ loop.op = toSrv[i].op)
    BY <2>1 DEF IInv, QueueInv, LateInv, Failing
  <2> QED  BY <1>1, <1>2, <1>4, <2>1 DEF LateInv, Failing
<1>7. LoopInv' /\ TreeInv'  BY <1>1, <1>2 DEF IInv, LoopInv, TreeInv
<1>8. CallInv'  BY <1>1, <1>2, <1>3, <1>4 DEF IInv, CallInv, serverVars
<1>9. MirrorInv'  BY <1>1, <1>2, <1>3 DEF IInv, MirrorInv, Settling, serverVars
<1> QED  BY <1>5, <1>6, <1>7, <1>8, <1>9 DEF IInv

LEMMA LoseStep ==
  ASSUME TypeOK, IInv, Lose
  PROVE  IInv'
<1>1. /\ toSrv' = <<>> /\ wire' = Nothing
      /\ UNCHANGED <<serverVars, shown, prep, discovered, todo, lost>>
  BY DEF Lose, treeVars
<1>2. QueueInv' /\ NamesInv' /\ LateInv'  BY <1>1 DEF QueueInv, NamesInv, LateInv
<1>3. CASE loop.op # "idle" /\ loop' = [loop EXCEPT !.ans = NoAnswer]
  <2>1. loop'.op = loop.op /\ loop'.name = loop.name /\ loop'.ans = NoAnswer  BY <1>3 DEF TypeOK
  <2>2. Result' = NoAnswer /\ Result'.kind = "failed"  BY <1>1, <2>1, Kinds DEF Result
  <2>3. LoopInv' /\ TreeInv'  BY <1>1, <1>3, <2>1 DEF IInv, LoopInv, TreeInv
  <2>4. CallInv'  BY <1>1, <2>1, <2>2 DEF IInv, CallInv, serverVars
  <2>5. MirrorInv'  BY <1>1, <2>1, <2>2 DEF IInv, MirrorInv, Settling, serverVars
  <2> QED  BY <1>2, <2>3, <2>4, <2>5 DEF IInv
<1>4. CASE ~Pending /\ UNCHANGED loop
  <2>1. wire = Nothing  BY <1>4, Kinds DEF Lose, Pending, IInv, LoopInv, QueueInv
  <2>2. Result' = Result  BY <1>1, <1>4, <2>1 DEF Result
  <2>3. LoopInv' /\ TreeInv'  BY <1>1, <1>4 DEF IInv, LoopInv, TreeInv
  <2>4. CallInv'  BY <1>1, <1>4, <2>2 DEF IInv, CallInv, serverVars
  <2>5. MirrorInv'  BY <1>1, <1>4, <2>2 DEF IInv, MirrorInv, Settling, serverVars
  <2> QED  BY <1>2, <2>3, <2>4, <2>5 DEF IInv
<1> QED  BY <1>3, <1>4 DEF Lose

LEMMA SameStep ==
  ASSUME IInv, UNCHANGED <<srvSets, rc, shown, prep, discovered, loop, todo, toSrv, wire, lost>>
  PROVE  IInv'
<1>1. Result' = Result  BY DEF Result
<1>2. QueueInv' /\ NamesInv' /\ LateInv' /\ LoopInv'
  BY <1>1 DEF IInv, QueueInv, NamesInv, LateInv, LoopInv, Told, Failing
<1>3. TreeInv' /\ CallInv'  BY <1>1 DEF IInv, TreeInv, CallInv
<1>4. MirrorInv'  BY <1>1 DEF IInv, MirrorInv, Settling
<1> QED  BY <1>2, <1>3, <1>4 DEF IInv

LEMMA InitInv == Init => TypeOK /\ IInv
<1> SUFFICES ASSUME Init PROVE TypeOK /\ IInv  OBVIOUS
<1>1. TypeOK
  <2>1. <<>> \in Seq(Requests)  OBVIOUS
  <2>2. loop \in [op : Ops \cup {"idle"}, name : Names \cup {None}, ans : Outcomes] /\ wire \in Outcomes
    BY Kinds DEF Init, Idle
  <2>3. /\ srvSets \in [Names -> Contents]
        /\ rc \in [value : Names, uses : Names \cup {None}]
        /\ shown \in [Names -> Contents] /\ prep \in [Names -> Contents]
        /\ rcbSet \in Names \cup {None} /\ rx \in Names \cup {None}
        /\ todo \in SUBSET Names /\ lost \in SUBSET Names
    BY DataSetsAssumption DEF Init, DataSetsAssumption, Contents
  <2>4. discovered \in BOOLEAN /\ up \in BOOLEAN /\ crashed \in BOOLEAN  BY DEF Init
  <2> QED  BY <2>1, <2>2, <2>3, <2>4 DEF Init, TypeOK
<1>2. loop = Idle /\ loop.op = "idle" /\ loop.ans = Nothing /\ Result = Nothing /\ ~Told
  BY Kinds DEF Init, Idle, Result, Told
<1>3. QueueInv /\ NamesInv /\ LateInv  BY <1>2 DEF Init, QueueInv, NamesInv, LateInv
<1>4. LoopInv /\ TreeInv /\ CallInv /\ MirrorInv
  BY <1>2 DEF Init, LoopInv, TreeInv, CallInv, MirrorInv
<1> QED  BY <1>1, <1>3, <1>4 DEF IInv

LEMMA InvStep ==
  ASSUME TypeOK, IInv, [Next]_vars
  PROVE  IInv'
<1>1. CASE UNCHANGED vars  BY <1>1, SameStep DEF vars, serverVars, treeVars, linkVars
<1>2. ASSUME NEW n \in Names, Edit(n) PROVE IInv'  BY <1>2, TreeStep, StartStep DEF Edit
<1>3. CASE Clear  BY <1>3, ClearStep
<1>4. CASE Discover  BY <1>4, DiscoverStep
<1>5. CASE Created  BY <1>5, CreatedStep
<1>6. CASE Informed  BY <1>6, InformedStep
<1>7. CASE Removed  BY <1>7, RemovedStep
<1>8. CASE DataSetSet \/ ReadBack \/ RcbRead  BY <1>8, RcbStep
<1>9. CASE Listed  BY <1>9, ListedStep
<1>10. CASE Filled  BY <1>10, FilledStep
<1>11. CASE Serve  BY <1>11, ServeStep
<1>12. CASE Deliver  BY <1>12, DeliverStep
<1>13. CASE Expire  BY <1>13, ExpireStep
<1>14. CASE Lose  BY <1>14, LoseStep
<1>15. CASE Report \/ Reported
  BY <1>15, SameStep DEF Report, Reported, serverVars, treeVars, linkVars
<1> QED  BY <1>1, <1>2, <1>3, <1>4, <1>5, <1>6, <1>7, <1>8, <1>9, <1>10, <1>11, <1>12, <1>13, <1>14, <1>15
         DEF Next

-----------------------------------------------------------------------------
(* The theorems. *)

(* No step leaves the types: in particular the DatSet value of the control  *)
(* block stays the name of a data set, whatever setDatSetAction asks for.   *)
THEOREM TypeCorrect == Spec => []TypeOK
<1>1. Init => TypeOK /\ IInv  BY InitInv
<1>2. TypeOK /\ IInv /\ [Next]_vars => TypeOK' /\ IInv'  BY TypeStep, InvStep
<1> QED  BY <1>1, <1>2, PTL DEF Spec

(* The inductive invariant: the queue of requests, the call that waits and  *)
(* the doubt that late requests leave (IedConnection_deleteDataSet and so on).*)
THEOREM Invariance == Spec => []IInv
<1>1. Init => TypeOK /\ IInv  BY InitInv
<1>2. TypeOK /\ IInv /\ [Next]_vars => TypeOK' /\ IInv'  BY TypeStep, InvStep
<1> QED  BY <1>1, <1>2, PTL DEF Spec

(* After a discovery the nodes below "Data Sets" are the data sets of the   *)
(* server, as long as no call about them went without an answer             *)
(* (discover61850Server, create_ds_onserver_action, remove_dataset_action). *)
THEOREM TreeMirrorsServer == Spec => []Mirrors
<1>1. TypeOK /\ IInv => Mirrors
  <2> SUFFICES ASSUME TypeOK, IInv, discovered,
                      NEW n \in Names, ~Busy(n), n \notin lost
               PROVE  shown[n] = srvSets[n]
    BY DEF Mirrors
  <2>1. ~Settling(n) /\ n \notin todo /\ loop.op # "list"  BY DEF Busy, Settling
  <2> QED  BY <2>1 DEF IInv, MirrorInv
<1> QED  BY <1>1, TypeCorrect, Invariance, PTL

(* A prepared data set goes only on an order of the user, or for the node   *)
(* of the data set with the prepared members (create_ds_onserver_action).   *)
THEOREM PreparedKept == Spec => PrepKept
<1>1. TypeOK /\ IInv /\ [Next]_vars => PrepGoesForNode
  <2> SUFFICES ASSUME TypeOK, IInv, [Next]_vars,
                      NEW n \in Names, prep[n] # None, prep'[n] = None, loop.op # "idle"
               PROVE  shown'[n] = prep[n]
    BY DEF PrepGoesForNode
  <2>1. Informed
    <3>1. prep' # prep  OBVIOUS
    <3>2. Serve => prep' = prep
      BY DEF Serve, ServeCreate, ServeDelete, ServeDirectory, ServeList, ServeSet, ServeGet,
             Reply, treeVars
    <3>3. \A m \in Names : ~Edit(m)
      BY DEF Edit, Prepare, RemovePrep, AddMember, RemoveMember, Create, Remove, SetDataSet, Ready
    <3>4. ~Clear /\ ~Discover  BY DEF Clear, Discover, Ready
    <3>5. UNCHANGED vars \/ Created \/ Removed \/ DataSetSet \/ ReadBack \/ RcbRead \/ Listed \/ Filled
            => prep' = prep
      BY DEF vars, Created, Removed, DataSetSet, ReadBack, RcbRead, Listed, Filled, treeVars
    <3>6. Deliver \/ Expire \/ Lose \/ Report \/ Reported => prep' = prep
      BY DEF Deliver, Expire, Lose, Report, Reported, treeVars
    <3> QED  BY <3>1, <3>2, <3>3, <3>4, <3>5, <3>6 DEF Next
  <2>2. Done("info") /\ loop.op = "info" /\ loop.name \in Names
    BY <2>1 DEF Informed, Done, IInv, LoopInv
  <2>3. /\ Good /\ shown[loop.name] = None
        /\ shown' = [shown EXCEPT ![loop.name] = loop.ans.data]
        /\ prep' = [prep EXCEPT ![loop.name] = None]
    BY <2>1 DEF Informed, NewNode
  <2>4. n = loop.name  BY <2>2, <2>3 DEF TypeOK
  <2>5. loop.ans.data = prep[n]  BY <2>2, <2>3, <2>4, DoneResult DEF Good, IInv, CallInv
  <2> QED  BY <2>2, <2>3, <2>4, <2>5 DEF TypeOK
<1> QED  BY <1>1, TypeCorrect, Invariance, PTL DEF Spec, PrepKept

(* While the tree stays, the node that reportCallbackFunction reads is not  *)
(* freed as long as the server uses the data set it stands for, because     *)
(* remove_dataset_action frees it only when the server deleted the set.     *)
THEOREM ReportNodeKept == Spec => NodeOfReportKept
<1> DEFINE Kept == rx # None /\ shown[rx] # None /\ discovered'
                     => shown'[rx] # None \/ rx # rc.uses
<1>1. TypeOK /\ IInv /\ [Next]_vars => Kept
  <2> SUFFICES ASSUME TypeOK, IInv, [Next]_vars,
                      rx # None, shown[rx] # None, discovered', shown'[rx] = None
               PROVE  rx # rc.uses
    OBVIOUS
  <2>n. rx \in Names  BY DEF TypeOK
  <2>1. Removed
    <3>1. shown'[rx] # shown[rx]  OBVIOUS
    <3>2. Serve => shown' = shown
      BY DEF Serve, ServeCreate, ServeDelete, ServeDirectory, ServeList, ServeSet, ServeGet,
             Reply, treeVars
    <3>3. \A m \in Names : Edit(m) => shown' = shown
      BY DEF Edit, Prepare, RemovePrep, AddMember, RemoveMember, Create, Remove, SetDataSet, treeVars
    <3>4. ~Clear  BY DEF Clear
    <3>5. UNCHANGED vars \/ Discover \/ Created \/ DataSetSet \/ ReadBack \/ RcbRead \/ Listed
            => shown' = shown
      BY DEF vars, Discover, Created, DataSetSet, ReadBack, RcbRead, Listed, treeVars
    <3>6. Deliver \/ Expire \/ Lose \/ Report \/ Reported => shown' = shown
      BY DEF Deliver, Expire, Lose, Report, Reported, treeVars
    <3>7. Informed \/ Filled => \A m \in Names : shown[m] # None => shown'[m] = shown[m]
      BY DEF Informed, Filled, NewNode, TypeOK
    <3> QED  BY <2>n, <3>1, <3>2, <3>3, <3>4, <3>5, <3>6, <3>7 DEF Next
  <2>2. Done("delete") /\ loop.op = "delete" /\ loop.name \in Names
    BY <2>1 DEF Removed, Done, IInv, LoopInv
  <2>3. Good /\ rx = loop.name  BY <2>1, <2>2, <2>n DEF Removed, TypeOK
  <2> QED  BY <2>2, <2>3, DoneResult DEF Good, IInv, CallInv
<1>2. Spec => [][Kept]_vars  BY <1>1, TypeCorrect, Invariance, PTL DEF Spec
<1> QED  BY <1>2 DEF NodeOfReportKept
=============================================================================
