------------------------------ MODULE DataSets ------------------------------
(***************************************************************************)
(* The data sets of one server: those on the server, those the tree shows, *)
(* and those a user prepares in the tree to create them on the server.     *)
(*                                                                         *)
(* The event loop runs one action at a time; an action makes calls, one    *)
(* after the other, and each waits for its answer or a time-out.  The      *)
(* server handles requests in the order they were sent, those that timed   *)
(* out included.  The receive thread hands over answers and, in between,   *)
(* runs the callback of a report, which reads the node of the data set     *)
(* that the report control block names.  The answer to a request that      *)
(* timed out is dropped; MmsClient has the cases where it is not.          *)
(***************************************************************************)
EXTENDS Naturals, Sequences

CONSTANTS
  Names,      \* references of data sets
  Members,    \* references of data attributes
  Fixed,      \* data sets of the server's configuration, which it does not delete
  Sets0,      \* the members of the server's data sets before the first discovery
  Rcb0,       \* the data set of the report control block then
  MaxLate,    \* bound: requests that timed out and are still on their way
  None

Contents == {None} \cup SUBSET Members

ASSUME DataSetsAssumption ==
  /\ Fixed \subseteq Names
  /\ None \notin Names /\ \A c \in SUBSET Members : c # None
  /\ Sets0 \in [Names -> Contents]
  /\ Rcb0 \in Names /\ Sets0[Rcb0] # None
  /\ MaxLate \in Nat

VARIABLES
  srvSets,     \* the data sets of the server: members, None if there is none
  rc,          \* its report control block: the DatSet value and the data set in use
  shown,       \* the nodes below "Data Sets": members, None if there is no node
  prep,        \* the nodes below "Data Set Prep"
  discovered,  \* the two folders exist
  rcbSet,      \* the data set in the ClientReportControlBlock, None without RCB node
  loop,        \* the call the event loop waits for, and its outcome
  todo,        \* listed data sets that discovery has yet to read
  toSrv,       \* requests on their way, oldest first
  wire,        \* the answer on its way
  rx,          \* the data set whose node the report callback holds, None outside it
  up,          \* the association exists
  crashed,     \* the process has died
  lost         \* (for the properties) data sets of which a call failed without
               \* answer since the tree last learned about them

treeVars == <<shown, prep, discovered, rcbSet>>
serverVars == <<srvSets, rc>>
linkVars == <<toSrv, wire>>
vars == <<serverVars, treeVars, loop, todo, linkVars, rx, up, crashed, lost>>

Ops == {"create", "info", "delete", "set", "get", "list", "fill", "rcb"}
Outcomes == [kind : {"none", "ok", "refused", "failed"}, data : SUBSET (Names \cup Members)]
Requests == [op : Ops, name : Names \cup {None}, members : SUBSET Members, late : BOOLEAN]

Nothing == [kind |-> "none", data |-> {}]
Ok(data) == [kind |-> "ok", data |-> data]
Refused == [kind |-> "refused", data |-> {}]
NoAnswer == [kind |-> "failed", data |-> {}]

Idle == [op |-> "idle", name |-> None, ans |-> Nothing]

TypeOK ==
  /\ srvSets \in [Names -> Contents]
  /\ rc \in [value : Names, uses : Names \cup {None}]
  /\ shown \in [Names -> Contents]
  /\ prep \in [Names -> Contents]
  /\ discovered \in BOOLEAN
  /\ rcbSet \in Names \cup {None}
  /\ loop \in [op : Ops \cup {"idle"}, name : Names \cup {None}, ans : Outcomes]
  /\ todo \in SUBSET Names
  /\ toSrv \in Seq(Requests)
  /\ wire \in Outcomes
  /\ rx \in Names \cup {None}
  /\ up \in BOOLEAN /\ crashed \in BOOLEAN
  /\ lost \in SUBSET Names

Init ==
  /\ srvSets = Sets0
  /\ rc = [value |-> Rcb0, uses |-> Rcb0]
  /\ shown = [n \in Names |-> None]
  /\ prep = [n \in Names |-> None]
  /\ discovered = FALSE /\ rcbSet = None
  /\ loop = Idle /\ todo = {}
  /\ toSrv = <<>> /\ wire = Nothing
  /\ rx = None /\ up = TRUE /\ crashed = FALSE /\ lost = {}

-----------------------------------------------------------------------------
(* Calls *)

Running == ~crashed
Ready == Running /\ loop.op = "idle"
Done(op) == Running /\ loop.op = op /\ loop.ans.kind # "none"
Good == loop.ans.kind = "ok"

(* A call that needs a connection fails at once without one. *)
Call(op, n, members) ==
  /\ loop' = [op |-> op, name |-> n, ans |-> IF up THEN Nothing ELSE NoAnswer]
  /\ toSrv' = IF up
              THEN Append(toSrv, [op |-> op, name |-> n, members |-> members, late |-> FALSE])
              ELSE toSrv

Return == loop' = Idle /\ UNCHANGED toSrv

(* For the properties: a call about n that got no answer leaves it in doubt. *)
Doubt(n) == lost' = IF loop.ans.kind = "failed" THEN lost \cup {n} ELSE lost

-----------------------------------------------------------------------------
(* Preparing a data set *)

Taken(n) == shown[n] # None \/ prep[n] # None

(* prepare_dataset_action *)
Prepare(n) ==
  /\ Ready /\ discovered
  /\ ~Taken(n)
  /\ prep' = [prep EXCEPT ![n] = {}]
  /\ UNCHANGED <<serverVars, shown, discovered, rcbSet, loop, todo, linkVars, rx, up, crashed, lost>>

(* addDAToDSAction; a member is added once. *)
AddMember(n, e) ==
  /\ Ready
  /\ prep[n] # None
  /\ e \notin prep[n]
  /\ prep' = [prep EXCEPT ![n] = @ \cup {e}]
  /\ UNCHANGED <<serverVars, shown, discovered, rcbSet, loop, todo, linkVars, rx, up, crashed, lost>>

RemoveMember(n, e) ==
  /\ Ready
  /\ prep[n] # None
  /\ e \in prep[n]
  /\ prep' = [prep EXCEPT ![n] = @ \ {e}]
  /\ UNCHANGED <<serverVars, shown, discovered, rcbSet, loop, todo, linkVars, rx, up, crashed, lost>>

RemovePrep(n) ==
  /\ Ready
  /\ prep[n] # None
  /\ prep' = [prep EXCEPT ![n] = None]
  /\ UNCHANGED <<serverVars, shown, discovered, rcbSet, loop, todo, linkVars, rx, up, crashed, lost>>

-----------------------------------------------------------------------------
(* Creating and deleting on the server *)

(* create_ds_onserver_action: nothing is asked for an empty set. *)
Create(n) ==
  /\ Ready
  /\ prep[n] \notin {None, {}}
  /\ Call("create", n, prep[n])
  /\ UNCHANGED <<serverVars, treeVars, todo, wire, rx, up, crashed, lost>>

(* The server's own list of members is read back for the node. *)
(* Mutant: a name that exists already counts as created. *)
CreatedAnyhow ==
  /\ Done("create")
  /\ IF loop.ans.kind # "failed" THEN Call("info", loop.name, {}) ELSE Return
  /\ Doubt(loop.name)
  /\ UNCHANGED <<serverVars, treeVars, todo, wire, rx, up, crashed>>

Created ==
  /\ Done("create")
  /\ IF Good THEN Call("info", loop.name, {}) ELSE Return
  /\ Doubt(loop.name)
  /\ UNCHANGED <<serverVars, treeVars, todo, wire, rx, up, crashed>>

(* getDatasetInfoFromServerCreateNode adds no node when the name is taken. *)
NewNode(n, data) == IF shown[n] = None THEN [shown EXCEPT ![n] = data] ELSE shown

Informed ==
  /\ Done("info")
  /\ IF Good /\ shown[loop.name] = None
     THEN /\ shown' = NewNode(loop.name, loop.ans.data)
          /\ prep' = [prep EXCEPT ![loop.name] = None]
     ELSE UNCHANGED <<shown, prep>>
  /\ lost' = IF Good THEN lost \ {loop.name} ELSE lost \cup {loop.name}
  /\ Return
  /\ UNCHANGED <<serverVars, discovered, rcbSet, todo, wire, rx, up, crashed>>

(* Mutant: the node goes before the server is asked. *)
RemoveFirst(n) ==
  /\ Ready
  /\ shown[n] # None
  /\ Call("delete", n, {})
  /\ shown' = [shown EXCEPT ![n] = None]
  /\ UNCHANGED <<serverVars, prep, discovered, rcbSet, todo, wire, rx, up, crashed, lost>>

(* remove_dataset_action *)
Remove(n) ==
  /\ Ready
  /\ shown[n] # None
  /\ Call("delete", n, {})
  /\ UNCHANGED <<serverVars, treeVars, todo, wire, rx, up, crashed, lost>>

(* Mutant: the result of IedConnection_deleteDataSet is not looked at. *)
RemovedAnyhow ==
  /\ Done("delete")
  /\ shown' = [shown EXCEPT ![loop.name] = None]
  /\ IF Good THEN lost' = lost \ {loop.name} ELSE Doubt(loop.name)
  /\ Return
  /\ UNCHANGED <<serverVars, prep, discovered, rcbSet, todo, wire, rx, up, crashed>>

Removed ==
  /\ Done("delete")
  /\ shown' = IF Good THEN [shown EXCEPT ![loop.name] = None] ELSE shown
  /\ IF Good THEN lost' = lost \ {loop.name} ELSE Doubt(loop.name)
  /\ Return
  /\ UNCHANGED <<serverVars, prep, discovered, rcbSet, todo, wire, rx, up, crashed>>

-----------------------------------------------------------------------------
(* Clear and discovery *)

(* clear_server_action frees both folders and the RCB nodes. *)
Clear ==
  /\ Ready /\ discovered
  /\ shown' = [n \in Names |-> None]
  /\ prep' = [n \in Names |-> None]
  /\ discovered' = FALSE /\ rcbSet' = None
  /\ UNCHANGED <<serverVars, loop, todo, linkVars, rx, up, crashed, lost>>

(* discover_action, for what concerns data sets: the folders first, and no *)
(* more when the device list fails.                                         *)
Discover ==
  /\ Ready /\ ~discovered
  /\ discovered' = TRUE
  /\ \/ Call("list", None, {}) /\ UNCHANGED lost
     \/ UNCHANGED <<loop, toSrv>> /\ lost' = Names
  /\ UNCHANGED <<serverVars, shown, prep, rcbSet, todo, wire, rx, up, crashed>>

(* Without a list the loop over it follows a null pointer. *)
Listed ==
  /\ Done("list")
  /\ IF Good
     THEN /\ todo' = loop.ans.data \cap Names
          /\ lost' = {}
          /\ IF loop.ans.data = {}
             THEN Call("rcb", None, {})
             ELSE \E n \in loop.ans.data : Call("fill", n, {})
          /\ UNCHANGED crashed
     ELSE crashed' = TRUE /\ UNCHANGED <<loop, toSrv, todo, lost>>
  /\ UNCHANGED <<serverVars, treeVars, wire, rx, up>>

Filled ==
  /\ Done("fill")
  /\ shown' = IF Good THEN NewNode(loop.name, loop.ans.data) ELSE shown
  /\ lost' = IF Good THEN lost ELSE lost \cup {loop.name}
  /\ todo' = todo \ {loop.name}
  /\ IF todo' = {}
     THEN Call("rcb", None, {})
     ELSE \E n \in todo' : Call("fill", n, {})
  /\ UNCHANGED <<serverVars, prep, discovered, rcbSet, wire, rx, up, crashed>>

(* getRCBInfoAndCreateNode: no node without the values. *)
RcbRead ==
  /\ Done("rcb")
  /\ IF Good THEN \E n \in loop.ans.data : rcbSet' = n ELSE UNCHANGED rcbSet
  /\ Return
  /\ UNCHANGED <<serverVars, shown, prep, discovered, todo, wire, rx, up, crashed, lost>>

-----------------------------------------------------------------------------
(* The data set of the report control block *)

(* setDatSetAction: the control block first, then the server. *)
SetDataSet(n) ==
  /\ Ready
  /\ rcbSet # None
  /\ rcbSet' = n
  /\ Call("set", n, {})
  /\ UNCHANGED <<serverVars, shown, prep, discovered, todo, wire, rx, up, crashed, lost>>

DataSetSet ==
  /\ Done("set")
  /\ IF Good THEN Return ELSE Call("get", None, {})
  /\ UNCHANGED <<serverVars, treeVars, todo, wire, rx, up, crashed, lost>>

ReadBack ==
  /\ Done("get")
  /\ IF Good THEN \E n \in loop.ans.data : rcbSet' = n ELSE UNCHANGED rcbSet
  /\ Return
  /\ UNCHANGED <<serverVars, shown, prep, discovered, todo, wire, rx, up, crashed, lost>>

-----------------------------------------------------------------------------
(* The server *)

Asked == Head(toSrv)

(* Only the call that still waits gets the answer. *)
Reply(answer) ==
  /\ toSrv' = Tail(toSrv)
  /\ wire' = IF Asked.late THEN wire ELSE answer
  /\ UNCHANGED <<treeVars, loop, todo, rx, up, crashed, lost>>

Serves(op) == Running /\ toSrv # <<>> /\ Asked.op = op

(* The server may refuse for a limit of its own. *)
ServeCreate ==
  /\ Serves("create")
  /\ \/ /\ srvSets[Asked.name] = None
        /\ srvSets' = [srvSets EXCEPT ![Asked.name] = Asked.members]
        /\ Reply(Ok({}))
     \/ UNCHANGED srvSets /\ Reply(Refused)
  /\ UNCHANGED rc

InUse(n) == n \notin Fixed /\ rc.uses = n

(* Only data sets that were created, and that no report uses, are deleted. *)
ServeDelete ==
  /\ Serves("delete")
  /\ IF srvSets[Asked.name] # None /\ Asked.name \notin Fixed /\ ~InUse(Asked.name)
     THEN srvSets' = [srvSets EXCEPT ![Asked.name] = None] /\ Reply(Ok({}))
     ELSE UNCHANGED srvSets /\ Reply(Refused)
  /\ UNCHANGED rc

ServeDirectory ==
  /\ Serves("info") \/ Serves("fill")
  /\ Reply(IF srvSets[Asked.name] = None THEN Refused ELSE Ok(srvSets[Asked.name]))
  /\ UNCHANGED serverVars

ServeList ==
  /\ Serves("list")
  /\ Reply(Ok({n \in Names : srvSets[n] # None}))
  /\ UNCHANGED serverVars

(* updateReportDataset lets go of a created data set before it looks for the new one. *)
LetGo == [rc EXCEPT !.uses = IF @ \in Fixed THEN @ ELSE None]

(* Mutant: a control block without a data set loses its DatSet value. *)
ServeSetEmptied ==
  /\ Serves("set")
  /\ IF srvSets[Asked.name] # None
     THEN rc' = [value |-> Asked.name, uses |-> Asked.name] /\ Reply(Ok({}))
     ELSE rc' = [value |-> None, uses |-> None] /\ Reply(Refused)
  /\ UNCHANGED srvSets

(* The control block refuses an unknown data set, and any one while it is enabled. *)
ServeSet ==
  /\ Serves("set")
  /\ \/ /\ rc.value = Asked.name
        /\ UNCHANGED rc /\ Reply(Ok({}))
     \/ /\ rc.value # Asked.name /\ srvSets[Asked.name] # None
        /\ rc' = [value |-> Asked.name, uses |-> Asked.name]
        /\ Reply(Ok({}))
     \/ /\ rc.value # Asked.name /\ srvSets[Asked.name] = None
        /\ rc' = LetGo
        /\ Reply(Refused)
     \/ UNCHANGED rc /\ Reply(Refused)
  /\ UNCHANGED srvSets

ServeGet ==
  /\ Serves("get") \/ Serves("rcb")
  /\ Reply(Ok({rc.value}))
  /\ UNCHANGED serverVars

Serve == ServeCreate \/ ServeDelete \/ ServeDirectory \/ ServeList \/ ServeSet \/ ServeGet

-----------------------------------------------------------------------------
(* The connection and the receive thread *)

Pending == Running /\ loop.op # "idle" /\ loop.ans = Nothing

(* Answers wait while the receive thread is in a callback. *)
Deliver ==
  /\ Pending /\ up /\ rx = None
  /\ wire # Nothing
  /\ loop' = [loop EXCEPT !.ans = wire]
  /\ wire' = Nothing
  /\ UNCHANGED <<serverVars, treeVars, todo, toSrv, rx, up, crashed, lost>>

(* The request, if the server has not had it yet, is carried out later. *)
Expire ==
  /\ Pending /\ Len(toSrv) <= MaxLate
  /\ loop' = [loop EXCEPT !.ans = NoAnswer]
  /\ toSrv' = [i \in DOMAIN toSrv |-> [toSrv[i] EXCEPT !.late = TRUE]]
  /\ wire' = Nothing
  /\ UNCHANGED <<serverVars, treeVars, todo, rx, up, crashed, lost>>

(* A call that sees the loss as it returns fails in spite of its answer, a delete apart. *)
Lose ==
  /\ Running /\ up
  /\ up' = FALSE
  /\ toSrv' = <<>> /\ wire' = Nothing
  /\ \/ loop.op # "idle" /\ (Pending \/ loop.op # "delete")
        /\ loop' = [loop EXCEPT !.ans = NoAnswer]
     \/ ~Pending /\ UNCHANGED loop
  /\ UNCHANGED <<serverVars, treeVars, todo, rx, crashed, lost>>

(* reportCallbackFunction looks up the node of the data set it believes the report has. *)
Report ==
  /\ Running /\ up /\ rx = None
  /\ rcbSet # None /\ shown[rcbSet] # None
  /\ rx' = rcbSet
  /\ UNCHANGED <<serverVars, treeVars, loop, todo, linkVars, up, crashed, lost>>

Reported ==
  /\ Running /\ rx # None
  /\ rx' = None
  /\ UNCHANGED <<serverVars, treeVars, loop, todo, linkVars, up, crashed, lost>>

Edit(n) ==
  \/ Prepare(n) \/ RemovePrep(n) \/ Create(n) \/ Remove(n) \/ SetDataSet(n)
  \/ \E e \in Members : AddMember(n, e) \/ RemoveMember(n, e)

Next ==
  \/ \E n \in Names : Edit(n)
  \/ Created \/ Informed \/ Removed
  \/ Clear \/ Discover \/ Listed \/ Filled \/ RcbRead
  \/ DataSetSet \/ ReadBack
  \/ Serve
  \/ Deliver \/ Expire \/ Lose
  \/ Report \/ Reported

Spec == Init /\ [][Next]_vars

-----------------------------------------------------------------------------
(* Properties *)

(* The tree mirrors the server: after a discovery every data set of the     *)
(* server is shown with its members and no other is, except the one the     *)
(* event loop is working on and those that a lost answer left in doubt.     *)
Busy(n) == loop.name = n \/ n \in todo \/ loop.op = "list"
Mirrors == discovered => \A n \in Names : ~Busy(n) /\ n \notin lost => shown[n] = srvSets[n]

PrepGoesForNode ==
  \A n \in Names : prep[n] # None /\ prep'[n] = None => loop.op = "idle" \/ shown'[n] = prep[n]

(* Prepared work is given up only on the user's order or when the tree      *)
(* shows the data set of the same name with exactly the prepared members    *)
(* (create_ds_onserver_action calls removePrepDS at its end).               *)
PrepKept == [][PrepGoesForNode]_vars

(* A user's Remove never frees the node that a report callback is reading,  *)
(* unless the control block and the server disagree on the data set of the  *)
(* reports: the server refuses to delete the one it uses.                   *)
NodeOfReportKept ==
  [][(rx # None /\ shown[rx] # None /\ discovered') =>
       (shown'[rx] # None \/ rx # rc.uses)]_vars

-----------------------------------------------------------------------------
(* The inductive invariant *)

(* The outcome of the current call, wherever it is. *)
Result == IF wire # Nothing THEN wire ELSE loop.ans
Told == Result.kind \in {"ok", "refused"}

(* At most the youngest request is waited for, and an answer means that the *)
(* server has had all of them.                                              *)
QueueInv ==
  /\ \A i \in DOMAIN toSrv : ~toSrv[i].late =>
       /\ i = Len(toSrv)
       /\ Result = Nothing
       /\ toSrv[i].op = loop.op /\ toSrv[i].name = loop.name
       /\ loop.op = "create" => toSrv[i].members = prep[loop.name]
  /\ Told => toSrv = <<>>
  /\ wire # Nothing => loop.ans = Nothing /\ wire.kind \in {"ok", "refused"}

NamesInv ==
  \A i \in DOMAIN toSrv :
    toSrv[i].op \in {"create", "delete", "info", "fill", "set"} => toSrv[i].name \in Names

(* What a late request may still change is in doubt. *)
Failing(n) == loop.ans = NoAnswer /\ loop.name = n
LateInv ==
  \A i \in DOMAIN toSrv : toSrv[i].late /\ toSrv[i].op \in {"create", "delete"} =>
    \/ toSrv[i].name \in lost
    \/ Failing(toSrv[i].name) /\ loop.op = toSrv[i].op

LoopInv ==
  /\ loop.op = "idle" => loop = Idle /\ wire = Nothing
  /\ loop.op \in {"create", "info", "delete", "set", "fill"} => loop.name \in Names
  /\ loop.op \in {"list", "get", "rcb"} => loop.name = None
  /\ loop.op \in {"list", "fill"} => discovered
  /\ loop.op # "fill" => todo = {}

TreeInv ==
  /\ \A n \in Names : shown[n] = None \/ prep[n] = None
  /\ ~discovered => \A n \in Names : shown[n] = None /\ prep[n] = None
  /\ loop.op \in {"list", "fill"} => \A n \in Names : prep[n] = None
  /\ loop.op = "list" => \A n \in Names : shown[n] = None

(* What the event loop and the answer to its call say of the server. *)
CallInv ==
  /\ loop.op = "create" =>
       /\ prep[loop.name] # None /\ prep[loop.name] # {}
       /\ Result.kind = "ok" => srvSets[loop.name] = prep[loop.name]
  /\ loop.op = "info" =>
       /\ prep[loop.name] # None
       /\ srvSets[loop.name] = prep[loop.name]
       /\ \A i \in DOMAIN toSrv : toSrv[i].op = "info"
       /\ Result.kind = "ok" => Result.data = srvSets[loop.name]
  /\ loop.op = "delete" =>
       /\ prep[loop.name] = None
       /\ Result.kind = "ok" => srvSets[loop.name] = None /\ rc.uses # loop.name
  /\ loop.op = "list" /\ Result.kind = "ok" => Result.data = {n \in Names : srvSets[n] # None}
  /\ loop.op \in {"get", "rcb"} /\ Result.kind = "ok" => Result.data \subseteq Names
  /\ loop.op = "fill" =>
       /\ loop.name \in todo
       /\ \A n \in todo : shown[n] = None
       /\ \A i \in DOMAIN toSrv : toSrv[i].op = "fill"
       /\ Result.kind = "ok" => Result.data = srvSets[loop.name]

Settling(n) ==
  /\ loop.name = n
  /\ \/ loop.op = "info"
     \/ loop.op \in {"create", "delete"} /\ Result.kind \in {"ok", "failed"}

MirrorInv ==
  discovered /\ loop.op # "list" =>
    \A n \in Names : ~Settling(n) /\ n \notin todo \cup lost => shown[n] = srvSets[n]

IInv == QueueInv /\ NamesInv /\ LateInv /\ LoopInv /\ TreeInv /\ CallInv /\ MirrorInv
==============================================================================
