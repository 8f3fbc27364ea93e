--------------------------- MODULE ServerRegistry ---------------------------
(***************************************************************************)
(* The servers the DSLink manages: their nodes under the root, the global  *)
(* serverMap from server node to connection, the IedConnection of each     *)
(* server with its receive thread, the discovered data model and the       *)
(* report handlers that discovery installs.                                *)
(*                                                                         *)
(* Two kinds of threads act.  The DSLink event loop runs one handler at a  *)
(* time (Add, Edit, Clear, Remove, Discover, the status subscription); a   *)
(* handler that blocks on the network or on a thread is several steps,     *)
(* and "loop" says where it stands.  Each connection has a receive thread  *)
(* that calls reportCallbackFunction and the connection-lost handler, at   *)
(* any time, also between two steps of the event loop.                     *)
(***************************************************************************)
EXTENDS Naturals

CONSTANTS
  Nodes,      \* identities of server nodes, each with its own s61850Server and IedConnection
  Names,      \* names a user types into Add or Edit
  Keys,       \* node keys
  Key,        \* the key a name becomes: "srv_" put before it
  Addrs,      \* host and port of an IED
  Devices,    \* logical devices of an IED; each carries one report control block
  MaxGen,     \* bound: discoveries of one server
  MaxFaults,  \* bound: DSLink SDK calls and allocations that fail
  None

ASSUME KeyAssumption ==
  /\ Key \in [Names -> Keys]
  /\ \A a, b \in Names : Key[a] = Key[b] => a = b
  /\ \A a \in Names : Key[a] # a

ASSUME BoundAssumption == MaxGen \in Nat /\ MaxFaults \in Nat

ASSUME NoneAssumption ==
  /\ None \notin Nodes \cup Keys \cup Addrs \cup (Names \X Addrs)
  /\ None \notin [dev : Devices, gen : 1..MaxGen, at : {"matched", "running", "looked"}]

VARIABLES
  phase,      \* memory of a server node: unborn, live, unlinked from the root, freed
  key,        \* its node name
  addr,       \* hostname and tcpPort of its s61850Server
  actions,    \* its action nodes
  serverMap,  \* the server nodes that are keys of serverMap
  ied,        \* state of its IedConnection (none before IedConnection_create)
  assoc,      \* the MMS association is up: the receive thread is in its read loop
  status,     \* value of its "Status" node ("none": there is no such node)
  cached,     \* the IedConnection holds a device model (logicalDevices # NULL)
  model,      \* the logical devices of that device model
  folders,    \* the nodes of createDatasetReportNodes exist: isDiscovered
  shown,      \* logical devices that have nodes
  gen,        \* number of discoveries so far
  rcbNode,    \* discovery that made the RCB node of a device, 0 if there is none
  handler,    \* discovery that installed the report handler of the RCB, 0 if none
  rx,         \* the report the receive thread is delivering, None if none
  loop,       \* what the event loop is doing
  cur,        \* the server node it is doing it to
  next,       \* what remains of an Edit: the name and address of the new server
  todo,       \* what remains of a discovery: devices not yet visited
  faults,     \* failed SDK calls so far
  crashed     \* the process has died

treeVars == <<phase, key, addr, actions, serverMap>>
connVars == <<ied, assoc, status, cached, model>>
dataVars == <<folders, shown, gen, rcbNode>>
loopVars == <<loop, cur, next, todo>>
vars == <<treeVars, connVars, dataVars, handler, rx, loopVars, faults, crashed>>

AllActions == {"discover", "edit", "clear", "remove"}
(* What responderInitClient leaves when it returns early. *)
HalfActions == {{}, {"discover"}, {"discover", "edit"}, {"discover", "edit", "clear"}}
Phases   == {"unborn", "live", "unlinked", "freed"}
IedState == {"none", "idle", "connected", "closed", "destroyed"}
Statuses == {"none", "Initializing", "Not connected", "Connected", "Connection closed"}
LoopOps  == {"idle", "lookup", "discover", "destroy", "free", "create"}
Delivery == [dev : Devices, gen : 1..MaxGen, at : {"matched", "running", "looked"}]

TypeOK ==
  /\ phase \in [Nodes -> Phases]
  /\ key \in [Nodes -> Keys \cup {None}]
  /\ addr \in [Nodes -> Addrs \cup {None}]
  /\ actions \in [Nodes -> SUBSET AllActions]
  /\ serverMap \in SUBSET Nodes
  /\ ied \in [Nodes -> IedState]
  /\ assoc \in [Nodes -> BOOLEAN]
  /\ status \in [Nodes -> Statuses]
  /\ cached \in [Nodes -> BOOLEAN]
  /\ model \in [Nodes -> SUBSET Devices]
  /\ folders \in [Nodes -> BOOLEAN]
  /\ shown \in [Nodes -> SUBSET Devices]
  /\ gen \in [Nodes -> 0..MaxGen]
  /\ rcbNode \in [Nodes -> [Devices -> 0..MaxGen]]
  /\ handler \in [Nodes -> [Devices -> 0..MaxGen]]
  /\ rx \in [Nodes -> Delivery \cup {None}]
  /\ loop \in LoopOps
  /\ cur \in Nodes \cup {None}
  /\ next \in (Names \X Addrs) \cup {None}
  /\ todo \in SUBSET Devices
  /\ faults \in 0..MaxFaults
  /\ crashed \in BOOLEAN

NoRcbs == [d \in Devices |-> 0]

Init ==
  /\ phase = [n \in Nodes |-> "unborn"]
  /\ key = [n \in Nodes |-> None]
  /\ addr = [n \in Nodes |-> None]
  /\ actions = [n \in Nodes |-> {}]
  /\ serverMap = {}
  /\ ied = [n \in Nodes |-> "none"]
  /\ assoc = [n \in Nodes |-> FALSE]
  /\ status = [n \in Nodes |-> "none"]
  /\ cached = [n \in Nodes |-> FALSE]
  /\ model = [n \in Nodes |-> {}]
  /\ folders = [n \in Nodes |-> FALSE]
  /\ shown = [n \in Nodes |-> {}]
  /\ gen = [n \in Nodes |-> 0]
  /\ rcbNode = [n \in Nodes |-> NoRcbs]
  /\ handler = [n \in Nodes |-> NoRcbs]
  /\ rx = [n \in Nodes |-> None]
  /\ loop = "idle" /\ cur = None /\ next = None /\ todo = {}
  /\ faults = 0
  /\ crashed = FALSE

-----------------------------------------------------------------------------
(* The event loop *)

LoopFree == loop = "idle" /\ ~crashed

(* The action node "a" of server n can be invoked. *)
Invoked(n, a) == LoopFree /\ phase[n] = "live" /\ a \in actions[n]

BecomeIdle == loop' = "idle" /\ cur' = None /\ next' = None /\ todo' = {}

Enter(op, n) == loop' = op /\ cur' = n

(* Mutant: only servers with an entry count. *)
KeyInUseInMap(k) == \E m \in serverMap : key[m] = k

(* Mutant: removed servers count as well. *)
KeyEverUsed(k) == \E m \in Nodes : phase[m] # "unborn" /\ key[m] = k

(* dslink_node_add_child refuses a name that is taken. *)
KeyInUse(k) == \E m \in Nodes : phase[m] = "live" /\ key[m] = k

Fault == faults < MaxFaults /\ faults' = faults + 1

(* dslink_map_get(serverMap, node)->data without a test: node has no entry *)
(* and the null reference is followed.                                     *)
LookupFails(n) ==
  /\ n \notin serverMap
  /\ Enter("lookup", n) /\ UNCHANGED <<next, todo>>
  /\ crashed' = TRUE
  /\ UNCHANGED <<treeVars, connVars, dataVars, handler, rx, faults>>

(* Mutant: a failed reconnect makes a closed connection an idle one. *)
ConnectResets(n) ==
  \E outcome \in {"refused", "up", "lost"} :
    /\ assoc' = [assoc EXCEPT ![n] = (outcome = "up")]
    /\ ied' = [ied EXCEPT ![n] = IF outcome # "refused" THEN "connected" ELSE "idle"]

(* Mutant: a reconnect does not set the state again. *)
ConnectOnce(n) ==
  \E outcome \in {"refused", "up", "lost"} :
    /\ assoc' = [assoc EXCEPT ![n] = (outcome = "up")]
    /\ ied' = [ied EXCEPT ![n] =
                 IF @ # "none" THEN @
                 ELSE IF outcome # "refused" THEN "connected" ELSE "idle"]

(* IedConnection_connect on a connection that is not CONNECTED.  The state *)
(* is set to CONNECTED after MmsConnection_connect has returned; a loss in *)
(* between is overwritten ("lost").                                        *)
Connect(n) ==
  \E outcome \in {"refused", "up", "lost"} :
    /\ assoc' = [assoc EXCEPT ![n] = (outcome = "up")]
    /\ ied' = [ied EXCEPT ![n] =
                 IF outcome # "refused" THEN "connected"
                 ELSE IF @ = "none" THEN "idle" ELSE @]

(* responderInitClient: the key is taken, or an SDK call fails before the  *)
(* node is under the root.                                                 *)
CreateRefused(name) ==
  /\ \/ KeyInUse(Key[name]) /\ UNCHANGED faults
     \/ Fault
  /\ BecomeIdle
  /\ UNCHANGED <<treeVars, connVars, dataVars, handler, rx, crashed>>

NewNode(n, name, acts) ==
  /\ phase[n] = "unborn"
  /\ ~KeyInUse(Key[name])
  /\ phase' = [phase EXCEPT ![n] = "live"]
  /\ key' = [key EXCEPT ![n] = Key[name]]
  /\ actions' = [actions EXCEPT ![n] = acts]

(* responderInitClient returns after the node was added but before its     *)
(* last action node: a server node without connection stays in the tree.   *)
CreateHalf(n, name) ==
  /\ Fault
  /\ \E acts \in HalfActions : NewNode(n, name, acts)
  /\ BecomeIdle
  /\ UNCHANGED <<addr, serverMap, connVars, dataVars, handler, rx, crashed>>

(* responderInitClient runs to its end: setServerMap may fail and is only  *)
(* logged; then connect; then serverStatusCreate, which may fail silently. *)
CreateFull(n, name, a) ==
  /\ NewNode(n, name, AllActions)
  /\ addr' = [addr EXCEPT ![n] = a]
  /\ \/ /\ serverMap' = serverMap \cup {n}
        /\ status' = [status EXCEPT ![n] = "Initializing"]
        /\ UNCHANGED faults
     \/ /\ Fault
        /\ status' = [status EXCEPT ![n] = "Initializing"]
        /\ UNCHANGED serverMap
     \/ /\ Fault
        /\ serverMap' = serverMap \cup {n}
        /\ UNCHANGED status
  /\ Connect(n)
  /\ BecomeIdle
  /\ UNCHANGED <<cached, model, dataVars, handler, rx, crashed>>

responderInitClient(name, a) ==
  \/ CreateRefused(name)
  \/ \E n \in Nodes : CreateHalf(n, name) \/ CreateFull(n, name, a)

(* invokeAddServer with all three parameters. *)
AddServer(name, a) == LoopFree /\ responderInitClient(name, a)

(* Mutant: the entry stays in serverMap. *)
BeginRemoveKeepsEntry(n, then) ==
  /\ n \in serverMap
  /\ phase' = [phase EXCEPT ![n] = "unlinked"]
  /\ Enter("destroy", n) /\ next' = then
  /\ UNCHANGED <<key, addr, actions, serverMap, connVars, dataVars, handler, rx, todo,
                 faults, crashed>>

(* removeServerNode up to IedConnection_destroy: the node leaves the root  *)
(* and the map while its receive thread still runs.                        *)
BeginRemove(n, then) ==
  /\ n \in serverMap
  /\ phase' = [phase EXCEPT ![n] = "unlinked"]
  /\ serverMap' = serverMap \ {n}
  /\ Enter("destroy", n) /\ next' = then
  /\ UNCHANGED <<key, addr, actions, connVars, dataVars, handler, rx, todo, faults, crashed>>

RemoveServer(n) ==
  /\ Invoked(n, "remove")
  /\ LookupFails(n) \/ BeginRemove(n, None)

(* edit_server_action compares the node's key, not its name, with the new  *)
(* name.  The bound on Nodes leaves one for the new server.                *)
Unchanged(n, name, a) == key[n] = name /\ addr[n] = a

EditServer(n, name, a) ==
  /\ Invoked(n, "edit")
  /\ \/ LookupFails(n)
     \/ /\ ~Unchanged(n, name, a)
        /\ \E m \in Nodes : phase[m] = "unborn"
        /\ BeginRemove(n, <<name, a>>)
     \/ /\ n \in serverMap /\ Unchanged(n, name, a)
        /\ ied[n] # "connected"
        /\ Connect(n)
        /\ UNCHANGED <<treeVars, status, cached, model, dataVars, handler, rx,
                       loopVars, faults, crashed>>

(* Mutant: IedConnection_destroy does not wait for the thread. *)
DestroyedAtOnce(n) ==
  /\ loop = "destroy" /\ cur = n /\ ~crashed
  /\ ied' = [ied EXCEPT ![n] = "destroyed"]
  /\ handler' = [handler EXCEPT ![n] = NoRcbs]
  /\ loop' = "free"
  /\ UNCHANGED <<treeVars, assoc, status, cached, model, dataVars, rx, cur, next, todo,
                 faults, crashed>>

(* IedConnection_destroy returns once the receive thread has stopped. *)
Destroyed(n) ==
  /\ loop = "destroy" /\ cur = n /\ ~crashed
  /\ ~assoc[n]
  /\ ied' = [ied EXCEPT ![n] = "destroyed"]
  /\ handler' = [handler EXCEPT ![n] = NoRcbs]
  /\ loop' = "free"
  /\ UNCHANGED <<treeVars, assoc, status, cached, model, dataVars, rx, cur, next, todo,
                 faults, crashed>>

(* dslink_node_tree_free of the server node; an Edit goes on to create. *)
FreeTree(n) ==
  /\ loop = "free" /\ cur = n /\ ~crashed
  /\ phase' = [phase EXCEPT ![n] = "freed"]
  /\ rcbNode' = [rcbNode EXCEPT ![n] = NoRcbs]
  /\ folders' = [folders EXCEPT ![n] = FALSE]
  /\ shown' = [shown EXCEPT ![n] = {}]
  /\ IF next = None THEN BecomeIdle
                    ELSE loop' = "create" /\ cur' = None /\ UNCHANGED <<next, todo>>
  /\ UNCHANGED <<key, addr, actions, serverMap, connVars, gen, handler, rx, faults, crashed>>

CreateEdited ==
  /\ loop = "create" /\ ~crashed
  /\ responderInitClient(next[1], next[2])

(* clear_server_action: removeAllDataModel frees every node without the    *)
(* "ndl_" prefix.  The report handlers stay installed.                     *)
ClearServer(n) ==
  /\ Invoked(n, "clear")
  /\ folders' = [folders EXCEPT ![n] = FALSE]
  /\ shown' = [shown EXCEPT ![n] = {}]
  /\ rcbNode' = [rcbNode EXCEPT ![n] = NoRcbs]
  /\ UNCHANGED <<treeVars, connVars, gen, handler, rx, loopVars, faults, crashed>>

(* serverSubbed: the only place that computes the Status value. *)
Subscribe(n) ==
  /\ LoopFree /\ phase[n] = "live" /\ status[n] # "none"
  /\ \/ LookupFails(n)
     \/ /\ n \in serverMap
        /\ status' = [status EXCEPT ![n] =
                        CASE ied[n] = "connected" -> "Connected"
                          [] ied[n] = "closed"    -> "Connection closed"
                          [] OTHER                -> "Not connected"]
        /\ UNCHANGED <<treeVars, ied, assoc, cached, model, dataVars, handler, rx,
                       loopVars, faults, crashed>>

-----------------------------------------------------------------------------
(* Discovery *)

(* IedConnection_getLogicalDeviceList: the device model is read once per   *)
(* connection and kept.  A name list cut short by a failed follow-up       *)
(* request passes for a complete one; a failure while reading the          *)
(* variables of a device keeps the devices read so far and reports an      *)
(* error.                                                                  *)
ListFromCache(n) == cached[n] /\ UNCHANGED <<cached, model>>

(* Mutant: the model is read although one is cached. *)
ListAgain(n) ==
  /\ assoc[n]
  /\ cached' = [cached EXCEPT ![n] = TRUE]
  /\ \E read \in SUBSET Devices \ {{}} : model' = [model EXCEPT ![n] = read]

ListFromServer(n) ==
  /\ ~cached[n] /\ assoc[n]
  /\ cached' = [cached EXCEPT ![n] = TRUE]
  /\ \E read \in SUBSET Devices \ {{}} : model' = [model EXCEPT ![n] = read]

ListFails(n) ==
  /\ ~cached[n]
  /\ \/ UNCHANGED <<cached, model>>
     \/ /\ assoc[n]
        /\ cached' = [cached EXCEPT ![n] = TRUE]
        /\ \E read \in SUBSET Devices :
             read # Devices /\ model' = [model EXCEPT ![n] = read]

(* discover_action on a server that is not discovered: the folders come    *)
(* first, also when the device list then fails.                            *)
Discover(n) ==
  /\ Invoked(n, "discover")
  /\ ~folders[n] /\ gen[n] < MaxGen
  /\ \/ LookupFails(n)
     \/ /\ n \in serverMap
        /\ folders' = [folders EXCEPT ![n] = TRUE]
        /\ gen' = [gen EXCEPT ![n] = @ + 1]
        /\ \/ /\ ListFromCache(n) \/ ListFromServer(n)
              /\ Enter("discover", n) /\ todo' = model'[n]
           \/ ListFails(n) /\ UNCHANGED <<loop, cur, todo>>
        /\ UNCHANGED <<treeVars, ied, assoc, status, shown, rcbNode, handler, rx,
                       next, faults, crashed>>

(* The event loop does not hold reportHandlerMutex against a callback. *)
HandlersFree(n) == rx[n] # None => rx[n].at = "matched"

(* Mutant: a handler that is installed is not replaced. *)
InstallHandlerOnce(n, d) ==
  /\ HandlersFree(n)
  /\ rcbNode' = [rcbNode EXCEPT ![n][d] = gen[n]]
  /\ handler' = [handler EXCEPT ![n][d] = IF @ = 0 THEN gen[n] ELSE @]

(* Mutant: the handler is installed although the node is not made. *)
InstallHandlerWithoutNode(n, d) ==
  /\ HandlersFree(n)
  /\ handler' = [handler EXCEPT ![n][d] = gen[n]]
  /\ UNCHANGED rcbNode

(* The RCB node of a device is the parameter of its new report handler. *)
InstallHandler(n, d) ==
  /\ HandlersFree(n)
  /\ rcbNode' = [rcbNode EXCEPT ![n][d] = gen[n]]
  /\ handler' = [handler EXCEPT ![n][d] = gen[n]]

(* The logical nodes of one device.  A failed request for a variable       *)
(* specification or for the data set names returns NULL, which is          *)
(* followed; a failed read of the report control block only omits its      *)
(* node and its handler.                                                   *)
DiscoverDevice(n, d) ==
  /\ loop = "discover" /\ cur = n /\ ~crashed
  /\ d \in todo
  /\ \/ /\ crashed' = TRUE
        /\ UNCHANGED <<dataVars, handler, todo>>
     \/ /\ assoc[n]
        /\ todo' = todo \ {d}
        /\ shown' = [shown EXCEPT ![n] = @ \cup {d}]
        /\ InstallHandler(n, d) \/ UNCHANGED <<rcbNode, handler>>
        /\ UNCHANGED <<folders, gen, crashed>>
  /\ UNCHANGED <<treeVars, connVars, rx, loop, cur, next, faults>>

DiscoverEnds ==
  /\ loop = "discover" /\ ~crashed
  /\ todo = {}
  /\ BecomeIdle
  /\ UNCHANGED <<treeVars, connVars, dataVars, handler, rx, faults, crashed>>

-----------------------------------------------------------------------------
(* The receive threads *)

Destroying(n) == loop = "destroy" /\ cur = n

(* The thread leaves its read loop and calls connectionLostHandler. *)
ConnectionLost(n) ==
  /\ assoc[n] /\ rx[n] = None /\ ~crashed
  /\ ~Destroying(n)
  /\ assoc' = [assoc EXCEPT ![n] = FALSE]
  /\ ied' = [ied EXCEPT ![n] = "closed"]
  /\ UNCHANGED <<treeVars, status, cached, model, dataVars, handler, rx, loopVars,
                 faults, crashed>>

(* MmsConnection_close has removed that handler and asked the thread to    *)
(* stop; it looks at the request when no packet waits to be read.          *)
ReceiverStops(n) ==
  /\ assoc[n] /\ rx[n] = None /\ ~crashed
  /\ Destroying(n)
  /\ assoc' = [assoc EXCEPT ![n] = FALSE]
  /\ UNCHANGED <<treeVars, ied, status, cached, model, dataVars, handler, rx, loopVars,
                 faults, crashed>>

RxAt(n, at) == rx[n] # None /\ rx[n].at = at /\ ~crashed

(* private_IedConnection_handleReport finds the handler without a lock. *)
ReportMatched(n, d) ==
  /\ assoc[n] /\ rx[n] = None /\ ~crashed
  /\ handler[n][d] # 0
  /\ rx' = [rx EXCEPT ![n] = [dev |-> d, gen |-> handler[n][d], at |-> "matched"]]
  /\ UNCHANGED <<treeVars, connVars, dataVars, handler, loopVars, faults, crashed>>

HandlerReplaced(n) == handler[n][rx[n].dev] # rx[n].gen
RcbNodeFreed(n)    == rcbNode[n][rx[n].dev] # rx[n].gen

(* Mutant: the delivery is not cleared at its end. *)
RxNeverEnds(n, at) ==
  /\ rx' = [rx EXCEPT ![n].at = at]
  /\ UNCHANGED crashed

RxMoves(n, at) ==
  /\ rx' = [rx EXCEPT ![n] = IF at = "done" THEN None ELSE [@ EXCEPT !.at = at]]
  /\ UNCHANGED crashed

(* Following a freed pointer: the process dies or goes on as if nothing.   *)
RxDies == crashed' = TRUE /\ UNCHANGED rx

(* Mutant: the event loop holds the mutex while it destroys. *)
ReportEnterUnlessDestroying(n) ==
  /\ ~Destroying(n)
  /\ RxAt(n, "matched")
  /\ RxMoves(n, "running") \/ (HandlerReplaced(n) /\ RxDies)
  /\ UNCHANGED <<treeVars, connVars, dataVars, handler, loopVars, faults>>

(* It takes reportHandlerMutex and calls the handler it found. *)
ReportEnter(n) ==
  /\ RxAt(n, "matched")
  /\ RxMoves(n, "running") \/ (HandlerReplaced(n) /\ RxDies)
  /\ UNCHANGED <<treeVars, connVars, dataVars, handler, loopVars, faults>>

(* reportCallbackFunction: getServerIedConnection looks the server node up *)
(* in serverMap and follows the result.                                    *)
ReportLookup(n) ==
  /\ RxAt(n, "running")
  /\ \/ n \in serverMap /\ RxMoves(n, "looked")
     \/ (n \notin serverMap \/ RcbNodeFreed(n)) /\ RxDies
  /\ UNCHANGED <<treeVars, connVars, dataVars, handler, loopVars, faults>>

(* The rest of the callback: the data set node and the values. *)
ReportDone(n) ==
  /\ RxAt(n, "looked")
  /\ RxMoves(n, "done") \/ (RcbNodeFreed(n) /\ RxDies)
  /\ UNCHANGED <<treeVars, connVars, dataVars, handler, loopVars, faults>>

-----------------------------------------------------------------------------
(* A dead process, and an event loop that waits for an invocation. *)
AtRest == (crashed \/ loop = "idle") /\ UNCHANGED vars

LoopSteps ==
  \/ CreateEdited
  \/ DiscoverEnds
  \/ \E n \in Nodes : Destroyed(n) \/ FreeTree(n)
  \/ \E n \in Nodes, d \in Devices : DiscoverDevice(n, d)

Invocations ==
  \/ \E name \in Names, a \in Addrs : AddServer(name, a)
  \/ \E n \in Nodes, name \in Names, a \in Addrs : EditServer(n, name, a)
  \/ \E n \in Nodes : RemoveServer(n) \/ ClearServer(n) \/ Subscribe(n) \/ Discover(n)

Delivers(n) == ReportEnter(n) \/ ReportLookup(n) \/ ReportDone(n)

Receivers ==
  \/ \E n \in Nodes : ConnectionLost(n) \/ ReceiverStops(n) \/ Delivers(n)
  \/ \E n \in Nodes, d \in Devices : ReportMatched(n, d)

Next == Invocations \/ LoopSteps \/ Receivers \/ AtRest

(* A handler that was started is run on, a callback that was started is    *)
(* run on, and a receive thread asked to stop finds no packet waiting at   *)
(* one of the infinitely many times it looks.                              *)
Fairness ==
  /\ WF_vars(LoopSteps)
  /\ \A n \in Nodes : WF_vars(Delivers(n)) /\ SF_vars(ReceiverStops(n))

Spec == Init /\ [][Next]_vars
FairSpec == Spec /\ Fairness

-----------------------------------------------------------------------------
(* Properties *)

(* serverMap and the tree agree: an entry is a server in the tree with all *)
(* its actions and a connection that was not destroyed, and unless an SDK  *)
(* call failed every server in the tree has an entry (setServerMap,        *)
(* removeServerNode, the early returns of responderInitClient).            *)
MapMatchesTree ==
  /\ \A n \in serverMap : /\ phase[n] = "live"
                          /\ actions[n] = AllActions
                          /\ ied[n] \in {"idle", "connected", "closed"}
  /\ faults = 0 => \A n \in Nodes : phase[n] = "live" => n \in serverMap

(* A name leads to at most one server, through every Add and Edit. *)
UniqueKeys ==
  \A m, n \in Nodes :
    phase[m] = "live" /\ phase[n] = "live" /\ key[m] = key[n] => m = n

(* An association that is up is one the user can still end: its server is  *)
(* in the tree with a Remove action that finds it in serverMap, or is      *)
(* being removed, or setServerMap failed for it; and its state says        *)
(* CONNECTED, without which IedConnection_destroy would not close it.      *)
NoOrphanConnection ==
  \A n \in Nodes : assoc[n] =>
    /\ ied[n] = "connected"
    /\ \/ n \in serverMap
       \/ Destroying(n)
       \/ faults > 0 /\ phase[n] = "live"

(* removeServerNode destroys the connection before it frees the nodes: no  *)
(* receive thread is left, nor a delivery under way, when a server node    *)
(* and the RCB nodes below it are gone.                                    *)
NoReceiverAfterFree ==
  \A n \in Nodes : phase[n] = "freed" => ~assoc[n] /\ rx[n] = None

(* The reports of an RCB whose node is in the tree go to that node and not *)
(* to one of an earlier discovery (getRCBInfoAndCreateNode).               *)
VisibleRcbHears ==
  \A n \in Nodes, d \in Devices :
    phase[n] = "live" /\ rcbNode[n][d] # 0
      => handler[n][d] = rcbNode[n][d] /\ rcbNode[n][d] = gen[n]

(* The process dies in these ways only: a handler of a server whose        *)
(* creation an SDK failure cut short; a request of a discovery that fails; *)
(* a report delivered while its server is being removed; a report whose    *)
(* RCB node was cleared, or whose handler was replaced by a later          *)
(* discovery, during or before the delivery.                               *)
CrashCauses ==
  crashed =>
    \/ loop = "lookup" /\ faults > 0
    \/ loop = "discover"
    \/ \E n \in Nodes : /\ rx[n] # None
                        /\ \/ Destroying(n)
                           \/ ~folders[n]
                           \/ rx[n].gen < gen[n]

(* The Status value is one the connection has had: "Connected" only after  *)
(* a connect that succeeded, "Connection closed" only after a loss of a    *)
(* connection (serverSubbed reads the state only when subscribed).         *)
StatusWasTrue ==
  \A n \in Nodes :
    /\ status[n] \in {"Connected", "Connection closed"} =>
         ied[n] \in {"connected", "closed", "destroyed"}
    /\ phase[n] = "freed" => ied[n] = "destroyed"

(* Whoever invokes an action gets the event loop back, unless the process  *)
(* dies: destroying a connection waits for its receive thread, which may   *)
(* be delivering a report.                                                 *)
LoopReturns == loop # "idle" ~> (loop = "idle" \/ crashed)

(* A device model is read once: what a connection has cached it keeps,     *)
(* complete or not, whatever is cleared, lost, reconnected or rediscovered *)
(* (IedConnection_getLogicalDeviceList).                                   *)
ModelFrozen ==
  [][\A n \in Nodes : cached[n] => cached'[n] /\ model'[n] = model[n]]_vars

(* An Edit ends with a server of the new name: its own or, if the name is  *)
(* taken, the one that has it -- then the edited server is lost.           *)
EditLeavesName ==
  [][loop = "create" /\ loop' = "idle" /\ faults' = faults =>
       \E m \in Nodes : phase'[m] = "live" /\ key'[m] = Key[next[1]]]_vars

Live == {n \in Nodes : phase[n] = "live"}
KeysOf(ns) == {key[n] : n \in ns}

(* The servers by their keys, and what is under way, for Registry. *)
Servers == KeysOf(Live)
Known   == KeysOf(serverMap)
Online  == KeysOf({n \in Live : assoc[n]})
Heir    == IF next = None THEN None ELSE Key[next[1]]
Leaving == \E n \in Nodes : Destroying(n) /\ assoc[n]
Job     == CASE loop \in {"destroy", "free"} -> "leave"
             [] loop = "create" -> "enter"
             [] loop = "discover" -> "work"
             [] OTHER -> "none"

Registered == INSTANCE Registry WITH
  servers <- Servers, known <- Known, online <- Online, job <- Job, heir <- Heir,
  leaving <- Leaving, sound <- (faults = 0), alive <- ~crashed

(* Seen by keys, the steps of the handlers and of the receive threads are  *)
(* those of Registry: one server per key, an Edit that loses its server    *)
(* only to a key that is taken or a failed call of the SDK, and no death   *)
(* without an association, a half made server or a discovery under way     *)
(* (responderInitClient, removeServerNode, edit_server_action).            *)
RegistryImplemented == Registered!Spec

(* The connection of one server, as MmsClient implements it.               *)
Linked(n) == INSTANCE Connection WITH
  state  <- IF Destroying(n) THEN "closing" ELSE IF ied[n] = "destroyed" THEN "gone"
            ELSE IF ied[n] = "connected" THEN "up" ELSE "down",
  linked <- assoc[n], clean <- TRUE

(* What a server does with its connection is what MmsClient's connection   *)
(* can do: both implement Connection (IedConnection_connect,               *)
(* connectionLostHandler, IedConnection_destroy).                          *)
ConnectionsUsed ==
  /\ \A n \in Nodes : Linked(n)!Init
  /\ [][\A n \in Nodes : Linked(n)!Next \/ UNCHANGED Linked(n)!vars]_vars

(* The inductive strengthening of the invariants above. *)

(* Where a server node is in its life, and what it has there. *)
LifeInv ==
  \A n \in Nodes :
    /\ phase[n] = "unborn" => /\ n \notin serverMap /\ ied[n] = "none"
                              /\ status[n] = "none" /\ ~folders[n]
    /\ phase[n] = "unlinked" => n \notin serverMap /\ cur = n /\ loop \in {"destroy", "free"}
    /\ phase[n] = "freed" => n \notin serverMap
    /\ ied[n] = "destroyed" => phase[n] = "freed" \/ (loop = "free" /\ cur = n)

(* What the event loop is in the middle of. *)
LoopInv ==
  /\ loop \in {"destroy", "free"} => cur \in Nodes /\ phase[cur] = "unlinked"
  /\ loop = "free" => ied[cur] = "destroyed"
  /\ loop = "create" => next # None
  /\ loop = "discover" => cur \in serverMap /\ folders[cur]
  /\ loop = "lookup" => faults > 0

(* Report handlers exist while the server can be found, and are those of   *)
(* the last discovery unless a Clear or a failed read came in between.     *)
HandlerInv ==
  \A n \in Nodes, d \in Devices :
    /\ handler[n][d] # 0 => n \in serverMap \/ Destroying(n)
    /\ handler[n][d] <= gen[n]
    /\ ~folders[n] => rcbNode[n][d] = 0
    /\ folders[n] /\ handler[n][d] # 0 /\ handler[n][d] = gen[n] /\ n \in serverMap
         => rcbNode[n][d] = gen[n]

(* A delivery under way runs on an association that is up and holds the    *)
(* present handler or an older one.                                        *)
DeliveryInv ==
  \A n \in Nodes : rx[n] # None =>
    /\ assoc[n]
    /\ rx[n].gen <= handler[n][rx[n].dev]

IInv ==
  /\ LifeInv /\ LoopInv /\ HandlerInv /\ DeliveryInv
  /\ MapMatchesTree /\ UniqueKeys /\ NoOrphanConnection
  /\ VisibleRcbHears /\ CrashCauses /\ StatusWasTrue

(* What the message "RCB NODE not found" of reportCallbackFunction says: a *)
(* report whose RCB node is gone is recognised, and no freed node is used. *)
ReportOnlyToLiveRcb ==
  \A n \in Nodes : rx[n] # None /\ rx[n].at = "running" => ~RcbNodeFreed(n)

(* What "Nothing changed for edit, reconnecting..." says: an Edit with the *)
(* server's own name, host and port keeps the server.                      *)
EditSameKeeps ==
  [][\A n \in Nodes, name \in Names, a \in Addrs :
       EditServer(n, name, a) /\ key[n] = Key[name] /\ addr[n] = a
         => phase'[n] = "live"]_vars

=============================================================================
