------------------------- MODULE RegistryRefinement -------------------------
(***************************************************************************)
(* ServerRegistry implements Registry: the handlers of the event loop and  *)
(* the receive threads of the connections, seen by the keys of the         *)
(* servers, take the steps of Registry or none.  And it uses the           *)
(* connection of each server as Connection says.                           *)
(***************************************************************************)
EXTENDS ServerRegistryProofs

USE DEF treeVars, connVars, dataVars, loopVars, vars

-----------------------------------------------------------------------------
(* What the refinement needs beyond IInv: a server in the tree has a key,  *)
(* and only an Edit under way has a successor.                             *)

KeyInv  == \A n \in Nodes : phase[n] = "live" => key[n] \in Keys
HeirInv == loop \in {"idle", "lookup", "discover"} => next = None

LEMMA CreatedKey ==
  ASSUME TypeOK, KeyInv, NEW name \in Names, NEW a \in Addrs, responderInitClient(name, a)
  PROVE  KeyInv' /\ HeirInv'
<1>1. Key[name] \in Keys  BY KeyAssumption
<1>2. CASE CreateRefused(name)
  BY <1>2 DEF CreateRefused, BecomeIdle, KeyInv, HeirInv
<1>3. ASSUME NEW n \in Nodes, CreateHalf(n, name) \/ CreateFull(n, name, a)
      PROVE  KeyInv' /\ HeirInv'
  <2>1. phase' = [phase EXCEPT ![n] = "live"] /\ key' = [key EXCEPT ![n] = Key[name]]
    BY <1>3 DEF CreateHalf, CreateFull, NewNode
  <2>2. KeyInv'  BY <1>1, <2>1 DEF KeyInv, TypeOK
  <2>3. HeirInv'  BY <1>3 DEF CreateHalf, CreateFull, BecomeIdle, HeirInv
  <2> QED  BY <2>2, <2>3
<1> QED  BY <1>2, <1>3 DEF responderInitClient

LEMMA KeyHeirStep ==
  ASSUME TypeOK, KeyInv, HeirInv, LoopInv, [Next]_vars
  PROVE  KeyInv' /\ HeirInv'
<1> USE DEF TypeOK
<1>1. ASSUME NEW n \in Nodes, LookupFails(n) \/ ClearServer(n) \/ Subscribe(n) \/ Discover(n),
             LoopFree
      PROVE  KeyInv' /\ HeirInv'
  <2>1. UNCHANGED <<phase, key, next>>
    BY <1>1 DEF LookupFails, ClearServer, Subscribe, Discover
  <2> QED  BY <1>1, <2>1 DEF KeyInv, HeirInv, LoopFree
<1>2. ASSUME NEW n \in Nodes, NEW then, BeginRemove(n, then)
      PROVE  KeyInv' /\ HeirInv'
  BY <1>2 DEF BeginRemove, Enter, KeyInv, HeirInv
<1>3. ASSUME NEW n \in Nodes, NEW name \in Names, NEW a \in Addrs, EditServer(n, name, a)
      PROVE  KeyInv' /\ HeirInv'
  <2>1. CASE UNCHANGED treeVars /\ UNCHANGED loopVars
    BY <2>1 DEF KeyInv, HeirInv
  <2> QED  BY <1>1, <1>2, <1>3, <2>1 DEF EditServer, Invoked
<1>4. CASE Invocations
  <2>1. ASSUME NEW n \in Nodes, RemoveServer(n) PROVE KeyInv' /\ HeirInv'
    BY <1>1, <1>2, <2>1 DEF RemoveServer, Invoked
  <2>2. ASSUME NEW n \in Nodes, ClearServer(n) \/ Subscribe(n) \/ Discover(n)
        PROVE  KeyInv' /\ HeirInv'
    BY <1>1, <2>2 DEF ClearServer, Subscribe, Discover, Invoked
  <2> QED  BY <1>3, <1>4, <2>1, <2>2, CreatedKey DEF Invocations, AddServer
<1>5. CASE LoopSteps
  <2>1. CASE CreateEdited
    <3>1. next \in Names \X Addrs  BY <2>1 DEF CreateEdited, LoopInv
    <3> QED  BY <2>1, <3>1, CreatedKey DEF CreateEdited
  <2>2. CASE DiscoverEnds
    BY <2>2 DEF DiscoverEnds, BecomeIdle, KeyInv, HeirInv
  <2>3. ASSUME NEW n \in Nodes, Destroyed(n) \/ FreeTree(n) PROVE KeyInv' /\ HeirInv'
    BY <2>3 DEF Destroyed, FreeTree, BecomeIdle, KeyInv, HeirInv
  <2>4. ASSUME NEW n \in Nodes, NEW d \in Devices, DiscoverDevice(n, d)
        PROVE  KeyInv' /\ HeirInv'
    BY <2>4 DEF DiscoverDevice, KeyInv, HeirInv
  <2> QED  BY <1>5, <2>1, <2>2, <2>3, <2>4 DEF LoopSteps
<1>6. CASE Receivers \/ UNCHANGED vars
  <2>1. UNCHANGED <<phase, key, loop, next>>
    BY <1>6 DEF Receivers, ConnectionLost, ReceiverStops, Delivers, ReportEnter, ReportLookup,
                ReportDone, ReportMatched
  <2> QED  BY <2>1 DEF KeyInv, HeirInv
<1> QED  BY <1>4, <1>5, <1>6 DEF Next, AtRest

RefInv == TypeOK /\ IInv /\ KeyInv /\ HeirInv

LEMMA RefInvariance == Spec => []RefInv
<1>1. Init => KeyInv /\ HeirInv  BY DEF Init, KeyInv, HeirInv
<1>2. TypeOK /\ IInv /\ KeyInv /\ HeirInv /\ [Next]_vars => (KeyInv /\ HeirInv)'
  BY KeyHeirStep DEF IInv
<1> QED  BY <1>1, <1>2, Invariance, PTL DEF Spec, RefInv

-----------------------------------------------------------------------------
(* Servers and keys *)

(* A server is found by its key. *)
LEMMA OneKey ==
  ASSUME RefInv, NEW n \in Nodes, phase[n] = "live"
  PROVE  /\ key[n] \in Keys /\ key[n] \in Servers
         /\ key[n] \in Known <=> n \in serverMap
         /\ key[n] \in Online <=> assoc[n]
<1>1. serverMap \subseteq Live  BY DEF RefInv, IInv, TypeOK, MapMatchesTree, Live
<1>2. ASSUME NEW m \in Live, key[m] = key[n] PROVE m = n
  BY <1>2 DEF RefInv, IInv, UniqueKeys, Live
<1> QED  BY <1>1, <1>2 DEF RefInv, KeyInv, Servers, Known, Online, KeysOf, Live

(* A thread that is up belongs to a server of the tree or to the one that  *)
(* leaves.                                                                 *)
LEMMA ThreadOwned ==
  ASSUME RefInv, NEW n \in Nodes, assoc[n]
  PROVE  phase[n] = "live" \/ (Destroying(n) /\ Leaving)
BY DEF RefInv, IInv, NoOrphanConnection, MapMatchesTree, Leaving

(* Steps that the registry does not show. *)
LEMMA Hidden ==
  ASSUME UNCHANGED <<phase, key, serverMap, assoc, loop, cur, next, faults>>
  PROVE  UNCHANGED <<Servers, Known, Online, Job, Heir, Leaving, faults = 0>>
BY DEF Servers, Known, Online, Job, Heir, Leaving, KeysOf, Live, Destroying

LEMMA HiddenStep ==
  ASSUME UNCHANGED <<phase, key, serverMap, assoc, loop, cur, next, faults, crashed>>
  PROVE  [Registered!Next]_Registered!vars
BY Hidden DEF Registered!vars

LEMMA DieStep ==
  ASSUME UNCHANGED <<Servers, Known, Online, Job, Heir, Leaving, faults>>, ~crashed, crashed',
         Job = "work" \/ Online # {} \/ Leaving \/ Servers # Known
  PROVE  [Registered!Next]_Registered!vars
BY DEF Registered!Next, Registered!Die

(* The steps of Registry that leave it alive. *)
LEMMA LiveStep ==
  ASSUME ~crashed, ~crashed',
         \/ Registered!AddFails \/ Registered!Silence \/ Registered!Gone \/ Registered!Enter
         \/ Registered!Work \/ Registered!WorkEnds
         \/ \E k \in Keys : Registered!Add(k) \/ Registered!Reconnect(k) \/ Registered!Lose(k)
         \/ \E k \in Keys, to \in Keys \cup {None} : Registered!Depart(k, to)
  PROVE  [Registered!Next]_Registered!vars
BY DEF Registered!Next

-----------------------------------------------------------------------------
(* Creating a server *)

(* A node that is not yet born has no thread. *)
LEMMA UnbornQuiet ==
  ASSUME RefInv, NEW n \in Nodes, phase[n] = "unborn"
  PROVE  ~assoc[n] /\ n \notin serverMap
BY DEF RefInv, IInv, LifeInv, NoOrphanConnection

(* A server, an entry and an association by their nodes, before and after  *)
(* a step.                                                                 *)
LEMMA ByNode ==
  /\ \A k : k \in Servers <=> \E m \in Live : k = key[m]
  /\ \A k : k \in Known <=> \E m \in serverMap : k = key[m]
  /\ \A k : k \in Online <=> \E m \in Live : assoc[m] /\ k = key[m]
BY DEF Servers, Known, Online, KeysOf

LEMMA ByNodeNext ==
  /\ \A k : k \in Servers' <=> \E m \in Live' : k = key'[m]
  /\ \A k : k \in Known' <=> \E m \in serverMap' : k = key'[m]
  /\ \A k : k \in Online' <=> \E m \in Live' : assoc'[m] /\ k = key'[m]
BY DEF Servers, Known, Online, KeysOf

(* The server of a new node has a key nobody had; it has the association   *)
(* and the entry that its node has.                                        *)
LEMMA NewServer ==
  ASSUME RefInv, NEW n \in Nodes, NEW name \in Names, NEW acts, NewNode(n, name, acts),
         \A m \in Nodes \ {n} : assoc'[m] = assoc[m],
         serverMap' \in {serverMap, serverMap \cup {n}}
  PROVE  /\ Key[name] \in Keys /\ Key[name] \notin Servers
         /\ Servers' = Servers \cup {Key[name]}
         /\ Known' = IF n \in serverMap' THEN Known \cup {Key[name]} ELSE Known
         /\ Online' = IF assoc'[n] THEN Online \cup {Key[name]} ELSE Online
<1> DEFINE k == Key[name]
<1>1. phase[n] = "unborn" /\ phase' = [phase EXCEPT ![n] = "live"]
      /\ key' = [key EXCEPT ![n] = k]
  BY DEF NewNode
<1>2. k \in Keys  BY KeyAssumption
<1>3. k \notin Servers  BY DEF NewNode, KeyInUse, Servers, KeysOf, Live
<1> HIDE DEF k
<1>4. Live' = Live \cup {n} /\ n \notin Live  BY <1>1 DEF Live, RefInv, TypeOK
<1>5. key'[n] = k /\ \A m \in Nodes : m # n => key'[m] = key[m]
  BY <1>1 DEF RefInv, TypeOK
<1>6. serverMap \subseteq Nodes /\ Live \subseteq Nodes /\ n \notin serverMap
  BY <1>1, UnbornQuiet DEF RefInv, TypeOK, Live
<1>7. Servers' = Servers \cup {k}
  <2>1. ASSUME NEW x PROVE x \in Servers' <=> x \in Servers \/ x = k
    <3>1. x \in Servers' <=> \E m \in Live \cup {n} : x = key'[m]  BY <1>4, ByNodeNext
    <3>2. x \in Servers <=> \E m \in Live : x = key[m]  BY ByNode
    <3> QED  BY <1>4, <1>5, <1>6, <3>1, <3>2
  <2> QED  BY <2>1
<1>8. Known' = IF n \in serverMap' THEN Known \cup {k} ELSE Known
  <2>1. ASSUME NEW x PROVE x \in Known' <=> x \in Known \/ (n \in serverMap' /\ x = k)
    <3>1. x \in Known' <=> \E m \in serverMap' : x = key'[m]  BY ByNodeNext
    <3>2. x \in Known <=> \E m \in serverMap : x = key[m]  BY ByNode
    <3>3. CASE n \in serverMap'
      <4>1. serverMap' = serverMap \cup {n}  BY <1>6, <3>3
      <4> QED  BY <1>5, <1>6, <3>1, <3>2, <3>3, <4>1
    <3>4. CASE n \notin serverMap'
      <4>1. serverMap' = serverMap  BY <3>4
      <4> QED  BY <1>5, <1>6, <3>1, <3>2, <3>4, <4>1
    <3> QED  BY <3>3, <3>4
  <2> QED  BY <2>1
<1>9. Online' = IF assoc'[n] THEN Online \cup {k} ELSE Online
  <2>1. ASSUME NEW x PROVE x \in Online' <=> x \in Online \/ (assoc'[n] /\ x = k)
    <3>1. x \in Online' <=> \E m \in Live \cup {n} : assoc'[m] /\ x = key'[m]
      BY <1>4, ByNodeNext
    <3>2. x \in Online <=> \E m \in Live : assoc[m] /\ x = key[m]  BY ByNode
    <3> QED  BY <1>4, <1>5, <1>6, <3>1, <3>2
  <2> QED  BY <2>1
<1> QED  BY <1>2, <1>3, <1>7, <1>8, <1>9 DEF k

(* What responderInitClient does to the servers: refuses, or lets one      *)
(* appear, with an entry unless a call of the SDK failed.                  *)
LEMMA CreateStep ==
  ASSUME RefInv, NEW name \in Names, NEW a \in Addrs, responderInitClient(name, a), ~crashed
  PROVE  /\ loop' = "idle" /\ next' = None /\ ~crashed'
         /\ faults' = 0 => faults = 0
         /\ \/ /\ Key[name] \in Keys /\ Key[name] \notin Servers
               /\ Servers' = Servers \cup {Key[name]}
               /\ Known' \in {Known, Known \cup {Key[name]}}
               /\ Online' \in {Online, Online \cup {Key[name]}}
               /\ Key[name] \in Known' \/ faults' # 0
            \/ /\ UNCHANGED <<Servers, Known, Online>>
               /\ Key[name] \in Servers \/ faults' # 0
               /\ faults' = faults \/ faults' # 0
<1> USE DEF RefInv, TypeOK
<1>1. faults \in Nat  BY BoundAssumption
<1>2. CASE CreateRefused(name)
  <2>1. UNCHANGED <<Servers, Known, Online>>
    BY <1>2 DEF CreateRefused, Servers, Known, Online, KeysOf, Live
  <2>2. Key[name] \in Servers \/ faults' # 0
    BY <1>1, <1>2 DEF CreateRefused, KeyInUse, Fault, Servers, KeysOf, Live
  <2> QED  BY <1>1, <1>2, <2>1, <2>2 DEF CreateRefused, BecomeIdle, Fault
<1>3. ASSUME NEW n \in Nodes, CreateHalf(n, name) PROVE
      /\ Key[name] \in Keys /\ Key[name] \notin Servers
      /\ Servers' = Servers \cup {Key[name]} /\ Known' = Known /\ Online' = Online
      /\ faults' # 0
  <2>1. PICK acts \in HalfActions : NewNode(n, name, acts)  BY <1>3 DEF CreateHalf
  <2>2. ~assoc'[n] /\ n \notin serverMap'  BY <1>3, <2>1, UnbornQuiet DEF NewNode, CreateHalf
  <2>3. assoc' = assoc /\ serverMap' = serverMap  BY <1>3 DEF CreateHalf
  <2> QED  BY <1>1, <1>3, <2>1, <2>2, <2>3, NewServer DEF CreateHalf, Fault
<1>4. ASSUME NEW n \in Nodes, CreateFull(n, name, a) PROVE
      /\ Key[name] \in Keys /\ Key[name] \notin Servers
      /\ Servers' = Servers \cup {Key[name]}
      /\ Known' \in {Known, Known \cup {Key[name]}}
      /\ Online' \in {Online, Online \cup {Key[name]}}
      /\ Key[name] \in Known' \/ faults' # 0
      /\ faults' = 0 => faults = 0
  <2>1. NewNode(n, name, AllActions)  BY <1>4 DEF CreateFull
  <2>2. /\ serverMap' \in {serverMap, serverMap \cup {n}}
        /\ n \in serverMap' \/ faults' # 0
        /\ faults' = faults \/ faults' # 0
    BY <1>1, <1>4 DEF CreateFull, Fault
  <2>3. \A m \in Nodes \ {n} : assoc'[m] = assoc[m]  BY <1>4 DEF CreateFull, Connect
  <2> QED  BY <2>1, <2>2, <2>3, NewServer
<1>5. ASSUME NEW n \in Nodes, CreateHalf(n, name) \/ CreateFull(n, name, a)
      PROVE  loop' = "idle" /\ next' = None /\ ~crashed'
  BY <1>5 DEF CreateHalf, CreateFull, BecomeIdle
<1> QED  BY <1>1, <1>2, <1>3, <1>4, <1>5 DEF responderInitClient, CreateRefused, BecomeIdle

-----------------------------------------------------------------------------
(* The steps of the event loop *)

LEMMA IdleView ==
  ASSUME RefInv, loop = "idle"
  PROVE  Job = "none" /\ Heir = None /\ Leaving = FALSE
BY DEF RefInv, HeirInv, Job, Heir, Leaving, Destroying

LEMMA AddStep ==
  ASSUME RefInv, NEW name \in Names, NEW a \in Addrs, AddServer(name, a)
  PROVE  [Registered!Next]_Registered!vars
<1>1. loop = "idle" /\ ~crashed /\ responderInitClient(name, a)
  BY DEF AddServer, LoopFree
<1>2. Job = "none" /\ Heir = None /\ Leaving = FALSE  BY <1>1, IdleView
<1>3. Job' = "none" /\ Heir' = None /\ Leaving' = FALSE
  BY <1>1, CreateStep DEF Job, Heir, Leaving, Destroying
<1>4. ~crashed' /\ (faults' = 0 => faults = 0)  BY <1>1, CreateStep
<1>5. CASE /\ Key[name] \in Keys /\ Key[name] \notin Servers
           /\ Servers' = Servers \cup {Key[name]}
           /\ Known' \in {Known, Known \cup {Key[name]}}
           /\ Online' \in {Online, Online \cup {Key[name]}}
           /\ Key[name] \in Known' \/ faults' # 0
  <2>1. Registered!Appear(Key[name])
    BY <1>4, <1>5 DEF Registered!Appear, Registered!MayFail
  <2>2. Registered!Add(Key[name])
    BY <1>2, <1>3, <2>1 DEF Registered!Add
  <2> QED  BY <1>1, <1>4, <1>5, <2>2, LiveStep
<1>6. CASE UNCHANGED <<Servers, Known, Online>> /\ (faults' = faults \/ faults' # 0)
  <2>1. CASE faults' = faults
    BY <1>1, <1>2, <1>3, <1>4, <1>6, <2>1 DEF Registered!vars
  <2>2. CASE faults' # 0
    <3>1. Registered!AddFails
      BY <1>2, <1>3, <1>6, <2>2 DEF Registered!AddFails
    <3> QED  BY <1>1, <1>4, <3>1, LiveStep
  <2> QED  BY <1>6, <2>1, <2>2
<1> QED  BY <1>1, <1>5, <1>6, CreateStep

LEMMA EnterStep ==
  ASSUME RefInv, CreateEdited
  PROVE  [Registered!Next]_Registered!vars
<1>1. loop = "create" /\ ~crashed /\ next \in Names \X Addrs
  BY DEF CreateEdited, RefInv, IInv, LoopInv, TypeOK
<1> DEFINE name == next[1]
           k == Key[name]
<1>2. name \in Names /\ next[2] \in Addrs /\ responderInitClient(name, next[2])
  BY <1>1 DEF CreateEdited
<1>3. Job = "enter" /\ Heir = k /\ Leaving = FALSE
  BY <1>1, NoneAssumption DEF Job, Heir, Leaving, Destroying
<1> HIDE DEF name
<1>4. Job' = "none" /\ Heir' = None /\ Leaving' = FALSE
  BY <1>1, <1>2, CreateStep DEF Job, Heir, Leaving, Destroying
<1>5. ~crashed' /\ (faults' = 0 => faults = 0)  BY <1>1, <1>2, CreateStep
<1>6. CASE /\ k \in Keys /\ k \notin Servers
           /\ Servers' = Servers \cup {k}
           /\ Known' \in {Known, Known \cup {k}}
           /\ Online' \in {Online, Online \cup {k}}
           /\ k \in Known' \/ faults' # 0
  <2>1. Registered!Appear(Heir)
    BY <1>3, <1>5, <1>6 DEF Registered!Appear, Registered!MayFail
  <2>2. Registered!Enter
    BY <1>3, <1>4, <2>1 DEF Registered!Enter
  <2> QED  BY <1>1, <1>5, <2>2, LiveStep
<1>7. CASE UNCHANGED <<Servers, Known, Online>> /\ (k \in Servers \/ faults' # 0)
  <2>1. Registered!Enter
    BY <1>3, <1>4, <1>5, <1>7 DEF Registered!Enter, Registered!MayFail
  <2> QED  BY <1>1, <1>5, <2>1, LiveStep
<1> QED  BY <1>1, <1>2, <1>6, <1>7, CreateStep

(* A handler that finds no entry for its server: the one a failed call has *)
(* left.                                                                   *)
LEMMA LookupStep ==
  ASSUME RefInv, NEW n \in Nodes, phase[n] = "live", loop = "idle", ~crashed, LookupFails(n)
  PROVE  [Registered!Next]_Registered!vars
<1>1. Servers # Known  BY OneKey DEF LookupFails
<1>2. UNCHANGED <<Servers, Known, Online, faults>>
  BY DEF LookupFails, Servers, Known, Online, KeysOf, Live
<1>3. UNCHANGED <<Job, Heir, Leaving>>
  BY DEF LookupFails, Enter, Job, Heir, Leaving, Destroying
<1> QED  BY <1>1, <1>2, <1>3, DieStep DEF LookupFails

(* A server that leaves the tree takes its key with it. *)
LEMMA DepartStep ==
  ASSUME RefInv, NEW n \in Nodes, phase[n] = "live", loop = "idle", ~crashed,
         NEW then \in (Names \X Addrs) \cup {None}, BeginRemove(n, then)
  PROVE  [Registered!Next]_Registered!vars
<1> DEFINE k == key[n]
           to == IF then = None THEN None ELSE Key[then[1]]
<1>1. /\ phase' = [phase EXCEPT ![n] = "unlinked"] /\ serverMap' = serverMap \ {n}
      /\ n \in serverMap /\ loop' = "destroy" /\ cur' = n /\ next' = then
      /\ UNCHANGED <<key, assoc, faults, crashed>>
  BY DEF BeginRemove, Enter
<1>2. /\ k \in Keys /\ k \in Servers /\ k \in Known
      /\ k \in Online <=> assoc[n]
  BY <1>1, OneKey
<1>3. Live' = Live \ {n} /\ Live \subseteq Nodes /\ serverMap \subseteq Live
  BY <1>1 DEF Live, RefInv, IInv, TypeOK, MapMatchesTree
<1>4. \A m \in Live : m # n => key[m] # k
  BY <1>3 DEF RefInv, IInv, UniqueKeys, Live
<1> HIDE DEF k
<1>5. n \in Live /\ key[n] = k  BY DEF k, Live
<1>6. Servers' = Servers \ {k}
  <2>1. ASSUME NEW x PROVE x \in Servers' <=> x \in Servers /\ x # k
    <3>1. x \in Servers' <=> \E m \in Live \ {n} : x = key[m]  BY <1>1, <1>3, ByNodeNext
    <3>2. x \in Servers <=> \E m \in Live : x = key[m]  BY ByNode
    <3> QED  BY <1>4, <1>5, <3>1, <3>2
  <2> QED  BY <2>1
<1>7. Known' = Known \ {k}
  <2>1. ASSUME NEW x PROVE x \in Known' <=> x \in Known /\ x # k
    <3>1. x \in Known' <=> \E m \in serverMap \ {n} : x = key[m]  BY <1>1, ByNodeNext
    <3>2. x \in Known <=> \E m \in serverMap : x = key[m]  BY ByNode
    <3> QED  BY <1>3, <1>4, <1>5, <3>1, <3>2
  <2> QED  BY <2>1
<1>8. Online' = Online \ {k}
  <2>1. ASSUME NEW x PROVE x \in Online' <=> x \in Online /\ x # k
    <3>1. x \in Online' <=> \E m \in Live \ {n} : assoc[m] /\ x = key[m]
      BY <1>1, <1>3, ByNodeNext
    <3>2. x \in Online <=> \E m \in Live : assoc[m] /\ x = key[m]  BY ByNode
    <3> QED  BY <1>4, <1>5, <3>1, <3>2
  <2> QED  BY <2>1
<1>9. Job' = "leave" /\ Heir' = to /\ Leaving' = assoc[n]
  <2>1. Job' = "leave" /\ Heir' = to  BY <1>1 DEF Job, Heir
  <2>2. Leaving' <=> assoc[n]  BY <1>1 DEF Leaving, Destroying
  <2>3. assoc[n] \in BOOLEAN  BY DEF RefInv, TypeOK
  <2>4. Leaving' \in BOOLEAN  BY DEF Leaving
  <2> QED  BY <2>1, <2>2, <2>3, <2>4
<1>10. Job = "none"  BY IdleView
<1>11. to \in Keys \cup {None}  BY KeyAssumption
<1>12. Registered!Depart(k, to)
  <2>1. Leaving' \in BOOLEAN  BY DEF Leaving
  <2> QED  BY <1>1, <1>2, <1>6, <1>7, <1>8, <1>9, <1>10, <2>1 DEF Registered!Depart
<1> QED  BY <1>1, <1>2, <1>11, <1>12, LiveStep

(* A reconnect of a server that is not connected. *)
LEMMA ReconnectStep ==
  ASSUME RefInv, NEW n \in serverMap, loop = "idle", ~crashed, ied[n] # "connected", Connect(n),
         UNCHANGED <<treeVars, loopVars, faults, crashed>>
  PROVE  [Registered!Next]_Registered!vars
<1> DEFINE k == key[n]
<1>1. n \in Nodes /\ phase[n] = "live" /\ ~assoc[n]
  BY DEF RefInv, IInv, TypeOK, MapMatchesTree, NoOrphanConnection
<1>2. k \in Keys /\ k \in Known  BY <1>1, OneKey
<1>3. UNCHANGED <<Servers, Known, Job, Heir>>
  BY DEF Servers, Known, Job, Heir, KeysOf, Live
<1>4. Leaving = FALSE /\ Leaving' = FALSE  BY DEF Leaving, Destroying
<1>5. assoc' = [assoc EXCEPT ![n] = assoc'[n]]  BY <1>1 DEF Connect, RefInv, TypeOK
<1>6. Live' = Live /\ n \in Live /\ Live \subseteq Nodes  BY <1>1 DEF Live
<1>7. CASE assoc'[n]
  <2>1. ASSUME NEW x PROVE x \in Online' <=> x \in Online \/ x = k
    <3>1. x \in Online' <=> \E m \in Live : assoc'[m] /\ x = key[m]  BY <1>6, ByNodeNext
    <3>2. x \in Online <=> \E m \in Live : assoc[m] /\ x = key[m]  BY ByNode
    <3>3. \A m \in Live : m # n => assoc'[m] = assoc[m]
      BY <1>1, <1>5, <1>6 DEF RefInv, TypeOK
    <3> QED  BY <1>6, <1>7, <3>1, <3>2, <3>3
  <2>2. Online' = Online \cup {k}  BY <2>1
  <2>3. Registered!Reconnect(k)
    BY <1>2, <1>3, <1>4, <2>2, IdleView DEF Registered!Reconnect
  <2> QED  BY <1>2, <2>3, LiveStep
<1>8. CASE ~assoc'[n]
  <2>1. assoc' = assoc
    <3>1. assoc'[n] = assoc[n]  BY <1>1, <1>8 DEF Connect, RefInv, TypeOK
    <3> QED  BY <1>1, <1>5, <3>1 DEF RefInv, TypeOK
  <2> QED  BY <2>1, HiddenStep
<1> QED  BY <1>7, <1>8

LEMMA EditStep ==
  ASSUME RefInv, NEW n \in Nodes, NEW name \in Names, NEW a \in Addrs, EditServer(n, name, a)
  PROVE  [Registered!Next]_Registered!vars
<1>1. phase[n] = "live" /\ loop = "idle" /\ ~crashed  BY DEF EditServer, Invoked, LoopFree
<1>2. CASE n \in serverMap /\ ied[n] # "connected" /\ Connect(n)
           /\ UNCHANGED <<treeVars, loopVars, faults, crashed>>
  BY <1>1, <1>2, ReconnectStep
<1>3. CASE BeginRemove(n, <<name, a>>)  BY <1>1, <1>3, DepartStep
<1> QED  BY <1>1, <1>2, <1>3, LookupStep DEF EditServer

LEMMA RemoveStep ==
  ASSUME RefInv, NEW n \in Nodes, RemoveServer(n)
  PROVE  [Registered!Next]_Registered!vars
<1>1. phase[n] = "live" /\ loop = "idle" /\ ~crashed  BY DEF RemoveServer, Invoked, LoopFree
<1> QED  BY <1>1, LookupStep, DepartStep DEF RemoveServer

(* What touches no server: Clear, the status, the start of a discovery. *)
LEMMA ServerKeptStep ==
  ASSUME RefInv, NEW n \in Nodes, ClearServer(n) \/ Subscribe(n) \/ Discover(n)
  PROVE  [Registered!Next]_Registered!vars
<1>1. phase[n] = "live" /\ loop = "idle" /\ ~crashed
  BY DEF ClearServer, Subscribe, Discover, Invoked, LoopFree
<1>2. CASE LookupFails(n)  BY <1>1, <1>2, LookupStep
<1>3. CASE ClearServer(n)  BY <1>3, HiddenStep DEF ClearServer
<1>4. CASE Subscribe(n) /\ ~LookupFails(n)
  <2>1. UNCHANGED <<phase, key, serverMap, assoc, loop, cur, next, faults, crashed>>
    BY <1>4 DEF Subscribe
  <2> QED  BY <2>1, HiddenStep
<1>5. CASE Discover(n) /\ ~LookupFails(n)
  <2>1. n \in serverMap /\ UNCHANGED <<phase, key, serverMap, assoc, next, faults, crashed>>
    BY <1>5 DEF Discover
  <2>2. (loop' = "discover" /\ cur' = n) \/ UNCHANGED <<loop, cur>>
    BY <1>5 DEF Discover, Enter
  <2>3. CASE UNCHANGED <<loop, cur>>  BY <2>1, <2>3, HiddenStep
  <2>4. CASE loop' = "discover"
    <3>1. UNCHANGED <<Servers, Known, Online, Heir>>
      BY <2>1 DEF Servers, Known, Online, Heir, KeysOf, Live
    <3>2. Leaving = FALSE /\ Leaving' = FALSE  BY <1>1, <2>4 DEF Leaving, Destroying
    <3>3. Job = "none" /\ Job' = "work"  BY <1>1, <2>4 DEF Job
    <3>4. key[n] \in Known  BY <1>1, <2>1, OneKey
    <3>5. Registered!Work  BY <2>1, <3>1, <3>2, <3>3, <3>4 DEF Registered!Work
    <3> QED  BY <1>1, <2>1, <3>5, LiveStep
  <2> QED  BY <2>2, <2>3, <2>4
<1> QED  BY <1>2, <1>3, <1>4, <1>5

LEMMA DiscoverDeviceStep ==
  ASSUME RefInv, NEW n \in Nodes, NEW d \in Devices, DiscoverDevice(n, d)
  PROVE  [Registered!Next]_Registered!vars
<1>1. /\ UNCHANGED <<phase, key, serverMap, assoc, loop, cur, next, faults>>
      /\ loop = "discover" /\ ~crashed /\ crashed' \in {crashed, TRUE}
  BY DEF DiscoverDevice, RefInv, TypeOK
<1>2. CASE crashed' = crashed  BY <1>1, <1>2, HiddenStep
<1>3. CASE crashed' = TRUE
  <2>1. Job = "work"  BY <1>1 DEF Job
  <2> QED  BY <1>1, <1>3, <2>1, Hidden, DieStep
<1> QED  BY <1>1, <1>2, <1>3

LEMMA DiscoverEndsStep ==
  ASSUME RefInv, DiscoverEnds
  PROVE  [Registered!Next]_Registered!vars
<1>1. /\ UNCHANGED <<phase, key, serverMap, assoc, faults, crashed>>
      /\ loop = "discover" /\ loop' = "idle" /\ next = None /\ next' = None /\ ~crashed
  BY DEF DiscoverEnds, BecomeIdle, RefInv, HeirInv
<1>2. UNCHANGED <<Servers, Known, Online, Heir>>
  BY <1>1 DEF Servers, Known, Online, Heir, KeysOf, Live
<1>3. Leaving = FALSE /\ Leaving' = FALSE  BY <1>1 DEF Leaving, Destroying
<1>4. Job = "work" /\ Job' = "none"  BY <1>1 DEF Job
<1>5. Registered!WorkEnds  BY <1>1, <1>2, <1>3, <1>4 DEF Registered!WorkEnds
<1> QED  BY <1>1, <1>5, LiveStep

LEMMA DestroyedStep ==
  ASSUME RefInv, NEW n \in Nodes, Destroyed(n)
  PROVE  [Registered!Next]_Registered!vars
<1>1. /\ UNCHANGED <<phase, key, serverMap, assoc, cur, next, faults, crashed>>
      /\ loop = "destroy" /\ loop' = "free" /\ cur = n /\ ~assoc[n]
  BY DEF Destroyed
<1>2. UNCHANGED <<Servers, Known, Online, Heir>>
  BY <1>1 DEF Servers, Known, Online, Heir, KeysOf, Live
<1>3. Leaving = FALSE /\ Leaving' = FALSE  BY <1>1 DEF Leaving, Destroying
<1>4. Job = "leave" /\ Job' = "leave"  BY <1>1 DEF Job
<1> QED  BY <1>1, <1>2, <1>3, <1>4 DEF Registered!vars

LEMMA FreeTreeStep ==
  ASSUME RefInv, NEW n \in Nodes, FreeTree(n)
  PROVE  [Registered!Next]_Registered!vars
<1>1. /\ UNCHANGED <<key, serverMap, assoc, faults, crashed>>
      /\ phase' = [phase EXCEPT ![n] = "freed"] /\ phase[n] = "unlinked"
      /\ loop = "free" /\ ~crashed
      /\ next' = next /\ loop' = (IF next = None THEN "idle" ELSE "create")
  BY DEF FreeTree, BecomeIdle, RefInv, IInv, LoopInv
<1>2. Live' = Live  BY <1>1 DEF Live, RefInv, TypeOK
<1>3. UNCHANGED <<Servers, Known, Online, Heir>>
  BY <1>1, <1>2 DEF Servers, Known, Online, Heir, KeysOf
<1>4. Leaving = FALSE /\ Leaving' = FALSE  BY <1>1 DEF Leaving, Destroying
<1>5. Job = "leave" /\ Job' = IF next = None THEN "none" ELSE "enter"  BY <1>1 DEF Job
<1>6. Heir = None <=> next = None
  BY KeyAssumption, NoneAssumption DEF Heir, RefInv, TypeOK
<1>7. Registered!Gone  BY <1>1, <1>3, <1>4, <1>5, <1>6 DEF Registered!Gone
<1> QED  BY <1>1, <1>7, LiveStep

-----------------------------------------------------------------------------
(* The steps of the receive threads *)

LEMMA LostStep ==
  ASSUME RefInv, NEW n \in Nodes, ConnectionLost(n)
  PROVE  [Registered!Next]_Registered!vars
<1> DEFINE k == key[n]
<1>1. assoc[n] /\ ~Destroying(n) /\ ~crashed /\ assoc' = [assoc EXCEPT ![n] = FALSE]
      /\ UNCHANGED <<treeVars, loopVars, faults, crashed>>
  BY DEF ConnectionLost
<1>2. phase[n] = "live"  BY <1>1, ThreadOwned
<1>3. k \in Keys  BY <1>2, OneKey
<1>4. UNCHANGED <<Servers, Known, Job, Heir>>
  BY <1>1 DEF Servers, Known, Job, Heir, KeysOf, Live
<1>5. /\ Live' = Live /\ n \in Live
      /\ \A m \in Live : assoc'[m] <=> assoc[m] /\ m # n
      /\ \A m \in Live : m # n => key[m] # k
  BY <1>1, <1>2 DEF Live, RefInv, IInv, UniqueKeys, TypeOK
<1>6. UNCHANGED Leaving
  <2>1. Leaving' <=> Leaving  BY <1>1 DEF Leaving, Destroying, RefInv, TypeOK
  <2> QED  BY <2>1 DEF Leaving
<1>7. Online' = Online \ {k}
  <2>1. ASSUME NEW x PROVE x \in Online' <=> x \in Online /\ x # k
    <3>1. x \in Online' <=> \E m \in Live : assoc'[m] /\ x = key[m]
      BY <1>1, <1>5, ByNodeNext
    <3>2. x \in Online <=> \E m \in Live : assoc[m] /\ x = key[m]  BY ByNode
    <3> QED  BY <1>5, <3>1, <3>2
  <2> QED  BY <2>1
<1>8. Registered!Lose(k)  BY <1>1, <1>4, <1>6, <1>7 DEF Registered!Lose
<1> QED  BY <1>1, <1>3, <1>8, LiveStep

LEMMA StopsStep ==
  ASSUME RefInv, NEW n \in Nodes, ReceiverStops(n)
  PROVE  [Registered!Next]_Registered!vars
<1>1. assoc[n] /\ Destroying(n) /\ ~crashed /\ assoc' = [assoc EXCEPT ![n] = FALSE]
      /\ UNCHANGED <<treeVars, loopVars, faults, crashed>>
  BY DEF ReceiverStops
<1>2. n \notin Live  BY <1>1 DEF RefInv, IInv, LoopInv, Destroying, Live
<1>3. UNCHANGED <<Servers, Known, Job, Heir>>
  BY <1>1 DEF Servers, Known, Job, Heir, KeysOf, Live
<1>4. UNCHANGED Online
  <2>1. {m \in Live' : assoc'[m]} = {m \in Live : assoc[m]}
    BY <1>1, <1>2 DEF Live, RefInv, TypeOK
  <2> QED  BY <1>1, <2>1 DEF Online, KeysOf
<1>5. Leaving = TRUE /\ Leaving' = FALSE
  BY <1>1 DEF Leaving, Destroying, RefInv, TypeOK
<1>6. Registered!Silence  BY <1>1, <1>3, <1>4, <1>5 DEF Registered!Silence
<1> QED  BY <1>1, <1>6, LiveStep

LEMMA DeliverStep ==
  ASSUME RefInv, NEW n \in Nodes, Delivers(n)
  PROVE  [Registered!Next]_Registered!vars
<1>1. /\ UNCHANGED <<phase, key, serverMap, assoc, loop, cur, next, faults>>
      /\ ~crashed /\ rx[n] # None /\ crashed' \in {crashed, TRUE}
  BY DEF Delivers, ReportEnter, ReportLookup, ReportDone, RxAt, RxMoves, RxDies
<1>2. CASE crashed' = crashed  BY <1>1, <1>2, HiddenStep
<1>3. CASE crashed' = TRUE
  <2>1. assoc[n]  BY <1>1 DEF RefInv, IInv, DeliveryInv
  <2>2. phase[n] = "live" => key[n] \in Online  BY <2>1, OneKey
  <2>3. Online # {} \/ Leaving  BY <2>1, <2>2, ThreadOwned
  <2> QED  BY <1>1, <1>3, <2>3, Hidden, DieStep
<1> QED  BY <1>1, <1>2, <1>3

-----------------------------------------------------------------------------
(* The refinement *)

LEMMA RegisteredInit == Init => Registered!Init
BY DEF Init, Registered!Init, Servers, Known, Online, Job, Heir, Leaving, KeysOf, Live, Destroying

LEMMA RegisteredStep == RefInv /\ [Next]_vars => [Registered!Next]_Registered!vars
<1> SUFFICES ASSUME RefInv, [Next]_vars PROVE [Registered!Next]_Registered!vars  OBVIOUS
<1>1. CASE Invocations
  BY <1>1, AddStep, EditStep, RemoveStep, ServerKeptStep DEF Invocations
<1>2. CASE LoopSteps
  BY <1>2, EnterStep, DiscoverEndsStep, DestroyedStep, FreeTreeStep, DiscoverDeviceStep
     DEF LoopSteps
<1>3. CASE Receivers
  <2>1. ASSUME NEW n \in Nodes, NEW d \in Devices, ReportMatched(n, d)
        PROVE  [Registered!Next]_Registered!vars
    BY <2>1, HiddenStep DEF ReportMatched
  <2> QED  BY <1>3, <2>1, LostStep, StopsStep, DeliverStep DEF Receivers
<1>4. CASE UNCHANGED vars  BY <1>4, HiddenStep
<1> QED  BY <1>1, <1>2, <1>3, <1>4 DEF Next, AtRest

(* The handlers of client_handler.c and add_server.c, with the receive     *)
(* threads that interrupt them, show the user the steps of Registry.       *)
THEOREM RegistryRefined == Spec => RegistryImplemented
<1>1. Spec => Registered!Init /\ [][Registered!Next]_Registered!vars
  BY RegisteredInit, RegisteredStep, RefInvariance, PTL DEF Spec
<1> QED  BY <1>1 DEF RegistryImplemented, Registered!Spec

-----------------------------------------------------------------------------
(* The connection of each server *)

UsedStep(n) == Linked(n)!Next \/ UNCHANGED Linked(n)!vars

(* Most steps leave a connection alone. *)
LEMMA LinkKept ==
  ASSUME NEW n \in Nodes, UNCHANGED <<ied[n], assoc[n]>>,
         Destroying(n)' <=> Destroying(n)
  PROVE  UsedStep(n)
BY DEF UsedStep, Linked!vars

LEMMA LinkAlone ==
  ASSUME NEW n \in Nodes, UNCHANGED <<ied, assoc>>,
         UNCHANGED <<loop, cur>> \/ (loop # "destroy" /\ loop' # "destroy")
  PROVE  UsedStep(n)
<1>1. Destroying(n)' <=> Destroying(n)  BY DEF Destroying
<1> QED  BY <1>1, LinkKept

LEMMA UsedConnect ==
  ASSUME RefInv, NEW n \in Nodes, NEW m \in Nodes, Connect(m),
         ied[m] \in {"none", "idle", "closed"}, loop # "destroy", loop' # "destroy"
  PROVE  UsedStep(n)
<1>1. ~Destroying(n) /\ ~Destroying(n)'  BY DEF Destroying
<1>2. PICK outcome \in {"refused", "up", "lost"} :
        /\ assoc' = [assoc EXCEPT ![m] = (outcome = "up")]
        /\ ied' = [ied EXCEPT ![m] = IF outcome # "refused" THEN "connected"
                                     ELSE IF @ = "none" THEN "idle" ELSE @]
  BY DEF Connect
<1>3. CASE n # m
  BY <1>1, <1>2, <1>3, LinkKept DEF RefInv, TypeOK
<1>4. CASE n = m
  <2>1. assoc[n] = FALSE  BY <1>4 DEF RefInv, IInv, NoOrphanConnection, TypeOK
  <2>2. assoc'[n] = (outcome = "up")  BY <1>2, <1>4 DEF RefInv, TypeOK
  <2>3. CASE outcome = "refused"
    <3>1. ied'[n] \in {"idle", "closed"} /\ assoc'[n] = FALSE
      BY <1>2, <1>4, <2>2, <2>3 DEF RefInv, TypeOK
    <3> QED  BY <1>1, <1>4, <2>1, <3>1 DEF UsedStep, Linked!vars
  <2>4. CASE outcome # "refused"
    <3>1. ied'[n] = "connected" /\ assoc'[n] \in BOOLEAN
      BY <1>2, <1>4, <2>2, <2>4 DEF RefInv, TypeOK
    <3>2. Linked(n)!Connect  BY <1>1, <1>4, <3>1 DEF Linked!Connect
    <3> QED  BY <3>2 DEF UsedStep, Linked!Next
  <2> QED  BY <2>3, <2>4
<1> QED  BY <1>3, <1>4

LEMMA UsedCreate ==
  ASSUME RefInv, NEW n \in Nodes, NEW name, NEW a, responderInitClient(name, a),
         loop # "destroy"
  PROVE  UsedStep(n)
<1>1. CASE CreateRefused(name)
  BY <1>1, LinkAlone DEF CreateRefused, BecomeIdle
<1>2. ASSUME NEW m \in Nodes, CreateHalf(m, name) PROVE UsedStep(n)
  BY <1>2, LinkAlone DEF CreateHalf, BecomeIdle
<1>3. ASSUME NEW m \in Nodes, CreateFull(m, name, a) PROVE UsedStep(n)
  <2>1. ied[m] = "none"
    BY <1>3 DEF CreateFull, NewNode, RefInv, IInv, LifeInv
  <2>2. Connect(m) /\ loop' = "idle"  BY <1>3 DEF CreateFull, BecomeIdle
  <2> QED  BY <2>1, <2>2, UsedConnect
<1> QED  BY <1>1, <1>2, <1>3 DEF responderInitClient

(* Removing a server closes its connection, however it stands. *)
LEMMA UsedRemove ==
  ASSUME RefInv, NEW n \in Nodes, NEW m \in Nodes, NEW then, BeginRemove(m, then),
         loop = "idle"
  PROVE  UsedStep(n)
<1>1. /\ loop' = "destroy" /\ cur' = m /\ m \in serverMap /\ UNCHANGED <<ied, assoc>>
  BY DEF BeginRemove, Enter
<1>2. ~Destroying(n) /\ (Destroying(n)' <=> n = m)  BY <1>1 DEF Destroying
<1>3. CASE n # m  BY <1>1, <1>2, <1>3, LinkKept
<1>4. CASE n = m
  <2>1. ied[n] # "destroyed"  BY <1>1, <1>4 DEF RefInv, IInv, MapMatchesTree
  <2>2. Linked(n)!Close  BY <1>1, <1>2, <1>4, <2>1 DEF Linked!Close
  <2> QED  BY <2>2 DEF UsedStep, Linked!Next
<1> QED  BY <1>3, <1>4

LEMMA UsedInvoked ==
  ASSUME RefInv, NEW n \in Nodes, Invocations
  PROVE  UsedStep(n)
<1>1. loop = "idle"
  BY DEF Invocations, AddServer, EditServer, RemoveServer, ClearServer, Subscribe, Discover,
         Invoked, LoopFree
<1>2. ASSUME NEW m \in Nodes, LookupFails(m) PROVE UsedStep(n)
  BY <1>1, <1>2, LinkAlone DEF LookupFails, Enter
<1>3. ASSUME NEW name \in Names, NEW a \in Addrs, AddServer(name, a) PROVE UsedStep(n)
  BY <1>1, <1>3, UsedCreate DEF AddServer
<1>4. ASSUME NEW m \in Nodes, NEW name \in Names, NEW a \in Addrs, EditServer(m, name, a)
      PROVE  UsedStep(n)
  <2>1. CASE m \in serverMap /\ ied[m] # "connected" /\ Connect(m) /\ UNCHANGED loop
    <3>1. ied[m] \in {"idle", "closed"}  BY <2>1 DEF RefInv, IInv, MapMatchesTree
    <3> QED  BY <1>1, <2>1, <3>1, UsedConnect
  <2> QED  BY <1>1, <1>2, <1>4, <2>1, UsedRemove DEF EditServer
<1>5. ASSUME NEW m \in Nodes, RemoveServer(m) PROVE UsedStep(n)
  BY <1>1, <1>2, <1>5, UsedRemove DEF RemoveServer
<1>6. ASSUME NEW m \in Nodes, ClearServer(m) PROVE UsedStep(n)
  BY <1>1, <1>6, LinkAlone DEF ClearServer
<1>7. ASSUME NEW m \in Nodes, Subscribe(m) PROVE UsedStep(n)
  BY <1>1, <1>2, <1>7, LinkAlone DEF Subscribe
<1>8. ASSUME NEW m \in Nodes, Discover(m) PROVE UsedStep(n)
  <2>1. CASE LookupFails(m)  BY <1>2, <2>1
  <2>2. CASE ~LookupFails(m)
    <3>1. UNCHANGED <<ied, assoc>> /\ loop' \in {loop, "discover"}
      BY <1>8, <2>2 DEF Discover, Enter
    <3> QED  BY <1>1, <3>1, LinkAlone
  <2> QED  BY <2>1, <2>2
<1> QED  BY <1>3, <1>4, <1>5, <1>6, <1>7, <1>8 DEF Invocations

LEMMA UsedByLoop ==
  ASSUME RefInv, NEW n \in Nodes, LoopSteps
  PROVE  UsedStep(n)
<1>1. CASE CreateEdited
  BY <1>1, UsedCreate DEF CreateEdited
<1>2. CASE DiscoverEnds
  BY <1>2, LinkAlone DEF DiscoverEnds, BecomeIdle
<1>3. ASSUME NEW m \in Nodes, NEW d \in Devices, DiscoverDevice(m, d) PROVE UsedStep(n)
  BY <1>3, LinkAlone DEF DiscoverDevice
<1>4. ASSUME NEW m \in Nodes, FreeTree(m) PROVE UsedStep(n)
  BY <1>4, LinkAlone DEF FreeTree, BecomeIdle
<1>5. ASSUME NEW m \in Nodes, Destroyed(m) PROVE UsedStep(n)
  <2>1. /\ loop = "destroy" /\ loop' = "free" /\ cur = m /\ ~assoc[m] /\ UNCHANGED assoc
        /\ ied' = [ied EXCEPT ![m] = "destroyed"]
    BY <1>5 DEF Destroyed
  <2>2. ~Destroying(n)' /\ (Destroying(n) <=> n = m)  BY <2>1 DEF Destroying
  <2>3. CASE n # m  BY <2>1, <2>2, <2>3, LinkKept DEF RefInv, TypeOK
  <2>4. CASE n = m
    <3>1. ied'[n] = "destroyed"  BY <2>1, <2>4 DEF RefInv, TypeOK
    <3>2. Linked(n)!Gone  BY <2>1, <2>2, <2>4, <3>1 DEF Linked!Gone
    <3> QED  BY <3>2 DEF UsedStep, Linked!Next
  <2> QED  BY <2>3, <2>4
<1> QED  BY <1>1, <1>2, <1>3, <1>4, <1>5 DEF LoopSteps

LEMMA UsedByThread ==
  ASSUME RefInv, NEW n \in Nodes, Receivers
  PROVE  UsedStep(n)
<1>1. ASSUME NEW m \in Nodes, ConnectionLost(m) PROVE UsedStep(n)
  <2>1. /\ assoc[m] /\ ~Destroying(m) /\ UNCHANGED <<loop, cur>>
        /\ assoc' = [assoc EXCEPT ![m] = FALSE] /\ ied' = [ied EXCEPT ![m] = "closed"]
    BY <1>1 DEF ConnectionLost
  <2>2. Destroying(n)' <=> Destroying(n)  BY <2>1 DEF Destroying
  <2>3. CASE n # m  BY <2>1, <2>2, <2>3, LinkKept DEF RefInv, TypeOK
  <2>4. CASE n = m
    <3>1. ied[n] = "connected"  BY <2>1, <2>4 DEF RefInv, IInv, NoOrphanConnection
    <3>2. assoc'[n] = FALSE /\ ied'[n] = "closed"  BY <2>1, <2>4 DEF RefInv, TypeOK
    <3>3. Linked(n)!Lose  BY <2>1, <2>2, <2>4, <3>1, <3>2 DEF Linked!Lose
    <3> QED  BY <3>3 DEF UsedStep, Linked!Next
  <2> QED  BY <2>3, <2>4
<1>2. ASSUME NEW m \in Nodes, ReceiverStops(m) PROVE UsedStep(n)
  <2>1. /\ assoc[m] /\ Destroying(m) /\ UNCHANGED <<loop, cur, ied>>
        /\ assoc' = [assoc EXCEPT ![m] = FALSE]
    BY <1>2 DEF ReceiverStops
  <2>2. Destroying(n)' <=> Destroying(n)  BY <2>1 DEF Destroying
  <2>3. CASE n # m  BY <2>1, <2>2, <2>3, LinkKept DEF RefInv, TypeOK
  <2>4. CASE n = m
    <3>1. assoc'[n] = FALSE  BY <2>1, <2>4 DEF RefInv, TypeOK
    <3>2. Linked(n)!Stop  BY <2>1, <2>2, <2>4, <3>1 DEF Linked!Stop
    <3> QED  BY <3>2 DEF UsedStep, Linked!Next
  <2> QED  BY <2>3, <2>4
<1>3. ASSUME NEW m \in Nodes, Delivers(m) PROVE UsedStep(n)
  BY <1>3, LinkAlone DEF Delivers, ReportEnter, ReportLookup, ReportDone
<1>4. ASSUME NEW m \in Nodes, NEW d \in Devices, ReportMatched(m, d) PROVE UsedStep(n)
  BY <1>4, LinkAlone DEF ReportMatched
<1> QED  BY <1>1, <1>2, <1>3, <1>4 DEF Receivers

(* Add, Edit, Remove and the receive threads use each connection as        *)
(* MmsClient provides it: nothing is connected before its predecessor is   *)
(* down, and nothing is freed before its thread has stopped.               *)
THEOREM ConnectionsUsedAsMade == Spec => ConnectionsUsed
<1>1. Init => \A n \in Nodes : Linked(n)!Init
  BY DEF Init, Linked!Init, Destroying
<1>2. RefInv /\ [Next]_vars => \A n \in Nodes : UsedStep(n)
  <2> SUFFICES ASSUME RefInv, [Next]_vars, NEW n \in Nodes PROVE UsedStep(n)  OBVIOUS
  <2>1. CASE UNCHANGED vars  BY <2>1, LinkAlone
  <2> QED  BY <2>1, UsedInvoked, UsedByLoop, UsedByThread DEF Next, AtRest
<1>3. RefInv /\ [Next]_vars => [\A n \in Nodes : Linked(n)!Next \/ UNCHANGED Linked(n)!vars]_vars
  BY <1>2 DEF UsedStep
<1> QED  BY <1>1, <1>3, RefInvariance, PTL DEF Spec, ConnectionsUsed
=============================================================================
