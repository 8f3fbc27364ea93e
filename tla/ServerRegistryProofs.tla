------------------------ MODULE ServerRegistryProofs ------------------------
(***************************************************************************)
(* What ServerRegistry promises for every set of servers, devices, names   *)
(* and addresses and every bound: the invariants of the registry, by one   *)
(* inductive invariant, and the properties of its steps.                   *)
(***************************************************************************)
EXTENDS ServerRegistry, TLAPS

USE DEF treeVars, connVars, dataVars, loopVars, vars

-----------------------------------------------------------------------------
(* Types *)

LEMMA TypeInit == Init => TypeOK
<1> SUFFICES ASSUME Init PROVE TypeOK
  OBVIOUS
<1>1. NoRcbs \in [Devices -> 0..MaxGen]
  BY BoundAssumption DEF NoRcbs
<1>2. /\ phase \in [Nodes -> Phases] /\ ied \in [Nodes -> IedState]
      /\ status \in [Nodes -> Statuses] /\ loop \in LoopOps
  BY DEF Init, Phases, IedState, Statuses, LoopOps
<1>3. gen \in [Nodes -> 0..MaxGen] /\ faults \in 0..MaxFaults
  BY BoundAssumption DEF Init
<1> QED BY <1>1, <1>2, <1>3 DEF Init, TypeOK

LEMMA TypeTree ==
  ASSUME TypeOK, LoopInv,
         \/ \E name \in Names, a \in Addrs : AddServer(name, a)
         \/ CreateEdited
         \/ \E n \in Nodes, name \in Names, a \in Addrs : EditServer(n, name, a)
         \/ \E n \in Nodes : RemoveServer(n)
  PROVE  TypeOK'
<1> USE KeyAssumption, BoundAssumption DEF TypeOK, BecomeIdle, Enter, Fault
<1> DEFINE ConnTypes == /\ assoc' \in [Nodes -> BOOLEAN]
                        /\ ied' \in [Nodes -> IedState]
<1>1. ASSUME NEW n \in Nodes, Connect(n) PROVE ConnTypes
  BY <1>1 DEF Connect, IedState
<1>2. ASSUME NEW n \in Nodes, LookupFails(n) PROVE TypeOK'
  BY <1>2 DEF LookupFails, LoopOps
<1>3. ASSUME NEW n \in Nodes, NEW then \in (Names \X Addrs) \cup {None}, BeginRemove(n, then)
      PROVE  TypeOK'
  BY <1>3 DEF BeginRemove, LoopOps, Phases
<1>4. ASSUME NEW name \in Names, CreateRefused(name) PROVE TypeOK'
  BY <1>4 DEF CreateRefused, LoopOps
<1>5. ASSUME NEW n \in Nodes, NEW name \in Names, CreateHalf(n, name) PROVE TypeOK'
  BY <1>5 DEF CreateHalf, NewNode, HalfActions, AllActions, LoopOps, Phases
<1>6. ASSUME NEW n \in Nodes, NEW name \in Names, NEW a \in Addrs, CreateFull(n, name, a)
      PROVE  TypeOK'
  <2>1. ConnTypes
    BY <1>6, <1>1 DEF CreateFull
  <2>2. phase' \in [Nodes -> Phases] /\ key' \in [Nodes -> Keys \cup {None}]
        /\ addr' \in [Nodes -> Addrs \cup {None}] /\ actions' \in [Nodes -> SUBSET AllActions]
    BY <1>6 DEF CreateFull, NewNode, Phases
  <2>3. serverMap' \in SUBSET Nodes /\ faults' \in 0..MaxFaults
    BY <1>6 DEF CreateFull
  <2>4. status' \in [Nodes -> Statuses]
    BY <1>6 DEF CreateFull, Statuses
  <2> QED BY <1>6, <2>1, <2>2, <2>3, <2>4 DEF CreateFull, LoopOps
<1>7. ASSUME NEW name \in Names, NEW a \in Addrs, responderInitClient(name, a) PROVE TypeOK'
  BY <1>7, <1>4, <1>5, <1>6 DEF responderInitClient
<1>8. ASSUME NEW n \in Nodes, NEW name \in Names, NEW a \in Addrs, EditServer(n, name, a)
      PROVE  TypeOK'
  <2>1. CASE LookupFails(n)
    BY <2>1, <1>2
  <2>2. CASE BeginRemove(n, <<name, a>>)
    BY <2>2, <1>3
  <2>3. CASE /\ Connect(n)
             /\ UNCHANGED <<treeVars, status, cached, model, dataVars, handler, rx,
                            loopVars, faults, crashed>>
    BY <2>3, <1>1
  <2> QED BY <1>8, <2>1, <2>2, <2>3 DEF EditServer
<1>9. CASE \E name \in Names, a \in Addrs : AddServer(name, a)
  BY <1>9, <1>7 DEF AddServer
<1>10. CASE CreateEdited
  <2>1. next[1] \in Names /\ next[2] \in Addrs
    BY <1>10 DEF CreateEdited, LoopInv
  <2> QED BY <1>10, <1>7, <2>1 DEF CreateEdited
<1>11. CASE \E n \in Nodes : RemoveServer(n)
  BY <1>11, <1>2, <1>3 DEF RemoveServer
<1> QED BY <1>8, <1>9, <1>10, <1>11

LEMMA TypeLoop ==
  ASSUME TypeOK,
         \/ DiscoverEnds
         \/ \E n \in Nodes : Destroyed(n) \/ FreeTree(n)
         \/ \E n \in Nodes : ClearServer(n) \/ Subscribe(n) \/ Discover(n)
         \/ \E n \in Nodes, d \in Devices : DiscoverDevice(n, d)
  PROVE  TypeOK'
<1> USE BoundAssumption DEF TypeOK, BecomeIdle, Enter
<1>1. NoRcbs \in [Devices -> 0..MaxGen]
  BY DEF NoRcbs
<1>2. ASSUME NEW n \in Nodes, Destroyed(n) PROVE TypeOK'
  BY <1>1, <1>2 DEF Destroyed, IedState, LoopOps
<1>3. ASSUME NEW n \in Nodes, FreeTree(n) PROVE TypeOK'
  BY <1>1, <1>3 DEF FreeTree, Phases, LoopOps
<1>4. ASSUME NEW n \in Nodes, ClearServer(n) PROVE TypeOK'
  BY <1>1, <1>4 DEF ClearServer
<1>5. ASSUME NEW n \in Nodes, Subscribe(n) PROVE TypeOK'
  BY <1>5 DEF Subscribe, LookupFails, Statuses, LoopOps
<1>6. ASSUME NEW n \in Nodes, Discover(n) PROVE TypeOK'
  <2>1. CASE LookupFails(n)
    BY <2>1 DEF LookupFails, LoopOps
  <2>2. CASE ~LookupFails(n)
    <3>a. gen[n] \in 0..MaxGen /\ gen[n] < MaxGen
      BY <1>6 DEF Discover
    <3>b. gen[n] + 1 \in 0..MaxGen
      BY <3>a
    <3>c. /\ gen' = [gen EXCEPT ![n] = gen[n] + 1]
          /\ folders' = [folders EXCEPT ![n] = TRUE]
      BY <1>6, <2>2 DEF Discover
    <3>1. gen' \in [Nodes -> 0..MaxGen] /\ folders' \in [Nodes -> BOOLEAN]
      BY <3>b, <3>c
    <3>2. cached' \in [Nodes -> BOOLEAN] /\ model' \in [Nodes -> SUBSET Devices]
      <4>1. CASE ListFromCache(n)
        BY <4>1 DEF ListFromCache
      <4>2. CASE ListFromServer(n)
        BY <4>2 DEF ListFromServer
      <4>3. CASE ListFails(n)
        <5>1. CASE UNCHANGED <<cached, model>>
          BY <5>1
        <5>2. CASE /\ cached' = [cached EXCEPT ![n] = TRUE]
                   /\ \E read \in SUBSET Devices : model' = [model EXCEPT ![n] = read]
          BY <5>2
        <5> QED BY <4>3, <5>1, <5>2 DEF ListFails
      <4> QED BY <1>6, <2>2, <4>1, <4>2, <4>3 DEF Discover
    <3>3. loop' \in LoopOps /\ cur' \in Nodes \cup {None} /\ todo' \in SUBSET Devices
      BY <1>6, <2>2, <3>2 DEF Discover, LoopOps
    <3> QED BY <1>6, <2>2, <3>1, <3>2, <3>3 DEF Discover
  <2> QED BY <2>1, <2>2
<1>7. ASSUME NEW n \in Nodes, NEW d \in Devices, DiscoverDevice(n, d) PROVE TypeOK'
  <2>1. gen[n] \in 0..MaxGen
    OBVIOUS
  <2>2. ASSUME NEW f \in [Nodes -> [Devices -> 0..MaxGen]]
        PROVE  [f EXCEPT ![n][d] = gen[n]] \in [Nodes -> [Devices -> 0..MaxGen]]
    <3>1. [f[n] EXCEPT ![d] = gen[n]] \in [Devices -> 0..MaxGen]
      BY <2>1
    <3> QED BY <3>1
  <2>3. /\ rcbNode' \in [Nodes -> [Devices -> 0..MaxGen]]
        /\ handler' \in [Nodes -> [Devices -> 0..MaxGen]]
    <3>1. CASE UNCHANGED <<rcbNode, handler>>
      BY <3>1
    <3>2. CASE InstallHandler(n, d)
      BY <3>2, <2>2 DEF InstallHandler
    <3> QED BY <1>7, <3>1, <3>2 DEF DiscoverDevice
  <2>4. /\ todo' \in SUBSET Devices /\ crashed' \in BOOLEAN
        /\ shown' \in [Nodes -> SUBSET Devices]
        /\ folders' = folders /\ gen' = gen
    <3>1. CASE UNCHANGED <<dataVars, handler, todo>> /\ crashed' = TRUE
      BY <3>1
    <3>2. CASE /\ todo' = todo \ {d} /\ shown' = [shown EXCEPT ![n] = @ \cup {d}]
               /\ UNCHANGED <<folders, gen, crashed>>
      BY <3>2
    <3> QED BY <1>7, <3>1, <3>2 DEF DiscoverDevice
  <2> QED BY <1>7, <2>3, <2>4 DEF DiscoverDevice
<1>8. CASE DiscoverEnds
  BY <1>8 DEF DiscoverEnds, LoopOps
<1> QED BY <1>2, <1>3, <1>4, <1>5, <1>6, <1>7, <1>8

LEMMA TypeReceivers ==
  ASSUME TypeOK, Receivers
  PROVE  TypeOK'
<1> USE NoneAssumption, BoundAssumption DEF TypeOK
<1>1. ASSUME NEW n \in Nodes, ConnectionLost(n) PROVE TypeOK'
  BY <1>1 DEF ConnectionLost, IedState
<1>4. ASSUME NEW n \in Nodes, ReceiverStops(n) PROVE TypeOK'
  BY <1>4 DEF ReceiverStops
<1>2. ASSUME NEW n \in Nodes, NEW d \in Devices, ReportMatched(n, d) PROVE TypeOK'
  <2>1. [dev |-> d, gen |-> handler[n][d], at |-> "matched"] \in Delivery
    BY <1>2 DEF ReportMatched, Delivery
  <2> QED BY <1>2, <2>1 DEF ReportMatched
<1>3. ASSUME NEW n \in Nodes, Delivers(n) PROVE TypeOK'
  <2>1. rx[n] \in Delivery
    BY <1>3 DEF Delivers, ReportEnter, ReportLookup, ReportDone, RxAt
  <2>2. ASSUME NEW at \in {"running", "looked"}
        PROVE  [rx[n] EXCEPT !.at = at] \in Delivery
    BY <2>1 DEF Delivery
  <2>a. ASSUME NEW at \in {"running", "looked", "done"}, RxMoves(n, at)
        PROVE  rx' \in [Nodes -> Delivery \cup {None}] /\ crashed' \in BOOLEAN
    BY <2>a, <2>2 DEF RxMoves
  <2>b. ASSUME RxDies
        PROVE  rx' \in [Nodes -> Delivery \cup {None}] /\ crashed' \in BOOLEAN
    BY <2>b DEF RxDies
  <2>3. rx' \in [Nodes -> Delivery \cup {None}] /\ crashed' \in BOOLEAN
    BY <1>3, <2>a, <2>b DEF Delivers, ReportEnter, ReportLookup, ReportDone
  <2> QED BY <1>3, <2>3 DEF Delivers, ReportEnter, ReportLookup, ReportDone
<1> QED BY <1>1, <1>2, <1>3, <1>4 DEF Receivers

LEMMA TypeStep ==
  ASSUME TypeOK, LoopInv, [Next]_vars
  PROVE  TypeOK'
<1>1. CASE UNCHANGED vars
  BY <1>1 DEF TypeOK
<1>2. CASE Invocations \/ LoopSteps
  BY <1>2, TypeTree, TypeLoop DEF Invocations, LoopSteps
<1>3. CASE Receivers
  BY <1>3, TypeReceivers
<1> QED BY <1>1, <1>2, <1>3 DEF Next, AtRest

-----------------------------------------------------------------------------
(* The inductive invariant *)

LEMMA InvInit == Init => IInv
<1> USE DEF Init
<1>1. Init => LifeInv /\ LoopInv
  BY DEF LifeInv, LoopInv
<1>2. Init => HandlerInv /\ DeliveryInv /\ VisibleRcbHears
  BY BoundAssumption DEF HandlerInv, DeliveryInv, VisibleRcbHears, NoRcbs
<1>3. Init => MapMatchesTree /\ UniqueKeys /\ NoOrphanConnection /\ CrashCauses /\ StatusWasTrue
  BY DEF MapMatchesTree, UniqueKeys, NoOrphanConnection, CrashCauses, StatusWasTrue
<1> QED BY <1>1, <1>2, <1>3 DEF IInv

(* A handler that does not find its server in the map. *)
LEMMA LookupInv ==
  ASSUME TypeOK, IInv, NEW n \in Nodes, LookupFails(n), loop = "idle", phase[n] = "live"
  PROVE  IInv'
<1> USE DEF LookupFails, Enter
<1>1. faults > 0
  BY BoundAssumption DEF IInv, TypeOK, MapMatchesTree
<1>2. LifeInv' /\ LoopInv'
  BY <1>1 DEF IInv, LifeInv, LoopInv
<1>3. HandlerInv' /\ DeliveryInv'
  BY DEF IInv, HandlerInv, DeliveryInv, Destroying
<1>4. MapMatchesTree' /\ UniqueKeys' /\ VisibleRcbHears' /\ StatusWasTrue'
  BY DEF IInv, MapMatchesTree, UniqueKeys, VisibleRcbHears, StatusWasTrue
<1>5. NoOrphanConnection' /\ CrashCauses'
  BY <1>1 DEF IInv, NoOrphanConnection, CrashCauses, Destroying
<1> QED BY <1>2, <1>3, <1>4, <1>5 DEF IInv

LEMMA CreateRefusedInv ==
  ASSUME TypeOK, IInv, loop \in {"idle", "create"}, ~crashed,
         NEW name \in Names, CreateRefused(name)
  PROVE  IInv'
<1> USE BoundAssumption DEF CreateRefused, BecomeIdle, Fault, TypeOK
<1>1. LifeInv' /\ LoopInv'
  BY DEF IInv, LifeInv, LoopInv
<1>2. HandlerInv' /\ DeliveryInv'
  BY DEF IInv, HandlerInv, DeliveryInv, Destroying
<1>3. MapMatchesTree'
  BY DEF IInv, MapMatchesTree
<1>5. UniqueKeys' /\ VisibleRcbHears' /\ StatusWasTrue'
  BY DEF IInv, UniqueKeys, VisibleRcbHears, StatusWasTrue
<1>4. NoOrphanConnection' /\ CrashCauses'
  BY DEF IInv, NoOrphanConnection, CrashCauses, Destroying
<1> QED BY <1>1, <1>2, <1>3, <1>4, <1>5 DEF IInv

LEMMA CreateHalfInv ==
  ASSUME TypeOK, IInv, loop \in {"idle", "create"}, ~crashed,
         NEW n \in Nodes, NEW name \in Names, CreateHalf(n, name)
  PROVE  IInv'
<1> USE BoundAssumption DEF CreateHalf, NewNode, BecomeIdle, Fault, TypeOK
<1>1. LifeInv' /\ LoopInv'
  BY DEF IInv, LifeInv, LoopInv
<1>2. HandlerInv' /\ DeliveryInv'
  BY DEF IInv, HandlerInv, DeliveryInv, Destroying
<1>3. MapMatchesTree'
  BY DEF IInv, LifeInv, MapMatchesTree
<1>6. VisibleRcbHears'
  BY DEF IInv, LifeInv, HandlerInv, VisibleRcbHears
<1>7. StatusWasTrue'
  BY DEF IInv, StatusWasTrue
<1>4. UniqueKeys'
  BY DEF IInv, UniqueKeys, KeyInUse
<1>5. NoOrphanConnection' /\ CrashCauses'
  BY DEF IInv, LifeInv, NoOrphanConnection, CrashCauses, Destroying
<1> QED BY <1>1, <1>2, <1>3, <1>4, <1>5, <1>6, <1>7 DEF IInv

LEMMA CreateFullInv ==
  ASSUME TypeOK, IInv, loop \in {"idle", "create"}, ~crashed,
         NEW n \in Nodes, NEW name \in Names, NEW a \in Addrs, CreateFull(n, name, a)
  PROVE  IInv'
<1> USE BoundAssumption DEF CreateFull, NewNode, BecomeIdle, Fault, TypeOK
<1>1. /\ n \notin serverMap /\ ied[n] = "none" /\ status[n] = "none" /\ ~folders[n]
      /\ \A d \in Devices : rcbNode[n][d] = 0 /\ handler[n][d] = 0
  BY DEF IInv, LifeInv, HandlerInv, Destroying
<1>2. PICK up \in BOOLEAN :
        /\ assoc' = [assoc EXCEPT ![n] = up]
        /\ up => ied'[n] = "connected"
        /\ ied'[n] \in {"idle", "connected"}
        /\ \A m \in Nodes \ {n} : ied'[m] = ied[m]
  BY <1>1 DEF Connect
<1>3. LifeInv' /\ LoopInv'
  BY <1>1, <1>2 DEF IInv, LifeInv, LoopInv
<1>4. HandlerInv'
  BY <1>1 DEF IInv, HandlerInv, Destroying
<1>8. rx[n] = None
  BY <1>1 DEF IInv, DeliveryInv, Delivery
<1>9. DeliveryInv'
  BY <1>2, <1>8 DEF IInv, DeliveryInv
<1>5. MapMatchesTree'
  BY <1>1, <1>2 DEF IInv, MapMatchesTree
<1>10. VisibleRcbHears'
  BY <1>1 DEF IInv, VisibleRcbHears
<1>11. StatusWasTrue'
  BY <1>1, <1>2 DEF IInv, StatusWasTrue
<1>6. UniqueKeys'
  BY DEF IInv, UniqueKeys, KeyInUse
<1>7. NoOrphanConnection' /\ CrashCauses'
  BY <1>1, <1>2 DEF IInv, NoOrphanConnection, CrashCauses, Destroying
<1> QED BY <1>3, <1>4, <1>5, <1>6, <1>7, <1>9, <1>10, <1>11 DEF IInv

LEMMA BeginRemoveInv ==
  ASSUME TypeOK, IInv, loop = "idle", ~crashed, NEW n \in Nodes, phase[n] = "live",
         NEW then \in (Names \X Addrs) \cup {None}, BeginRemove(n, then)
  PROVE  IInv'
<1> USE DEF BeginRemove, Enter, TypeOK
<1>1. LifeInv'
  BY DEF IInv, LifeInv
<1>2. LoopInv'
  BY DEF IInv, LoopInv
<1>3. HandlerInv' /\ DeliveryInv'
  BY DEF IInv, HandlerInv, DeliveryInv, Destroying
<1>4. MapMatchesTree' /\ UniqueKeys'
  BY DEF IInv, MapMatchesTree, UniqueKeys
<1>5. VisibleRcbHears' /\ StatusWasTrue'
  BY DEF IInv, VisibleRcbHears, StatusWasTrue
<1>6. NoOrphanConnection' /\ CrashCauses'
  BY DEF IInv, NoOrphanConnection, CrashCauses, Destroying
<1> QED BY <1>1, <1>2, <1>3, <1>4, <1>5, <1>6 DEF IInv

(* An Edit that changes nothing reconnects. *)
LEMMA ReconnectInv ==
  ASSUME TypeOK, IInv, loop = "idle", ~crashed, NEW n \in serverMap, ied[n] # "connected",
         Connect(n),
         UNCHANGED <<treeVars, status, cached, model, dataVars, handler, rx,
                     loopVars, faults, crashed>>
  PROVE  IInv'
<1> USE DEF TypeOK
<1>1. PICK up \in BOOLEAN :
        /\ assoc' = [assoc EXCEPT ![n] = up]
        /\ up => ied'[n] = "connected"
        /\ ied'[n] = "connected" \/ (ied'[n] = ied[n] /\ ied[n] # "none")
        /\ \A m \in Nodes \ {n} : ied'[m] = ied[m]
  BY DEF Connect, IInv, MapMatchesTree
<1>2. ~assoc[n] /\ rx[n] = None /\ ied[n] # "destroyed"
  BY DEF IInv, NoOrphanConnection, DeliveryInv, MapMatchesTree
<1>3. phase[n] = "live"
  BY DEF IInv, MapMatchesTree
<1>4. LifeInv' /\ LoopInv'
  BY <1>1, <1>2, <1>3 DEF IInv, LifeInv, LoopInv
<1>5. HandlerInv' /\ VisibleRcbHears' /\ UniqueKeys'
  BY DEF IInv, HandlerInv, VisibleRcbHears, UniqueKeys, Destroying
<1>6. DeliveryInv'
  BY <1>1, <1>2 DEF IInv, DeliveryInv
<1>7. MapMatchesTree'
  BY <1>1 DEF IInv, MapMatchesTree
<1>8. NoOrphanConnection'
  BY <1>1 DEF IInv, NoOrphanConnection, Destroying
<1>9. StatusWasTrue' /\ CrashCauses'
  BY <1>1, <1>3 DEF IInv, StatusWasTrue, CrashCauses
<1> QED BY <1>4, <1>5, <1>6, <1>7, <1>8, <1>9 DEF IInv

(* The invocations that create, edit and remove servers. *)
LEMMA TreeInv ==
  ASSUME TypeOK, IInv,
         \/ \E name \in Names, a \in Addrs : AddServer(name, a)
         \/ CreateEdited
         \/ \E n \in Nodes, name \in Names, a \in Addrs : EditServer(n, name, a)
         \/ \E n \in Nodes : RemoveServer(n)
  PROVE  IInv'
<1>1. ASSUME loop \in {"idle", "create"}, ~crashed,
             NEW name \in Names, NEW a \in Addrs, responderInitClient(name, a)
      PROVE  IInv'
  BY <1>1, CreateRefusedInv, CreateHalfInv, CreateFullInv DEF responderInitClient
<1>2. CASE \E name \in Names, a \in Addrs : AddServer(name, a)
  BY <1>1, <1>2 DEF AddServer, LoopFree
<1>3. CASE CreateEdited
  <2>1. next[1] \in Names /\ next[2] \in Addrs
    BY <1>3 DEF CreateEdited, IInv, LoopInv, TypeOK
  <2> QED BY <1>1, <1>3, <2>1 DEF CreateEdited
<1>4. CASE \E n \in Nodes, name \in Names, a \in Addrs : EditServer(n, name, a)
  <2> PICK n \in Nodes, name \in Names, a \in Addrs : EditServer(n, name, a)
    BY <1>4
  <2>1. loop = "idle" /\ ~crashed /\ phase[n] = "live"
    BY DEF EditServer, Invoked, LoopFree
  <2>2. CASE LookupFails(n)
    BY <2>1, <2>2, LookupInv
  <2>3. CASE BeginRemove(n, <<name, a>>)
    BY <2>1, <2>3, BeginRemoveInv
  <2>4. CASE /\ n \in serverMap /\ ied[n] # "connected"
             /\ Connect(n)
             /\ UNCHANGED <<treeVars, status, cached, model, dataVars, handler, rx,
                            loopVars, faults, crashed>>
    BY <2>1, <2>4, ReconnectInv
  <2> QED BY <2>2, <2>3, <2>4 DEF EditServer
<1>5. CASE \E n \in Nodes : RemoveServer(n)
  BY <1>5, LookupInv, BeginRemoveInv DEF RemoveServer, Invoked, LoopFree
<1> QED BY <1>2, <1>3, <1>4, <1>5

(* The connection is gone and its thread has stopped. *)
LEMMA DestroyedInv ==
  ASSUME TypeOK, IInv, NEW n \in Nodes, Destroyed(n)
  PROVE  IInv'
<1> USE DEF Destroyed, TypeOK
<1>1. phase[n] = "unlinked" /\ n \notin serverMap /\ rx[n] = None
  BY DEF IInv, LoopInv, LifeInv, DeliveryInv
<1>2. \A d \in Devices : handler'[n][d] = 0
  BY DEF NoRcbs
<1>3. \A m \in Nodes \ {n} : handler'[m] = handler[m]
  OBVIOUS
<1>4. LifeInv' /\ LoopInv'
  BY <1>1 DEF IInv, LifeInv, LoopInv
<1>5. HandlerInv'
  BY <1>2, <1>3 DEF IInv, HandlerInv, Destroying
<1>6. DeliveryInv'
  BY <1>1, <1>3 DEF IInv, DeliveryInv
<1>7. MapMatchesTree' /\ UniqueKeys'
  BY <1>1 DEF IInv, MapMatchesTree, UniqueKeys
<1>8. NoOrphanConnection' /\ CrashCauses'
  BY <1>1 DEF IInv, NoOrphanConnection, CrashCauses, Destroying
<1>9. VisibleRcbHears'
  <2>1. VisibleRcbHears  BY DEF IInv
  <2>2. UNCHANGED <<phase, rcbNode, gen>>  BY DEF treeVars, dataVars
  <2> HIDE DEF Destroyed, TypeOK
  <2> QED BY <1>1, <1>3, <2>1, <2>2 DEF VisibleRcbHears
<1>10. StatusWasTrue'
  <2>1. StatusWasTrue  BY DEF IInv
  <2>2. /\ UNCHANGED <<phase, status>>
        /\ \A m \in Nodes : ied'[m] = ied[m] \/ ied'[m] = "destroyed"
    BY DEF treeVars
  <2> HIDE DEF Destroyed, TypeOK
  <2> QED BY <2>1, <2>2 DEF StatusWasTrue
<1> QED BY <1>4, <1>5, <1>6, <1>7, <1>8, <1>9, <1>10 DEF IInv

LEMMA FreeTreeInv ==
  ASSUME TypeOK, IInv, NEW n \in Nodes, FreeTree(n)
  PROVE  IInv'
<1> USE DEF FreeTree, BecomeIdle, TypeOK
<1>1. /\ phase[n] = "unlinked" /\ n \notin serverMap /\ ied[n] = "destroyed"
      /\ ~assoc[n] /\ rx[n] = None
  BY DEF IInv, LoopInv, LifeInv, NoOrphanConnection, DeliveryInv
<1>2. \A d \in Devices : rcbNode'[n][d] = 0
  BY DEF NoRcbs
<1>3. \A m \in Nodes \ {n} : rcbNode'[m] = rcbNode[m]
  OBVIOUS
<1>4. LifeInv' /\ LoopInv'
  BY <1>1 DEF IInv, LifeInv, LoopInv
<1>5. HandlerInv' /\ DeliveryInv'
  BY <1>1, <1>2, <1>3 DEF IInv, HandlerInv, DeliveryInv, Destroying
<1>6. MapMatchesTree' /\ UniqueKeys'
  BY <1>1 DEF IInv, MapMatchesTree, UniqueKeys
<1>7. NoOrphanConnection' /\ CrashCauses'
  BY <1>1 DEF IInv, NoOrphanConnection, CrashCauses, Destroying
<1>8. phase'[n] = "freed" /\ \A m \in Nodes \ {n} : phase'[m] = phase[m]
  OBVIOUS
<1>9. VisibleRcbHears'
  <2>1. VisibleRcbHears  BY DEF IInv
  <2>2. UNCHANGED <<handler, gen>>  OBVIOUS
  <2> HIDE DEF FreeTree, BecomeIdle, TypeOK
  <2> QED BY <1>3, <1>8, <2>1, <2>2 DEF VisibleRcbHears
<1>10. StatusWasTrue'
  <2>1. StatusWasTrue  BY DEF IInv
  <2>2. UNCHANGED <<ied, status>>  BY DEF connVars
  <2> HIDE DEF FreeTree, BecomeIdle, TypeOK
  <2> QED BY <1>1, <1>8, <2>1, <2>2 DEF StatusWasTrue
<1> QED BY <1>4, <1>5, <1>6, <1>7, <1>9, <1>10 DEF IInv

(* Clearing takes the RCB nodes away and leaves their handlers. *)
LEMMA ClearServerInv ==
  ASSUME TypeOK, IInv, NEW n \in Nodes, ClearServer(n)
  PROVE  IInv'
<1> USE DEF ClearServer, Invoked, LoopFree, TypeOK
<1>1. \A d \in Devices : rcbNode'[n][d] = 0
  BY DEF NoRcbs
<1>2. \A m \in Nodes \ {n} : rcbNode'[m] = rcbNode[m]
  OBVIOUS
<1>3. LifeInv' /\ LoopInv'
  BY DEF IInv, LifeInv, LoopInv
<1>4. HandlerInv' /\ DeliveryInv'
  BY <1>1, <1>2 DEF IInv, HandlerInv, DeliveryInv, Destroying
<1>5. MapMatchesTree' /\ UniqueKeys' /\ NoOrphanConnection' /\ CrashCauses'
  BY DEF IInv, MapMatchesTree, UniqueKeys, NoOrphanConnection, CrashCauses, Destroying
<1>6. VisibleRcbHears'
  <2>1. VisibleRcbHears  BY DEF IInv
  <2>2. UNCHANGED <<phase, handler, gen>>  BY DEF treeVars
  <2> HIDE DEF ClearServer, Invoked, LoopFree, TypeOK
  <2> QED BY <1>1, <1>2, <2>1, <2>2 DEF VisibleRcbHears
<1>7. StatusWasTrue'
  <2>1. StatusWasTrue  BY DEF IInv
  <2>2. UNCHANGED <<phase, ied, status>>  BY DEF treeVars, connVars
  <2> HIDE DEF ClearServer, Invoked, LoopFree, TypeOK
  <2> QED BY <2>1, <2>2 DEF StatusWasTrue
<1> QED BY <1>3, <1>4, <1>5, <1>6, <1>7 DEF IInv

LEMMA SubscribeInv ==
  ASSUME TypeOK, IInv, NEW n \in Nodes, Subscribe(n)
  PROVE  IInv'
<1> USE DEF Subscribe, LoopFree, TypeOK
<1>1. CASE LookupFails(n)
  BY <1>1, LookupInv
<1>2. CASE n \in serverMap /\ ~LookupFails(n)
  <2>1. /\ status' \in [Nodes -> Statuses]
        /\ status'[n] = "Connected" => ied[n] = "connected"
        /\ status'[n] = "Connection closed" => ied[n] = "closed"
        /\ \A m \in Nodes \ {n} : status'[m] = status[m]
    BY <1>2 DEF Statuses
  <2>2. /\ phase[n] = "live"
        /\ UNCHANGED <<treeVars, ied, assoc, cached, model, dataVars, handler, rx,
                       loopVars, faults, crashed>>
    BY <1>2
  <2> HIDE DEF Subscribe
  <2> HIDE DEF TypeOK
  <2>3. LifeInv /\ LoopInv /\ HandlerInv /\ DeliveryInv  BY DEF IInv
  <2>4. LifeInv'  BY <1>2, <2>1, <2>2, <2>3 DEF LifeInv, treeVars, dataVars, loopVars
  <2>5. LoopInv'  BY <2>2, <2>3 DEF LoopInv, treeVars, dataVars, loopVars
  <2>6. HandlerInv'
    BY <2>2, <2>3 DEF HandlerInv, Destroying, treeVars, dataVars, loopVars
  <2>7. DeliveryInv'  BY <2>2, <2>3 DEF DeliveryInv
  <2>8. MapMatchesTree' /\ UniqueKeys' /\ NoOrphanConnection' /\ CrashCauses'
    BY <2>2 DEF IInv, MapMatchesTree, UniqueKeys, NoOrphanConnection, CrashCauses, Destroying
  <2>9. VisibleRcbHears' /\ StatusWasTrue'
    BY <1>2, <2>1, <2>2 DEF IInv, VisibleRcbHears, StatusWasTrue
  <2> QED BY <2>4, <2>5, <2>6, <2>7, <2>8, <2>9 DEF IInv
<1> QED BY <1>1, <1>2

LEMMA DiscoverInv ==
  ASSUME TypeOK, IInv, NEW n \in Nodes, Discover(n)
  PROVE  IInv'
<1> USE DEF Invoked, LoopFree, TypeOK
<1>1. CASE LookupFails(n)
  BY <1>1, LookupInv DEF Discover
<1>2. CASE ~LookupFails(n)
  <2>1. /\ loop = "idle" /\ ~crashed /\ phase[n] = "live" /\ n \in serverMap
        /\ ~folders[n]
        /\ folders' = [folders EXCEPT ![n] = TRUE]
        /\ gen' = [gen EXCEPT ![n] = gen[n] + 1]
        /\ loop' \in {"idle", "discover"} /\ (loop' = "discover" => cur' = n)
        /\ UNCHANGED <<treeVars, ied, assoc, status, shown, rcbNode, handler, rx,
                       next, faults, crashed>>
    BY <1>2 DEF Discover, Enter
  <2>2. \A d \in Devices : rcbNode[n][d] = 0 /\ handler[n][d] <= gen[n]
    BY <2>1 DEF IInv, HandlerInv
  <2>3. LifeInv' /\ LoopInv'
    BY <2>1 DEF IInv, LifeInv, LoopInv
  <2>4. HandlerInv'
    BY <2>1, <2>2 DEF IInv, HandlerInv, Destroying
  <2>5. DeliveryInv' /\ MapMatchesTree' /\ UniqueKeys'
    BY <2>1 DEF IInv, DeliveryInv, MapMatchesTree, UniqueKeys
  <2>6. NoOrphanConnection' /\ CrashCauses' /\ StatusWasTrue'
    BY <2>1 DEF IInv, NoOrphanConnection, CrashCauses, StatusWasTrue, Destroying
  <2>7. VisibleRcbHears'
    BY <2>1, <2>2 DEF IInv, VisibleRcbHears
  <2> QED BY <2>3, <2>4, <2>5, <2>6, <2>7 DEF IInv
<1> QED BY <1>1, <1>2

LEMMA DiscoverDeviceInv ==
  ASSUME TypeOK, IInv, NEW n \in Nodes, NEW d \in Devices, DiscoverDevice(n, d)
  PROVE  IInv'
<1> USE DEF TypeOK
<1>1. /\ loop = "discover" /\ cur = n /\ n \in serverMap /\ folders[n]
      /\ phase[n] = "live" /\ ~crashed
      /\ UNCHANGED <<treeVars, connVars, folders, gen, rx, loop, cur, next, faults>>
  BY DEF DiscoverDevice, IInv, LoopInv, MapMatchesTree
<1>2. \/ UNCHANGED <<rcbNode, handler>>
      \/ InstallHandler(n, d)
  BY DEF DiscoverDevice
<1>3. /\ \A m \in Nodes \ {n} : handler'[m] = handler[m] /\ rcbNode'[m] = rcbNode[m]
      /\ \A e \in Devices :
           \/ handler'[n][e] = handler[n][e] /\ rcbNode'[n][e] = rcbNode[n][e]
           \/ handler'[n][e] = gen[n] /\ rcbNode'[n][e] = gen[n]
  BY <1>2 DEF InstallHandler
<1>4. LifeInv' /\ LoopInv' /\ MapMatchesTree' /\ UniqueKeys'
  BY <1>1 DEF IInv, LifeInv, LoopInv, MapMatchesTree, UniqueKeys
<1>5. HandlerInv'
  <2> SUFFICES ASSUME NEW m \in Nodes, NEW e \in Devices
               PROVE  /\ handler'[m][e] # 0 => m \in serverMap \/ Destroying(m)
                      /\ handler'[m][e] <= gen[m]
                      /\ ~folders[m] => rcbNode'[m][e] = 0
                      /\ folders[m] /\ handler'[m][e] # 0 /\ handler'[m][e] = gen[m]
                           /\ m \in serverMap
                           => rcbNode'[m][e] = gen[m]
    BY <1>1 DEF HandlerInv, Destroying
  <2>1. CASE handler'[m][e] = handler[m][e] /\ rcbNode'[m][e] = rcbNode[m][e]
    BY <2>1 DEF IInv, HandlerInv
  <2>2. CASE m = n /\ handler'[n][e] = gen[n] /\ rcbNode'[n][e] = gen[n]
    BY <1>1, <2>2
  <2> QED BY <1>3, <2>1, <2>2
<1>9. ASSUME NEW m \in Nodes, NEW e \in Devices
      PROVE  /\ handler[m][e] \in Nat /\ handler'[m][e] \in Nat
             /\ handler[m][e] <= handler'[m][e]
  <2>1. handler[m][e] \in Nat /\ gen[n] \in Nat /\ handler[m][e] <= gen[m]
    BY BoundAssumption DEF IInv, HandlerInv
  <2> QED BY <1>3, <2>1
<1>6. DeliveryInv'
  <2> SUFFICES ASSUME NEW m \in Nodes, rx[m] # None
               PROVE  assoc[m] /\ rx[m].gen <= handler'[m][rx[m].dev]
    BY <1>1 DEF DeliveryInv
  <2>1. rx[m].dev \in Devices /\ rx[m].gen \in Nat
    BY BoundAssumption DEF Delivery
  <2>2. assoc[m] /\ rx[m].gen <= handler[m][rx[m].dev]
    BY DEF IInv, DeliveryInv
  <2> QED BY <1>9, <2>1, <2>2
<1>7. NoOrphanConnection' /\ CrashCauses' /\ StatusWasTrue'
  BY <1>1 DEF IInv, NoOrphanConnection, CrashCauses, StatusWasTrue, Destroying
<1>8. VisibleRcbHears'
  BY <1>1, <1>3 DEF IInv, VisibleRcbHears
<1> QED BY <1>4, <1>5, <1>6, <1>7, <1>8 DEF IInv

LEMMA DiscoverEndsInv ==
  ASSUME TypeOK, IInv, DiscoverEnds
  PROVE  IInv'
<1> USE DEF DiscoverEnds, BecomeIdle, TypeOK
<1>1. LifeInv' /\ LoopInv' /\ HandlerInv' /\ DeliveryInv'
  BY DEF IInv, LifeInv, LoopInv, HandlerInv, DeliveryInv, Destroying
<1>2. MapMatchesTree' /\ UniqueKeys' /\ NoOrphanConnection' /\ CrashCauses'
  BY DEF IInv, MapMatchesTree, UniqueKeys, NoOrphanConnection, CrashCauses, Destroying
<1>3. VisibleRcbHears' /\ StatusWasTrue'
  BY DEF IInv, VisibleRcbHears, StatusWasTrue
<1> QED BY <1>1, <1>2, <1>3 DEF IInv

LEMMA ConnectionLostInv ==
  ASSUME TypeOK, IInv, NEW n \in Nodes, ConnectionLost(n)
  PROVE  IInv'
<1> USE DEF ConnectionLost, TypeOK
<1>1. ied[n] = "connected" /\ phase[n] = "live"
  BY DEF IInv, NoOrphanConnection, MapMatchesTree
<1>2. LifeInv' /\ LoopInv'
  BY <1>1 DEF IInv, LifeInv, LoopInv
<1>3. HandlerInv' /\ DeliveryInv' /\ VisibleRcbHears'
  BY DEF IInv, HandlerInv, DeliveryInv, VisibleRcbHears, Destroying
<1>4. MapMatchesTree' /\ UniqueKeys'
  BY <1>1 DEF IInv, MapMatchesTree, UniqueKeys
<1>5. NoOrphanConnection' /\ CrashCauses' /\ StatusWasTrue'
  BY <1>1 DEF IInv, NoOrphanConnection, CrashCauses, StatusWasTrue, Destroying
<1> QED BY <1>2, <1>3, <1>4, <1>5 DEF IInv

LEMMA ReceiverStopsInv ==
  ASSUME TypeOK, IInv, NEW n \in Nodes, ReceiverStops(n)
  PROVE  IInv'
<1> USE DEF ReceiverStops, TypeOK
<1>1. LifeInv' /\ LoopInv' /\ HandlerInv' /\ DeliveryInv'
  BY DEF IInv, LifeInv, LoopInv, HandlerInv, DeliveryInv, Destroying
<1>2. MapMatchesTree' /\ UniqueKeys' /\ VisibleRcbHears'
  BY DEF IInv, MapMatchesTree, UniqueKeys, VisibleRcbHears
<1>3. NoOrphanConnection' /\ CrashCauses' /\ StatusWasTrue'
  BY DEF IInv, NoOrphanConnection, CrashCauses, StatusWasTrue, Destroying
<1> QED BY <1>1, <1>2, <1>3 DEF IInv

LEMMA ReportMatchedInv ==
  ASSUME TypeOK, IInv, NEW n \in Nodes, NEW d \in Devices, ReportMatched(n, d)
  PROVE  IInv'
<1> USE DEF ReportMatched, TypeOK
<1>1. LifeInv' /\ LoopInv' /\ HandlerInv'
  BY DEF IInv, LifeInv, LoopInv, HandlerInv, Destroying
<1>2. DeliveryInv'
  BY BoundAssumption DEF IInv, DeliveryInv
<1>3. MapMatchesTree' /\ UniqueKeys' /\ VisibleRcbHears'
  BY DEF IInv, MapMatchesTree, UniqueKeys, VisibleRcbHears
<1>4. NoOrphanConnection' /\ CrashCauses' /\ StatusWasTrue'
  BY DEF IInv, NoOrphanConnection, CrashCauses, StatusWasTrue, Destroying
<1> QED BY <1>1, <1>2, <1>3, <1>4 DEF IInv

(* Why a delivery that follows a freed pointer has one of the causes named. *)
LEMMA FreedCauses ==
  ASSUME TypeOK, IInv, NEW n \in Nodes, rx[n] # None,
         n \notin serverMap \/ HandlerReplaced(n) \/ RcbNodeFreed(n)
  PROVE  Destroying(n) \/ ~folders[n] \/ rx[n].gen < gen[n]
<1> DEFINE h == handler[n][rx[n].dev]
           r == rcbNode[n][rx[n].dev]
<1>1. /\ rx[n].dev \in Devices /\ rx[n].gen \in Nat /\ rx[n].gen > 0
      /\ h \in Nat /\ r \in Nat /\ gen[n] \in Nat
  BY BoundAssumption DEF TypeOK, Delivery
<1>2. rx[n].gen <= h /\ h <= gen[n] /\ h # 0
  BY <1>1 DEF IInv, DeliveryInv, HandlerInv
<1>3. n \in serverMap \/ Destroying(n)
  BY <1>1, <1>2 DEF IInv, HandlerInv
<1>4. folders[n] /\ h = gen[n] /\ n \in serverMap => r = gen[n]
  BY <1>1, <1>2 DEF IInv, HandlerInv
<1>5. CASE HandlerReplaced(n)
  <2>1. rx[n].gen # h
    BY <1>5 DEF HandlerReplaced
  <2> QED BY <1>1, <1>2, <2>1
<1>6. CASE RcbNodeFreed(n)
  <2>1. rx[n].gen # r
    BY <1>6 DEF RcbNodeFreed
  <2> QED BY <1>1, <1>2, <1>3, <1>4, <2>1
<1> QED BY <1>3, <1>5, <1>6

LEMMA DeliversInv ==
  ASSUME TypeOK, IInv, NEW n \in Nodes, Delivers(n)
  PROVE  IInv'
<1> USE NoneAssumption DEF TypeOK
<1>1. /\ rx[n] # None /\ ~crashed
      /\ UNCHANGED <<treeVars, connVars, dataVars, handler, loopVars, faults>>
  BY DEF Delivers, ReportEnter, ReportLookup, ReportDone, RxAt
<1>2. \/ UNCHANGED crashed
      \/ UNCHANGED rx /\ (n \notin serverMap \/ HandlerReplaced(n) \/ RcbNodeFreed(n))
  BY DEF Delivers, ReportEnter, ReportLookup, ReportDone, RxMoves, RxDies
<1>3. /\ \A m \in Nodes \ {n} : rx'[m] = rx[m]
      /\ rx'[n] # None => rx'[n].dev = rx[n].dev /\ rx'[n].gen = rx[n].gen
  <2>1. rx[n] \in Delivery
    BY <1>1
  <2>2. ASSUME NEW at \in {"running", "looked", "done"}, RxMoves(n, at)
        PROVE  /\ \A m \in Nodes \ {n} : rx'[m] = rx[m]
               /\ rx'[n] # None => rx'[n].dev = rx[n].dev /\ rx'[n].gen = rx[n].gen
    BY <2>1, <2>2 DEF RxMoves, Delivery
  <2>3. CASE RxDies
    BY <2>3 DEF RxDies
  <2> QED BY <2>2, <2>3 DEF Delivers, ReportEnter, ReportLookup, ReportDone
<1>4. LifeInv' /\ LoopInv' /\ HandlerInv'
  BY <1>1 DEF IInv, LifeInv, LoopInv, HandlerInv, Destroying
<1>5. DeliveryInv'
  BY <1>1, <1>3 DEF IInv, DeliveryInv
<1>6. MapMatchesTree' /\ UniqueKeys' /\ VisibleRcbHears'
  BY <1>1 DEF IInv, MapMatchesTree, UniqueKeys, VisibleRcbHears
<1>7. NoOrphanConnection' /\ StatusWasTrue'
  BY <1>1 DEF IInv, NoOrphanConnection, StatusWasTrue, Destroying
<1>8. CrashCauses'
  <2>1. CASE UNCHANGED crashed
    BY <1>1, <2>1 DEF CrashCauses
  <2>2. CASE UNCHANGED rx /\ (n \notin serverMap \/ HandlerReplaced(n) \/ RcbNodeFreed(n))
    BY <1>1, <2>2, FreedCauses DEF CrashCauses, Destroying
  <2> QED BY <1>2, <2>1, <2>2
<1> QED BY <1>4, <1>5, <1>6, <1>7, <1>8 DEF IInv

LEMMA InvStep ==
  ASSUME TypeOK, IInv, [Next]_vars
  PROVE  IInv'
<1>1. CASE UNCHANGED vars
  <2>1. LifeInv' /\ LoopInv' /\ HandlerInv' /\ DeliveryInv'
    BY <1>1 DEF IInv, LifeInv, LoopInv, HandlerInv, DeliveryInv, Destroying
  <2>2. MapMatchesTree' /\ UniqueKeys' /\ VisibleRcbHears' /\ StatusWasTrue'
    BY <1>1 DEF IInv, MapMatchesTree, UniqueKeys, VisibleRcbHears, StatusWasTrue
  <2>3. NoOrphanConnection' /\ CrashCauses'
    BY <1>1 DEF IInv, NoOrphanConnection, CrashCauses, Destroying
  <2> QED BY <2>1, <2>2, <2>3 DEF IInv
<1>2. CASE Invocations
  BY <1>2, TreeInv, ClearServerInv, SubscribeInv, DiscoverInv DEF Invocations
<1>3. CASE LoopSteps
  BY <1>3, TreeInv, DiscoverEndsInv, DestroyedInv, FreeTreeInv, DiscoverDeviceInv DEF LoopSteps
<1>4. CASE Receivers
  BY <1>4, ConnectionLostInv, ReceiverStopsInv, DeliversInv, ReportMatchedInv DEF Receivers
<1> QED BY <1>1, <1>2, <1>3, <1>4 DEF Next, AtRest

-----------------------------------------------------------------------------
(* The theorems *)

(* Every variable keeps its type, and the inductive invariant holds, in    *)
(* every state the registry reaches.                                       *)
THEOREM Invariance == Spec => [](TypeOK /\ IInv)
<1>1. Init => TypeOK /\ IInv
  BY TypeInit, InvInit
<1>2. TypeOK /\ IInv /\ [Next]_vars => TypeOK' /\ IInv'
  BY TypeStep, InvStep DEF IInv
<1> QED BY <1>1, <1>2, PTL DEF Spec

(* All variables stay in their types. *)
THEOREM TypeCorrect == Spec => []TypeOK
BY Invariance, PTL

(* serverMap has exactly the servers of the tree, unless setServerMap or   *)
(* an SDK call of responderInitClient failed.                              *)
THEOREM MapAgrees == Spec => []MapMatchesTree
<1>1. IInv => MapMatchesTree
  BY DEF IInv
<1> QED BY <1>1, Invariance, PTL

(* No two servers in the tree have the same key, through every sequence of *)
(* Add, Edit and Remove.                                                   *)
THEOREM KeysUnique == Spec => []UniqueKeys
<1>1. IInv => UniqueKeys
  BY DEF IInv
<1> QED BY <1>1, Invariance, PTL

(* A connection that is up belongs to a server that can be removed, is     *)
(* being removed, or whose setServerMap failed.                            *)
THEOREM ConnectionsOwned == Spec => []NoOrphanConnection
<1>1. IInv => NoOrphanConnection
  BY DEF IInv
<1> QED BY <1>1, Invariance, PTL

(* When removeServerNode has freed a server node, its receive thread has   *)
(* stopped and delivers no report.                                         *)
THEOREM ReceiversStopped == Spec => []NoReceiverAfterFree
<1>1. IInv => NoReceiverAfterFree
  <2> SUFFICES ASSUME IInv, NEW n \in Nodes, phase[n] = "freed"
               PROVE  ~assoc[n] /\ rx[n] = None
    BY DEF NoReceiverAfterFree
  <2>1. ied[n] = "destroyed"
    BY DEF IInv, StatusWasTrue
  <2>2. ~assoc[n]
    BY <2>1 DEF IInv, NoOrphanConnection
  <2> QED BY <2>2 DEF IInv, DeliveryInv
<1> QED BY <1>1, Invariance, PTL

(* An RCB node in the tree is the one its report handler writes to.        *)
THEOREM RcbHears == Spec => []VisibleRcbHears
<1>1. IInv => VisibleRcbHears
  BY DEF IInv
<1> QED BY <1>1, Invariance, PTL

(* The process dies for one of the listed reasons only: a report can kill  *)
(* it only while its server is removed or after a Clear or a rediscovery.  *)
THEOREM CrashesExplained == Spec => []CrashCauses
<1>1. IInv => CrashCauses
  BY DEF IInv
<1> QED BY <1>1, Invariance, PTL

(* The value of a Status node is a state the connection has been in.       *)
THEOREM StatusHonest == Spec => []StatusWasTrue
<1>1. IInv => StatusWasTrue
  BY DEF IInv
<1> QED BY <1>1, Invariance, PTL

(* The device model of a connection never changes once it is cached.       *)
THEOREM ModelNeverRefreshed == Spec => ModelFrozen
<1> DEFINE Frozen == \A n \in Nodes : cached[n] => cached'[n] /\ model'[n] = model[n]
<1>1. ASSUME TypeOK, [Next]_vars
      PROVE  Frozen
  <2> SUFFICES ASSUME NEW n \in Nodes, cached[n], ~UNCHANGED <<cached, model>>
               PROVE  cached'[n] /\ model'[n] = model[n]
    OBVIOUS
  <2>1. PICK m \in Nodes : Discover(m) /\ ~LookupFails(m)
    <3>1. ASSUME NEW name \in Names, NEW a \in Addrs PROVE ~responderInitClient(name, a)
      BY DEF responderInitClient, CreateRefused, CreateHalf, CreateFull
    <3>2. ASSUME NEW m \in Nodes PROVE ~LookupFails(m)
      BY DEF LookupFails
    <3>3. ASSUME NEW m \in Nodes, NEW then PROVE ~BeginRemove(m, then)
      BY DEF BeginRemove
    <3>4. CASE Invocations
      BY <3>1, <3>2, <3>3, <3>4 DEF Invocations, AddServer, EditServer, RemoveServer,
                                    ClearServer, Subscribe
    <3>5. ~LoopSteps
      BY <3>1 DEF LoopSteps, CreateEdited, responderInitClient, CreateRefused, CreateHalf,
                  CreateFull, DiscoverEnds, Destroyed, FreeTree, DiscoverDevice
    <3>6. ~Receivers
      BY DEF Receivers, ConnectionLost, ReceiverStops, Delivers, ReportEnter, ReportLookup,
             ReportDone, ReportMatched
    <3> QED BY <1>1, <3>4, <3>5, <3>6 DEF Next, AtRest
  <2>2. CASE m = n
    BY <2>1, <2>2 DEF Discover, ListFromCache, ListFromServer, ListFails
  <2>3. CASE m # n
    <3>1. ListFromCache(m) \/ ListFromServer(m) \/ ListFails(m)
      BY <2>1 DEF Discover
    <3> QED BY <1>1, <2>3, <3>1 DEF TypeOK, ListFromCache, ListFromServer, ListFails
  <2> QED BY <2>2, <2>3
<1> QED BY <1>1, TypeCorrect, PTL DEF Spec, ModelFrozen

(* When an Edit ends and no SDK call failed, there is a server of the new  *)
(* name.                                                                   *)
THEOREM EditNames == Spec => EditLeavesName
<1> DEFINE Named == \E m \in Nodes : phase'[m] = "live" /\ key'[m] = Key[next[1]]
<1>1. ASSUME TypeOK, [Next]_vars, loop = "create", loop' = "idle", faults' = faults
      PROVE  Named
  <2>1. CreateEdited
    <3>1. ~Invocations
      BY <1>1 DEF Invocations, AddServer, EditServer, RemoveServer, ClearServer, Subscribe,
                  Discover, Invoked, LoopFree
    <3>2. LoopSteps => CreateEdited
      BY <1>1 DEF LoopSteps, DiscoverEnds, Destroyed, FreeTree, DiscoverDevice
    <3>3. ~Receivers
      BY <1>1 DEF Receivers, ConnectionLost, ReceiverStops, Delivers, ReportEnter, ReportLookup,
                  ReportDone, ReportMatched
    <3> QED BY <1>1, <3>1, <3>2, <3>3 DEF Next, AtRest
  <2>2. CASE CreateRefused(next[1])
    <3>1. KeyInUse(Key[next[1]])
      BY <1>1, <2>2 DEF CreateRefused, Fault, TypeOK
    <3> QED BY <2>2, <3>1 DEF CreateRefused, KeyInUse
  <2>3. ASSUME NEW n \in Nodes, CreateHalf(n, next[1]) PROVE Named
    BY <1>1, <2>3 DEF CreateHalf, Fault, TypeOK
  <2>4. ASSUME NEW n \in Nodes, CreateFull(n, next[1], next[2]) PROVE Named
    BY <1>1, <2>4 DEF CreateFull, NewNode, TypeOK
  <2> QED BY <2>1, <2>2, <2>3, <2>4 DEF CreateEdited, responderInitClient
<1> QED BY <1>1, TypeCorrect, PTL DEF Spec, EditLeavesName

=============================================================================
