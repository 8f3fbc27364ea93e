--------------------------- MODULE MmsClientProofs ---------------------------
(***************************************************************************)
(* What MmsClient guarantees for any table size and any bounds: the types, *)
(* the inductive invariant with the properties it implies, and the         *)
(* refinement of CallService and of Connection.                            *)
(***************************************************************************)
EXTENDS MmsClient, FiniteSetTheorems, TLAPS

(* The fields of a message, for the arithmetic on identifiers. *)
LEMMA MessageFields ==
  ASSUME NEW m \in Messages
  PROVE  m.id \in Nat /\ m.ok \in BOOLEAN /\ m.kind \in {"answer", "report"}
BY DEF Messages

LEMMA HeadTail ==
  ASSUME wire \in Seq(Messages), wire # <<>>
  PROVE  Head(wire) \in Messages /\ Tail(wire) \in Seq(Messages)
OBVIOUS

(* Types, action by action. *)
LEMMA TypeCall == TypeOK /\ (Call \/ Send \/ EndPolling) => TypeOK'
<1> SUFFICES ASSUME TypeOK, Call \/ Send \/ EndPolling PROVE TypeOK'  OBVIOUS
<1> USE DEF TypeOK, callVars, slotVars, stateVars, threadVars, netVars, ghosts, At
<1>1. CASE Call  BY <1>1 DEF Call
<1>2. CASE Send
  <2>1. crashed' \in BOOLEAN  BY <1>2 DEF Send
  <2>2. asked' \in SUBSET Nat  BY <1>2 DEF Send
  <2>3. got' \in BOOLEAN /\ loop' = "polling"  BY <1>2 DEF Send
  <2>4. UNCHANGED <<outcome, lastId, outstanding, slotVars, stateVars, threadVars, credits,
                    buffer, sock, wire, reports, connects, ghosts>>
    BY <1>2 DEF Send
  <2> QED  BY <2>1, <2>2, <2>3, <2>4
<1>3. CASE EndPolling
  <2>1. ASSUME NEW f \in BOOLEAN, NEW e \in {"none", "timeout", "service"}, LeavePolling(f, e)
        PROVE  TypeOK'
    BY <2>1 DEF LeavePolling
  <2> QED  BY <1>3, <2>1 DEF EndPolling, Found, Expires, NoticesLoss
<1> QED  BY <1>1, <1>2, <1>3

LEMMA TypeAnswer == TypeOK /\ (RemoveOutstanding \/ ParseResponse \/ Release \/ ReleaseAssociation) => TypeOK'
<1> SUFFICES ASSUME TypeOK, RemoveOutstanding \/ ParseResponse \/ Release \/ ReleaseAssociation
             PROVE  TypeOK'
  OBVIOUS
<1> USE DEF TypeOK, callVars, slotVars, stateVars, threadVars, netVars, ghosts, At
<1>1. CASE RemoveOutstanding  BY <1>1 DEF RemoveOutstanding
<1>2. CASE ParseResponse  BY <1>2 DEF ParseResponse, OutcomeNow
<1>3. CASE Release  BY <1>3 DEF Release, ReleaseThen
<1>4. CASE ReleaseAssociation  BY <1>4 DEF ReleaseAssociation, ReleaseThen
<1> QED  BY <1>1, <1>2, <1>3, <1>4

LEMMA TypeConnect ==
  TypeOK /\ (Dial \/ Refused \/ Accepted \/ Associate \/ Confirm \/ Announce \/ Destroy \/ Destroyed)
    => TypeOK'
<1> SUFFICES ASSUME TypeOK, Dial \/ Refused \/ Accepted \/ Associate \/ Confirm \/ Announce
                              \/ Destroy \/ Destroyed
             PROVE  TypeOK'
  OBVIOUS
<1> USE DEF TypeOK, callVars, slotVars, stateVars, threadVars, netVars, ghosts, At
<1>1. CASE Dial  BY <1>1 DEF Dial
<1>2. CASE Refused
  <2>1. assoc' \in BOOLEAN  BY <1>2 DEF Refused
  <2>2. sock' = "freed" /\ loop' = "idle"  BY <1>2 DEF Refused
  <2>3. UNCHANGED <<callVars, slotVars, ied, threadVars, credits, buffer, netVars, connects,
                    crashed, ghosts>>
    BY <1>2 DEF Refused
  <2> QED  BY <2>1, <2>2, <2>3
<1>8. CASE Accepted  BY <1>8 DEF Accepted
<1>3. CASE Associate  BY <1>3 DEF Associate
<1>4. CASE Confirm  BY <1>4 DEF Confirm
<1>7. CASE Announce  BY <1>7 DEF Announce
<1>5. CASE Destroy
  <2>1. stop' \in BOOLEAN  BY <1>5 DEF Destroy
  <2> QED  BY <1>5, <2>1 DEF Destroy
<1>6. CASE Destroyed  BY <1>6 DEF Destroyed
<1> QED  BY <1>1, <1>2, <1>3, <1>4, <1>5, <1>6, <1>7, <1>8

LEMMA TypeThread == TypeOK /\ (ThreadStep \/ ConnectionFails) => TypeOK'
<1> SUFFICES ASSUME TypeOK, ThreadStep \/ ConnectionFails PROVE TypeOK'  OBVIOUS
<1> USE DEF TypeOK, callVars, slotVars, stateVars, threadVars, netVars, ghosts, Move
<1>1. CASE Enter \/ ClearStop  BY <1>1 DEF Enter, ClearStop
<1>2. CASE TakeBuffer  BY <1>2 DEF TakeBuffer
<1>3. CASE Receive  BY <1>3, HeadTail DEF Receive
<1>4. CASE Handled  BY <1>4 DEF Handled
<1>5. CASE HandOver  BY <1>5, MessageFields DEF HandOver
<1>6. CASE SeeStop \/ ReadFreed \/ ConnectionFails
  BY <1>6 DEF SeeStop, ReadFreed, ConnectionFails, LeaveReading
<1>7. CASE EndThread  BY <1>7 DEF EndThread
<1> QED  BY <1>1, <1>2, <1>3, <1>4, <1>5, <1>6, <1>7 DEF ThreadStep

LEMMA TypeServer == TypeOK /\ (ServerAnswers \/ ServerReports) => TypeOK'
<1> SUFFICES ASSUME TypeOK, ServerAnswers \/ ServerReports PROVE TypeOK'  OBVIOUS
<1> USE DEF TypeOK, callVars, slotVars, stateVars, threadVars, netVars, ghosts
<1>1. CASE ServerAnswers
  <2>1. PICK id \in asked, ok \in BOOLEAN :
          /\ asked' = asked \ {id}
          /\ wire' = Append(wire, Answer(id, ok))
    BY <1>1 DEF ServerAnswers
  <2>2. Answer(id, ok) \in Messages  BY DEF Messages, Answer
  <2>3. asked' \in SUBSET Nat  BY <2>1
  <2>4. wire' \in Seq(Messages)  BY <2>1, <2>2
  <2> QED  BY <1>1, <2>3, <2>4 DEF ServerAnswers
<1>2. CASE ServerReports
  <2>1. Report \in Messages  BY DEF Report, Messages
  <2>2. wire' \in Seq(Messages)  BY <1>2, <2>1 DEF ServerReports
  <2> QED  BY <1>2, <2>2 DEF ServerReports
<1> QED  BY <1>1, <1>2

LEMMA TypeStep == TypeOK /\ [Next]_vars => TypeOK'
<1> SUFFICES ASSUME TypeOK, [Next]_vars PROVE TypeOK'  OBVIOUS
<1>1. CASE UNCHANGED vars
  BY <1>1 DEF TypeOK, vars, callVars, slotVars, stateVars, threadVars, netVars, ghosts
<1>2. CASE LoopStep \/ UserStep
  BY <1>2, TypeCall, TypeAnswer, TypeConnect DEF LoopStep, CallStep, ConnectStep, UserStep
<1>3. CASE ThreadStep \/ Environment
  BY <1>3, TypeThread, TypeServer, TypeConnect DEF Environment
<1> QED  BY <1>1, <1>2, <1>3 DEF Next, AtRest

LEMMA TypeInit == Init => TypeOK
<1>1. Report \in Messages  BY DEF Report, Messages
<1> SUFFICES ASSUME Init PROVE TypeOK  OBVIOUS
<1>2. /\ got \in BOOLEAN /\ assoc \in BOOLEAN /\ ied \in BOOLEAN /\ start \in BOOLEAN
      /\ stop \in BOOLEAN /\ crashed \in BOOLEAN /\ failed \in BOOLEAN /\ raced \in BOOLEAN
      /\ early \in BOOLEAN
  BY DEF Init
<1>3. buffer \in Messages /\ wire \in Seq(Messages)  BY <1>1 DEF Init
<1> QED  BY <1>2, <1>3 DEF Init, TypeOK

(* The types are kept by every step of the client, the thread and the      *)
(* server.                                                                 *)
THEOREM TypeCorrect == Spec => []TypeOK
BY TypeInit, TypeStep, PTL DEF Spec

-----------------------------------------------------------------------------
(* The inductive invariant, part by part. *)

(* The table: the entry of the call under way, from Call to the removal.   *)
LEMMA TableStep == TypeOK /\ TableClean /\ [Next]_vars => TableClean'
<1> SUFFICES ASSUME TypeOK, TableClean, [Next]_vars PROVE TableClean'  OBVIOUS
<1> USE DEF TableClean, At
<1>1. ASSUME UNCHANGED <<loop, outstanding, lastId>> PROVE TableClean'  BY <1>1
<1>2. CASE Call
  <2>1. Cardinality(outstanding) < TableSize
    <3>1. outstanding = {}  BY <1>2 DEF Call
    <3>2. Cardinality({}) = 0  BY FS_EmptySet
    <3> QED  BY <3>1, <3>2, ClientAssumption DEF ClientAssumption
  <2> QED  BY <1>2, <2>1 DEF Call
<1>3. CASE Send  BY <1>3 DEF Send
<1>4. CASE EndPolling
  BY <1>4 DEF EndPolling, Found, Expires, NoticesLoss, LeavePolling
<1>5. CASE RemoveOutstanding  BY <1>5 DEF RemoveOutstanding
<1>6. CASE ParseResponse \/ Release \/ ReleaseAssociation
  BY <1>6 DEF ParseResponse, Release, ReleaseAssociation, ReleaseThen, callVars
<1>7. CASE Dial \/ Refused \/ Accepted \/ Associate
  BY <1>7 DEF Dial, Refused, Accepted, Associate, callVars
<1>8. CASE Confirm \/ Announce \/ Destroy \/ Destroyed
  BY <1>8 DEF Confirm, Announce, Destroy, Destroyed, callVars
<1>9. CASE ThreadStep \/ ConnectionFails
  BY <1>1, <1>9 DEF ThreadStep, ConnectionFails, Enter, ClearStop, TakeBuffer, Receive, Handled,
     HandOver, SeeStop, ReadFreed, LeaveReading, EndThread, callVars
<1>10. CASE ServerAnswers \/ ServerReports
  BY <1>1, <1>10 DEF ServerAnswers, ServerReports, callVars
<1>11. CASE UNCHANGED vars  BY <1>1, <1>11 DEF vars, callVars
<1> QED  BY <1>2, <1>3, <1>4, <1>5, <1>6, <1>7, <1>8, <1>9, <1>10, <1>11
         DEF Next, LoopStep, CallStep, ConnectStep, UserStep, Environment, AtRest

(* Identifiers start at 1, and only an answer is matched with a call. *)
LEMMA AnswerStep == TypeOK /\ AnswerInv /\ [Next]_vars => AnswerInv'
<1> SUFFICES ASSUME TypeOK, AnswerInv, [Next]_vars PROVE AnswerInv'  OBVIOUS
<1> USE DEF AnswerInv, At, Move, InCall
<1>1. ASSUME UNCHANGED <<loop, lastId, rx, buffer, outcome>> PROVE AnswerInv'  BY <1>1
<1>2. CASE Call  BY <1>2 DEF Call, TypeOK, threadVars
<1>3. CASE Send \/ RemoveOutstanding
  BY <1>3 DEF Send, RemoveOutstanding, threadVars
<1>13. CASE ParseResponse
  BY <1>13 DEF ParseResponse, OutcomeNow, threadVars
<1>4. CASE EndPolling
  BY <1>4 DEF EndPolling, Found, Expires, NoticesLoss, LeavePolling, threadVars
<1>5. CASE Release \/ ReleaseAssociation
  BY <1>5 DEF Release, ReleaseAssociation, ReleaseThen, callVars, threadVars
<1>6. CASE Dial \/ Refused \/ Accepted \/ Associate
  BY <1>6 DEF Dial, Refused, Accepted, Associate, callVars, threadVars
<1>7. CASE Confirm \/ Announce \/ Destroy \/ Destroyed
  BY <1>7 DEF Confirm, Announce, Destroy, Destroyed, callVars, threadVars
<1>8. CASE Receive  BY <1>8 DEF Receive, callVars
<1>9. CASE Enter \/ ClearStop \/ TakeBuffer \/ Handled
  BY <1>9 DEF Enter, ClearStop, TakeBuffer, Handled, callVars
<1>10. CASE HandOver \/ SeeStop \/ ReadFreed \/ ConnectionFails \/ EndThread
  BY <1>10 DEF HandOver, SeeStop, ReadFreed, ConnectionFails, LeaveReading, EndThread, callVars
<1>11. CASE ServerAnswers \/ ServerReports
  BY <1>1, <1>11 DEF ServerAnswers, ServerReports, callVars, threadVars
<1>12. CASE UNCHANGED vars  BY <1>1, <1>12 DEF vars, callVars, threadVars
<1> QED  BY <1>2, <1>3, <1>4, <1>5, <1>6, <1>7, <1>8, <1>9, <1>10, <1>11, <1>12,
            <1>13
         DEF Next, LoopStep, CallStep, ConnectStep, UserStep, ThreadStep, Environment, AtRest

(* The semaphore.  A step that moves the buffer on changes two of the four *)
(* counts by one; only the release of a call without answer adds to them.  *)
LEMMA OwnerStep == TypeOK /\ OneOwner /\ AnswerInv /\ SlotInv /\ [Next]_vars => OneOwner'
<1> SUFFICES ASSUME TypeOK, OneOwner, AnswerInv, SlotInv, [Next]_vars, ~failed' PROVE OneOwner'
  BY DEF OneOwner
<1> USE DEF OneOwner, Count, Holding, At, Move
<1>1. ASSUME UNCHANGED <<credits, rx, respId, failed>>, loop' # "starting", loop # "starting"
      PROVE  OneOwner'
  BY <1>1
<1>2. ASSUME UNCHANGED <<credits, rx, respId, failed, loop>> PROVE OneOwner'  BY <1>2
<1>3. CASE Call \/ Send \/ RemoveOutstanding \/ ParseResponse
  BY <1>1, <1>3 DEF Call, Send, RemoveOutstanding, ParseResponse, slotVars, threadVars, ghosts
<1>4. CASE EndPolling
  <2>1. ~failed  BY <1>4 DEF EndPolling, Found, Expires, NoticesLoss, LeavePolling
  <2> QED  BY <1>1, <1>4, <2>1
        DEF EndPolling, Found, Expires, NoticesLoss, LeavePolling, threadVars
<1>5. CASE Release
  <2>1. ~failed /\ loop = "releasing" /\ respId' = 0 /\ credits' = credits + 1 /\ rx' = rx
        /\ loop' = "idle"
    BY <1>5 DEF Release, ReleaseThen, ghosts, threadVars
  <2>2. respId # 0  BY <2>1 DEF SlotInv, AnswerInv, InCall
  <2> QED  BY <2>1, <2>2 DEF TypeOK
<1>6. CASE ReleaseAssociation
  <2>1. ~failed /\ loop = "starting" /\ respId' = 0 /\ credits' = credits + 1 /\ rx' = rx
        /\ loop' = "confirming"
    BY <1>6 DEF ReleaseAssociation, ReleaseThen, ghosts, threadVars
  <2>2. respId = 0  BY <2>1 DEF SlotInv, InCall
  <2> QED  BY <2>1, <2>2 DEF TypeOK
<1>7. CASE Dial \/ Refused \/ Accepted
  BY <1>1, <1>7 DEF Dial, Refused, Accepted, slotVars, threadVars, ghosts
<1>8. CASE Associate  BY <1>8 DEF Associate, slotVars, ghosts, TypeOK
<1>9. CASE Confirm \/ Announce \/ Destroy \/ Destroyed
  BY <1>1, <1>9 DEF Confirm, Announce, Destroy, Destroyed, slotVars, threadVars, ghosts
<1>10. CASE Enter \/ ClearStop
  BY <1>10 DEF Enter, ClearStop, slotVars, ghosts
<1>11. CASE TakeBuffer  BY <1>11 DEF TakeBuffer, slotVars, ghosts, TypeOK
<1>12. CASE Receive  BY <1>12 DEF Receive, slotVars, ghosts
<1>13. CASE Handled  BY <1>13 DEF Handled, slotVars, ghosts, TypeOK
<1>14. CASE HandOver
  <2>1. ~failed /\ respId = 0 /\ respId' = buffer.id /\ rx = "matched" /\ rx' = "waiting"
        /\ credits' = credits /\ loop' = loop
    BY <1>14 DEF HandOver, ghosts
  <2>2. buffer.id # 0  BY <2>1 DEF SlotInv, AnswerInv, InCall
  <2> QED  BY <2>1, <2>2 DEF TypeOK
<1>15. CASE SeeStop \/ ReadFreed \/ ConnectionFails
  BY <1>15 DEF SeeStop, ReadFreed, ConnectionFails, LeaveReading, slotVars
<1>16. CASE EndThread  BY <1>16 DEF EndThread, slotVars, ghosts, TypeOK
<1>17. CASE ServerAnswers \/ ServerReports
  BY <1>2, <1>17 DEF ServerAnswers, ServerReports, slotVars, threadVars, ghosts
<1>18. CASE UNCHANGED vars  BY <1>2, <1>18 DEF vars, slotVars, threadVars, ghosts
<1> QED  BY <1>3, <1>4, <1>5, <1>6, <1>7, <1>8, <1>9, <1>10, <1>11, <1>12, <1>13, <1>14, <1>15,
            <1>16, <1>17, <1>18
         DEF Next, LoopStep, CallStep, ConnectStep, UserStep, ThreadStep, Environment, AtRest

(* While every call has been answered, the slot is free or holds the       *)
(* answer of the call under way, and the buffer holds the same answer.     *)
LEMMA SlotStep ==
  TypeOK /\ OneOwner /\ AnswerInv /\ SlotInv /\ TableClean /\ [Next]_vars => SlotInv'
<1> SUFFICES ASSUME TypeOK, OneOwner, AnswerInv, SlotInv, TableClean, [Next]_vars, ~failed'
             PROVE  SlotInv'
  BY DEF SlotInv
<1> USE DEF SlotInv, InCall, At, Move
<1>1. ASSUME UNCHANGED <<loop, got, lastId, respId, respErr, rx, start, buffer, failed>>
      PROVE  SlotInv'
  BY <1>1
<1>2. CASE Call
  <2>1. ~failed /\ loop = "idle" /\ loop' = "sending" /\ UNCHANGED <<respId, rx>>
    BY <1>2 DEF Call, slotVars, threadVars, ghosts
  <2> QED  BY <2>1
<1>3. CASE Send
  BY <1>3 DEF Send, slotVars, threadVars, ghosts
<1>4. CASE EndPolling
  <2>1. Found /\ ~failed
    BY <1>4 DEF EndPolling, Found, Expires, NoticesLoss, LeavePolling
  <2>2. respId = lastId /\ respId # 0  BY <2>1 DEF Found, LeavePolling, AnswerInv
  <2>3. rx # "matched"
    BY <2>1, <2>2 DEF OneOwner, Holding, Count, TypeOK
  <2>4. /\ loop' = "ending" /\ got'
        /\ UNCHANGED <<respErr, lastId, respId, rx, buffer>>
    BY <2>1 DEF Found, LeavePolling, threadVars
  <2> QED  BY <2>1, <2>2, <2>3, <2>4
<1>5. CASE RemoveOutstanding
  BY <1>5 DEF RemoveOutstanding, slotVars, threadVars, ghosts
<1>6. CASE ParseResponse
  BY <1>6 DEF ParseResponse, slotVars, threadVars, ghosts
<1>7. CASE Release \/ ReleaseAssociation
  <2>1. /\ ~failed /\ respId' = 0 /\ loop' \in {"idle", "confirming"} /\ UNCHANGED rx
        /\ loop \in {"releasing", "starting"}
    BY <1>7 DEF Release, ReleaseAssociation, ReleaseThen, threadVars, ghosts
  <2> QED  BY <2>1
<1>8. CASE Dial \/ Refused \/ Accepted \/ Confirm \/ Announce \/ Destroy \/ Destroyed
  <2>1. ~failed /\ UNCHANGED <<respId, rx>>
    BY <1>8 DEF Dial, Refused, Accepted, Confirm, Announce, Destroy, Destroyed, slotVars,
                threadVars, ghosts
  <2>2. loop \notin {"sending", "polling", "ending", "parsing", "releasing", "starting"}
    BY <1>8 DEF Dial, Refused, Accepted, Confirm, Announce, Destroy, Destroyed
  <2>3. loop' \notin {"sending", "polling", "ending", "parsing", "releasing", "starting"}
    BY <1>8 DEF Dial, Refused, Accepted, Confirm, Announce, Destroy, Destroyed
  <2> QED  BY <2>1, <2>2, <2>3
<1>9. CASE Associate
  <2>1. ~failed /\ loop = "associating" /\ loop' = "starting" /\ start' /\ UNCHANGED <<respId, rx>>
    BY <1>9 DEF Associate, slotVars, ghosts
  <2> QED  BY <2>1
<1>10. CASE Enter \/ ClearStop
  BY <1>10 DEF Enter, ClearStop, callVars, slotVars, ghosts
<1>11. CASE TakeBuffer
  <2>1. ~failed /\ credits > 0 /\ rx' = "reading"
        /\ UNCHANGED <<loop, got, lastId, respId, respErr, start, buffer>>
    BY <1>11 DEF TakeBuffer, callVars, slotVars, ghosts
  <2>2. loop = "starting" => start
    BY <1>11, <2>1 DEF TakeBuffer, OneOwner, Count, TypeOK
  <2> QED  BY <2>1, <2>2
<1>12. CASE Receive
  <2>1. ~failed /\ rx = "reading" /\ UNCHANGED <<loop, got, lastId, respId, respErr, start, outstanding>>
        /\ buffer' = Head(wire) /\ rx' \in {"matched", "handling"}
    BY <1>12 DEF Receive, callVars, slotVars, ghosts
  <2>2. respId = 0 /\ loop # "starting"
    BY <2>1 DEF OneOwner, Holding, Count, TypeOK
  <2>3. loop \notin {"ending", "parsing", "releasing"}  BY <2>1, <2>2 DEF AnswerInv
  <2>4. rx' = "matched" => buffer'.id \in outstanding  BY <1>12 DEF Receive
  <2>5. rx' = "matched" => buffer'.id = lastId /\ loop \in {"sending", "polling"}
    BY <2>3, <2>4 DEF TableClean
  <2> QED  BY <2>1, <2>2, <2>3, <2>5
<1>13. CASE Handled
  BY <1>13 DEF Handled, callVars, slotVars, ghosts, OneOwner, Holding, Count, TypeOK
<1>14. CASE HandOver
  <2>1. ~failed /\ rx = "matched" /\ rx' = "waiting" /\ respId' = buffer.id
        /\ UNCHANGED <<loop, got, lastId, start, buffer>>
    BY <1>14 DEF HandOver, callVars, ghosts
  <2>2. respErr' = "none" => buffer.ok  BY <1>14 DEF HandOver
  <2> QED  BY <2>1, <2>2 DEF AnswerInv
<1>15. CASE SeeStop \/ ReadFreed \/ ConnectionFails
  <2>1. ~failed /\ rx = "reading" /\ rx' = "lost"
        /\ UNCHANGED <<loop, got, lastId, respId, respErr, start, buffer>>
    BY <1>15 DEF SeeStop, ReadFreed, ConnectionFails, LeaveReading, callVars, slotVars
  <2>2. loop # "starting"  BY <2>1 DEF OneOwner, Holding, Count, TypeOK
  <2> QED  BY <2>1, <2>2
<1>16. CASE EndThread
  <2>1. ~failed /\ rx = "lost" /\ rx' = "off"
        /\ UNCHANGED <<loop, got, lastId, respId, respErr, start, buffer>>
    BY <1>16 DEF EndThread, callVars, slotVars, ghosts
  <2>2. loop # "starting"  BY <2>1 DEF OneOwner, Holding, Count, TypeOK
  <2> QED  BY <2>1, <2>2
<1>17. CASE ServerAnswers \/ ServerReports
  BY <1>1, <1>17 DEF ServerAnswers, ServerReports, callVars, slotVars, threadVars, ghosts
<1>18. CASE UNCHANGED vars
  BY <1>1, <1>18 DEF vars, callVars, slotVars, threadVars, ghosts
<1> QED  BY <1>2, <1>3, <1>4, <1>5, <1>6, <1>7, <1>8, <1>9, <1>10, <1>11, <1>12, <1>13, <1>14,
            <1>15, <1>16, <1>17, <1>18
         DEF Next, LoopStep, CallStep, ConnectStep, UserStep, ThreadStep, Environment, AtRest

(* The link: without a race, what the event loop believes of the           *)
(* connection is what the handling thread is doing.                        *)
LEMMA LinkStep == TypeOK /\ LinkInv /\ [Next]_vars => LinkInv'
<1> SUFFICES ASSUME TypeOK, LinkInv, [Next]_vars, ~raced', ~early'
             PROVE  LinkInv'
  BY DEF LinkInv
<1> USE DEF LinkInv, Connecting, Listening, At, Move
<1>1. ASSUME UNCHANGED <<assoc, ied, rx, start, sock, raced, early>>,
             loop' = loop \/ (~Connecting /\ ~Connecting')
      PROVE  LinkInv'
  BY <1>1
<1>2. CASE Call \/ Send \/ RemoveOutstanding \/ ParseResponse \/ Release
  BY <1>1, <1>2 DEF Call, Send, RemoveOutstanding, ParseResponse, Release, ReleaseThen,
                    stateVars, threadVars, ghosts
<1>3. CASE EndPolling
  BY <1>1, <1>3 DEF EndPolling, Found, Expires, NoticesLoss, LeavePolling, stateVars, threadVars
<1>4. CASE Dial  BY <1>4 DEF Dial, Running, stateVars, threadVars
<1>5. CASE Refused  BY <1>5 DEF Refused, threadVars, ghosts
<1>6. CASE Accepted  BY <1>6 DEF Accepted, stateVars, threadVars, ghosts
<1>7. CASE Associate  BY <1>7 DEF Associate, stateVars, ghosts
<1>8. CASE ReleaseAssociation
  BY <1>8 DEF ReleaseAssociation, ReleaseThen, Running, stateVars, threadVars, ghosts
<1>9. CASE Confirm  BY <1>9 DEF Confirm, threadVars, ghosts
<1>10. CASE Announce  BY <1>10 DEF Announce, threadVars, ghosts
<1>11. CASE Destroy \/ Destroyed
  BY <1>1, <1>11 DEF Destroy, Destroyed, stateVars, threadVars, ghosts
<1>12. CASE Enter  BY <1>12 DEF Enter, stateVars, ghosts
<1>13. CASE ClearStop  BY <1>13 DEF ClearStop, stateVars, ghosts
<1>14. CASE TakeBuffer \/ Receive \/ Handled \/ HandOver
  <2>1. /\ UNCHANGED <<loop, assoc, ied, start, sock, raced, early>>
        /\ rx \notin {"off", "lost"} /\ rx' \notin {"off", "lost"}
    BY <1>14 DEF TakeBuffer, Receive, Handled, HandOver, stateVars, ghosts
  <2> QED  BY <2>1
<1>15. CASE SeeStop \/ ReadFreed \/ ConnectionFails
  <2>1. /\ UNCHANGED <<loop, start, sock, raced>> /\ rx = "reading" /\ rx' = "lost"
        /\ ~assoc' /\ ~ied'
    BY <1>15 DEF SeeStop, ReadFreed, ConnectionFails, LeaveReading
  <2>3. early' = (early \/ Connecting)
    BY <1>15 DEF SeeStop, ReadFreed, ConnectionFails, LeaveReading
  <2>4. ~raced /\ ~early /\ ~Connecting
    <3> HIDE DEF Connecting
    <3> QED  BY <2>1, <2>3
  <2>2. ~start  BY <2>1, <2>4
  <2> QED  BY <2>1, <2>2, <2>4
<1>16. CASE EndThread  BY <1>16 DEF EndThread, stateVars, ghosts
<1>17. CASE ServerAnswers \/ ServerReports
  BY <1>1, <1>17 DEF ServerAnswers, ServerReports, stateVars, threadVars, ghosts
<1>18. CASE UNCHANGED vars
  BY <1>1, <1>18 DEF vars, stateVars, threadVars, ghosts
<1> QED  BY <1>2, <1>3, <1>4, <1>5, <1>6, <1>7, <1>8, <1>9, <1>10, <1>11, <1>12, <1>13, <1>14,
            <1>15, <1>16, <1>17, <1>18
         DEF Next, LoopStep, CallStep, ConnectStep, UserStep, ThreadStep, Environment, AtRest

(* State, thread and start: what ties them whether or not the thread has   *)
(* closed while the event loop was connecting.                             *)
LEMMA WholeStep == TypeOK /\ WholeInv /\ [Next]_vars => WholeInv'
<1> SUFFICES ASSUME TypeOK, WholeInv, [Next]_vars PROVE WholeInv'  OBVIOUS
<1> USE DEF WholeInv, Connecting, Alive, At, Move
<1>1. ASSUME UNCHANGED <<assoc, ied, rx, start, raced>>,
             loop' = loop \/ (~Connecting /\ ~Connecting' /\ (loop' = "destroyed" => rx = "off"))
      PROVE  WholeInv'
  BY <1>1
<1>2. CASE Call \/ Send \/ RemoveOutstanding \/ ParseResponse \/ Release
  BY <1>1, <1>2 DEF Call, Send, RemoveOutstanding, ParseResponse, Release, ReleaseThen,
                    stateVars, threadVars, ghosts
<1>3. CASE EndPolling
  BY <1>1, <1>3 DEF EndPolling, Found, Expires, NoticesLoss, LeavePolling, stateVars, threadVars
<1>4. CASE Dial  BY <1>4 DEF Dial, Running, stateVars, threadVars
<1>5. CASE Refused  BY <1>5 DEF Refused, threadVars, ghosts
<1>6. CASE Accepted  BY <1>6 DEF Accepted, stateVars, threadVars, ghosts
<1>7. CASE Associate  BY <1>7 DEF Associate, stateVars, ghosts
<1>8. CASE ReleaseAssociation
  BY <1>8 DEF ReleaseAssociation, ReleaseThen, Running, stateVars, threadVars, ghosts
<1>9. CASE Confirm  BY <1>9 DEF Confirm, threadVars, ghosts
<1>10. CASE Announce  BY <1>10 DEF Announce, threadVars, ghosts
<1>11. CASE Destroy \/ Destroyed
  BY <1>1, <1>11 DEF Destroy, Destroyed, stateVars, threadVars, ghosts
<1>12. CASE Enter  BY <1>12 DEF Enter, stateVars, ghosts
<1>13. CASE ClearStop  BY <1>13 DEF ClearStop, stateVars, ghosts
<1>14. CASE TakeBuffer \/ Receive \/ Handled \/ HandOver
  <2>1. /\ UNCHANGED <<loop, assoc, ied, start, raced>>
        /\ rx \notin {"off", "lost"} /\ rx' \notin {"off", "lost"}
    BY <1>14 DEF TakeBuffer, Receive, Handled, HandOver, stateVars, ghosts
  <2> QED  BY <2>1
<1>15. CASE SeeStop \/ ReadFreed \/ ConnectionFails
  BY <1>15 DEF SeeStop, ReadFreed, ConnectionFails, LeaveReading
<1>16. CASE EndThread  BY <1>16 DEF EndThread, stateVars, ghosts
<1>17. CASE ServerAnswers \/ ServerReports
  BY <1>1, <1>17 DEF ServerAnswers, ServerReports, stateVars, threadVars, ghosts
<1>18. CASE UNCHANGED vars
  BY <1>1, <1>18 DEF vars, stateVars, threadVars, ghosts
<1> QED  BY <1>2, <1>3, <1>4, <1>5, <1>6, <1>7, <1>8, <1>9, <1>10, <1>11, <1>12, <1>13, <1>14,
            <1>15, <1>16, <1>17, <1>18
         DEF Next, LoopStep, CallStep, ConnectStep, UserStep, ThreadStep, Environment, AtRest

LEMMA InvInit == Init => IInv
<1> SUFFICES ASSUME Init PROVE IInv  OBVIOUS
<1>1. OneOwner /\ AnswerInv  BY DEF Init, OneOwner, Count, Holding, AnswerInv, InCall
<1>2. SlotInv  BY DEF Init, SlotInv
<1>3. LinkInv /\ TableClean  BY DEF Init, LinkInv, Connecting, TableClean
<1>4. WholeInv  BY DEF Init, WholeInv, Connecting, Alive
<1> QED  BY <1>1, <1>2, <1>3, <1>4 DEF IInv

(* The inductive invariant: one owner of the receive buffer, one entry in  *)
(* the table, one answer in the slot, a link as live as it looks, and a    *)
(* thread that belongs to the connection.                                  *)
THEOREM Invariance == Spec => [](TypeOK /\ IInv)
<1>1. Init => TypeOK /\ IInv  BY TypeInit, InvInit
<1>2. TypeOK /\ IInv /\ [Next]_vars => (TypeOK /\ IInv)'
  BY TypeStep, TableStep, AnswerStep, OwnerStep, SlotStep, LinkStep, WholeStep DEF IInv
<1> QED  BY <1>1, <1>2, PTL DEF Spec

(* sendRequestAndWaitForResponse leaves nothing in the table.              *)
THEOREM TableStaysClean == Spec => []TableClean
<1>1. IInv => TableClean  BY DEF IInv
<1> QED  BY <1>1, Invariance, PTL

(* No stale answer in the slot before a call has failed.                   *)
THEOREM SlotStaysFresh == Spec => []NoStaleAnswer
<1>1. IInv => NoStaleAnswer  BY DEF IInv, SlotInv, NoStaleAnswer
<1> QED  BY <1>1, Invariance, PTL

(* A thread that starts is seen running before a call has failed.          *)
THEOREM StartIsSeen == Spec => []StartSeen
<1>1. IInv => StartSeen  BY DEF IInv, SlotInv, StartSeen, StartMissed
<1> QED  BY <1>1, Invariance, PTL

(* What passes for connected has a reading thread, apart from the races.   *)
THEOREM ConnectionsLive == Spec => []ConnectedIsLive
<1>1. IInv => ConnectedIsLive  BY DEF IInv, LinkInv, Listening, Connecting, ConnectedIsLive
<1> QED  BY <1>1, Invariance, PTL

(* The buffer is kept for the caller until a call has failed; the run      *)
(* answer_overwritten shows that it is not kept afterwards.                *)
THEOREM BufferKeptBeforeFailure == Spec => [](~failed => BufferKept)
<1>1. TypeOK /\ IInv => (~failed => BufferKept)
  <2> SUFFICES ASSUME TypeOK, IInv, ~failed, loop \in {"ending", "parsing"}
               PROVE  rx \notin {"reading", "matched", "handling"}
    BY DEF BufferKept
  <2>1. respId # 0  BY DEF IInv, SlotInv, AnswerInv, InCall
  <2> QED  BY <2>1 DEF IInv, OneOwner, Holding, Count, TypeOK
<1> QED  BY <1>1, Invariance, PTL

-----------------------------------------------------------------------------
(* The refinement of CallService. *)

LEMMA ServiceInit == Init => Service!Init
BY DEF Init, Service!Init, InCall

(* A step outside the calls changes nothing a caller sees, unless the      *)
(* process dies.                                                           *)
LEMMA QuietStep ==
  ASSUME UNCHANGED <<loop, got, outcome, failed>>, TypeOK, ~crashed
  PROVE  [Service!Next]_Service!vars
<1>1. CASE crashed'
  <2>1. Service!Die  BY <1>1 DEF Service!Die
  <2> QED  BY <2>1 DEF Service!Next
<1>2. CASE ~crashed'  BY <1>2 DEF Service!vars, InCall
<1> QED  BY <1>1, <1>2

(* The answer of a sound call is its own: the slot, the buffer and the     *)
(* error belong to it.                                                     *)
LEMMA OwnAnswer ==
  ASSUME TypeOK, IInv, ~failed, ParseResponse
  PROVE  outcome' \in {"own", "refused"}
<1>1. got /\ respId = lastId /\ respId # 0
  BY DEF ParseResponse, At, IInv, SlotInv, AnswerInv, InCall
<1>2. CASE respErr # "none"  BY <1>1, <1>2 DEF ParseResponse, OutcomeNow
<1>3. CASE respErr = "none"
  <2>1. buffer.kind = "answer" /\ buffer.id = lastId /\ buffer.ok
    BY <1>1, <1>3 DEF IInv, SlotInv
  <2>2. buffer \in Messages  BY DEF TypeOK
  <2>3. buffer = Answer(lastId, TRUE)  BY <2>1, <2>2 DEF Messages, Answer
  <2> QED  BY <1>1, <1>3, <2>3 DEF ParseResponse, OutcomeNow
<1> QED  BY <1>2, <1>3

LEMMA ServiceStep == TypeOK /\ IInv /\ [Next]_vars => [Service!Next]_Service!vars
<1> SUFFICES ASSUME TypeOK, IInv, [Next]_vars PROVE [Service!Next]_Service!vars  OBVIOUS
<1> USE DEF At
<1>1. CASE Call
  <2>1. Service!Begin
    BY <1>1 DEF Call, Service!Begin, InCall, ghosts
  <2> QED  BY <2>1 DEF Service!Next, Service!Finish
<1>2. CASE Send
  <2>1. CASE crashed'
    <3>1. Service!Die  BY <1>2, <2>1 DEF Send, Service!Die, ghosts
    <3> QED  BY <3>1 DEF Service!Next
  <2>2. CASE ~crashed'
    BY <1>2, <2>2 DEF Send, Service!vars, InCall, ghosts
  <2> QED  BY <2>1, <2>2
<1>3. CASE Found
  BY <1>3 DEF Found, LeavePolling, Service!vars, InCall
<1>4. CASE Expires \/ NoticesLoss
  <2>1. PICK err : LeavePolling(FALSE, err)  BY <1>4 DEF Expires, NoticesLoss
  <2>2. ~crashed /\ crashed' = crashed /\ loop = "polling" /\ loop' = "ending"
    BY <2>1 DEF LeavePolling
  <2>3. got' = FALSE /\ failed' = TRUE  BY <2>1 DEF LeavePolling
  <2>4. Service!Failed  BY <2>2, <2>3 DEF Service!Failed, Service!Pending, InCall
  <2> QED  BY <2>4 DEF Service!Next, Service!Finish
<1>5. CASE RemoveOutstanding
  BY <1>5 DEF RemoveOutstanding, Service!vars, InCall, ghosts
<1>6. CASE ParseResponse
  <2>1. CASE got
    <3>1. outcome' \in {"own", "refused", "other"}  BY <1>6, <2>1 DEF ParseResponse, OutcomeNow
    <3>2. ~failed => outcome' \in {"own", "refused"}  BY <1>6, OwnAnswer
    <3>3. Service!Answered
      BY <1>6, <2>1, <3>1, <3>2 DEF ParseResponse, Service!Answered, Service!Pending, InCall, ghosts
    <3> QED  BY <3>3 DEF Service!Next, Service!Finish
  <2>2. CASE ~got
    BY <1>6, <2>2 DEF ParseResponse, OutcomeNow, Service!vars, InCall, ghosts
  <2> QED  BY <2>1, <2>2
<1>7. CASE Release
  <2>1. CASE outcome # "none"
    <3>1. Service!Return
      BY <1>7, <2>1 DEF Release, ReleaseThen, Service!Return, InCall, callVars, ghosts
    <3> QED  BY <3>1 DEF Service!Next, Service!Finish
  <2>2. outcome # "none"  BY <1>7 DEF Release, ReleaseThen, IInv, AnswerInv
  <2> QED  BY <2>1, <2>2
<1>8. CASE ReleaseAssociation
  BY <1>8 DEF ReleaseAssociation, ReleaseThen, Service!vars, InCall, callVars, ghosts
<1>9. CASE Dial \/ Refused \/ Accepted \/ Associate
  BY <1>9 DEF Dial, Refused, Accepted, Associate, Service!vars, InCall, callVars, ghosts
<1>10. CASE Confirm \/ Announce \/ Destroy \/ Destroyed
  BY <1>10 DEF Confirm, Announce, Destroy, Destroyed, Service!vars, InCall, callVars, ghosts
<1>11. CASE ThreadStep \/ ConnectionFails
  <2>1. UNCHANGED <<loop, got, outcome, failed>> /\ ~crashed
    BY <1>11 DEF ThreadStep, ConnectionFails, Enter, ClearStop, TakeBuffer, Receive, Handled,
       HandOver, SeeStop, ReadFreed, LeaveReading, EndThread, Move, callVars, ghosts
  <2> QED  BY <2>1, QuietStep
<1>12. CASE ServerAnswers \/ ServerReports
  <2>1. UNCHANGED <<loop, got, outcome, failed>> /\ ~crashed
    BY <1>12 DEF ServerAnswers, ServerReports, callVars, ghosts
  <2> QED  BY <2>1, QuietStep
<1>13. CASE UNCHANGED vars
  BY <1>13 DEF vars, callVars, ghosts, Service!vars, InCall
<1> QED  BY <1>1, <1>2, <1>3, <1>4, <1>5, <1>6, <1>7, <1>8, <1>9, <1>10, <1>11, <1>12, <1>13
         DEF Next, LoopStep, CallStep, EndPolling, ConnectStep, UserStep, Environment, AtRest

(* The safety part of CallsServed: every call has one outcome, which is    *)
(* its own answer or error as long as no call has failed.                  *)
THEOREM ServiceRefined == Spec => Service!Init /\ [][Service!Next]_Service!vars
BY ServiceInit, ServiceStep, Invariance, PTL DEF Spec

-----------------------------------------------------------------------------
(* The refinement of Connection. *)

(* What the connection shows of itself. *)
LEMMA WholeFacts ==
  ASSUME WholeInv, ~raced
  PROVE  /\ Connecting => ~ied /\ (assoc => loop = "announcing")
         /\ Alive /\ ~Connecting => assoc /\ ied /\ loop # "destroyed"
         /\ loop = "dialling" => ~Alive
BY DEF WholeInv, Connecting, Alive

LEMMA WholeInit == Init => Whole!Init
BY DEF Init, Whole!Init, Alive

(* A step that keeps what is seen of the connection stutters. *)
LEMMA WholeStutter ==
  ASSUME UNCHANGED <<ied, assoc, raced>>,
         Alive' = Alive,
         loop' = loop \/ ~({loop, loop'} \cap {"closing", "destroyed", "announcing"} # {})
  PROVE  [Whole!Next]_Whole!vars
BY DEF Whole!vars

(* The thread leaves its loop: the connection is lost, or stopped if it is *)
(* being destroyed; while it is being made nobody sees it.                 *)
LEMMA WholeLeave ==
  ASSUME TypeOK, WholeInv, ~raced, LeaveReading
  PROVE  [Whole!Next]_Whole!vars
<1>1. /\ rx = "reading" /\ rx' = "lost" /\ assoc' = FALSE /\ ied' = FALSE
      /\ UNCHANGED <<loop, raced>>
  BY DEF LeaveReading, Move
<1>2. Alive /\ ~Alive'  BY <1>1 DEF Alive
<1>3. CASE Connecting
  <2>1. ~ied /\ (assoc => loop = "announcing")  BY <1>3, WholeFacts
  <2> QED  BY <1>1, <2>1, <1>3 DEF Whole!vars, TypeOK, Connecting
<1>4. CASE ~Connecting
  <2>1. assoc /\ ied /\ loop # "destroyed" /\ loop # "announcing"
    BY <1>2, <1>4, WholeFacts DEF Connecting
  <2>2. CASE loop = "closing"
    <3>1. Whole!Stop  BY <1>1, <1>2, <2>1, <2>2 DEF Whole!Stop
    <3> QED  BY <1>1, <3>1 DEF Whole!Next
  <2>3. CASE loop # "closing"
    <3>1. Whole!Lose  BY <1>1, <1>2, <2>1, <2>3 DEF Whole!Lose
    <3> QED  BY <1>1, <3>1 DEF Whole!Next
  <2> QED  BY <2>2, <2>3
<1> QED  BY <1>3, <1>4

LEMMA WholeRefineStep == TypeOK /\ WholeInv /\ [Next]_vars => [Whole!Next]_Whole!vars
<1> SUFFICES ASSUME TypeOK, WholeInv, [Next]_vars PROVE [Whole!Next]_Whole!vars  OBVIOUS
<1> USE DEF At, Move
<1>1. CASE raced'
  <2>1. Whole!Race  BY <1>1 DEF Whole!Race
  <2> QED  BY <2>1 DEF Whole!Next
<1>2. CASE Call \/ Send \/ RemoveOutstanding \/ ParseResponse \/ Release \/ ReleaseAssociation
  BY <1>2, WholeStutter
     DEF Call, Send, RemoveOutstanding, ParseResponse, Release, ReleaseAssociation, ReleaseThen,
         stateVars, threadVars, ghosts, Alive
<1>3. CASE EndPolling
  BY <1>3, WholeStutter
     DEF EndPolling, Found, Expires, NoticesLoss, LeavePolling, stateVars, threadVars, Alive
<1>4. CASE Dial /\ ~raced'
  BY <1>4, WholeStutter DEF Dial, stateVars, threadVars, Alive, TypeOK
<1>5. CASE Refused /\ ~raced'
  <2>1. ~Alive /\ ~Alive' /\ UNCHANGED <<ied, raced>> /\ loop = "dialling" /\ loop' = "idle"
    BY <1>5, WholeFacts DEF Refused, threadVars, ghosts, Alive
  <2> QED  BY <2>1 DEF Whole!vars
<1>6. CASE Accepted \/ Associate
  BY <1>6, WholeStutter DEF Accepted, Associate, stateVars, threadVars, ghosts, Alive
<1>7. CASE Confirm /\ ~raced'
  <2>1. /\ UNCHANGED <<ied, raced>> /\ loop = "confirming" /\ loop' = "announcing" /\ ~raced
    BY <1>7 DEF Confirm, ghosts
  <2>2. ~assoc  BY <2>1, WholeFacts DEF Connecting
  <2> QED  BY <2>1, <2>2 DEF Whole!vars
<1>8. CASE Announce /\ ~raced'
  <2>1. /\ UNCHANGED <<assoc, raced>> /\ loop = "announcing" /\ loop' = "idle" /\ ~raced
        /\ ied' = TRUE
    BY <1>8 DEF Announce, ghosts
  <2>2. ~ied  BY <2>1, WholeFacts DEF Connecting
  <2>3. Whole!Connect
    BY <2>1, <2>2 DEF Whole!Connect
  <2> QED  BY <2>1, <2>3 DEF Whole!Next
<1>9. CASE Destroy
  <2>1. /\ UNCHANGED <<assoc, ied, rx, raced>> /\ loop = "idle" /\ loop' = "closing"
    BY <1>9 DEF Destroy, stateVars, ghosts
  <2>2. Whole!Close  BY <2>1 DEF Whole!Close, Alive
  <2> QED  BY <2>1, <2>2 DEF Whole!Next
<1>10. CASE Destroyed
  <2>1. /\ UNCHANGED <<assoc, ied, rx, raced>> /\ loop = "closing" /\ loop' = "destroyed"
        /\ rx = "off"
    BY <1>10 DEF Destroyed, stateVars, threadVars, ghosts
  <2>2. Whole!Gone  BY <2>1 DEF Whole!Gone, Alive
  <2> QED  BY <2>1, <2>2 DEF Whole!Next
<1>11. CASE Enter /\ ~raced'
  <2>1. /\ UNCHANGED <<assoc, ied, loop, raced>> /\ start /\ ~raced
    BY <1>11 DEF Enter, stateVars, ghosts
  <2>2. loop = "starting"  BY <2>1 DEF WholeInv
  <2>3. ~assoc  BY <2>1, <2>2, WholeFacts DEF Connecting
  <2> QED  BY <2>1, <2>3 DEF Whole!vars
<1>12. CASE ClearStop \/ TakeBuffer \/ Receive \/ Handled \/ HandOver
  BY <1>12, WholeStutter
     DEF ClearStop, TakeBuffer, Receive, Handled, HandOver, stateVars, ghosts, Alive
<1>13. CASE (SeeStop \/ ReadFreed \/ ConnectionFails) /\ ~raced'
  <2>1. LeaveReading  BY <1>13 DEF SeeStop, ReadFreed, ConnectionFails
  <2>2. ~raced  BY <1>13, <2>1 DEF LeaveReading
  <2> QED  BY <2>1, <2>2, WholeLeave
<1>14. CASE EndThread
  BY <1>14, WholeStutter DEF EndThread, stateVars, ghosts, Alive
<1>15. CASE ServerAnswers \/ ServerReports
  BY <1>15, WholeStutter DEF ServerAnswers, ServerReports, stateVars, threadVars, ghosts, Alive
<1>16. CASE UNCHANGED vars
  BY <1>16, WholeStutter DEF vars, stateVars, threadVars, ghosts, Alive
<1> QED  BY <1>1, <1>2, <1>3, <1>4, <1>5, <1>6, <1>7, <1>8, <1>9, <1>10, <1>11, <1>12, <1>13,
            <1>14, <1>15, <1>16
         DEF Next, LoopStep, CallStep, ConnectStep, UserStep, ThreadStep, Environment, AtRest

(* For those who use it the connection is made, lost and destroyed as a    *)
(* whole: the state that passes for connected and the thread that reads    *)
(* go together, unless it is made again while its old thread is closing.   *)
THEOREM ConnectionRefined == Spec => ConnectionImplemented
<1>1. IInv => WholeInv  BY DEF IInv
<1> QED  BY <1>1, WholeInit, WholeRefineStep, Invariance, PTL DEF Spec, ConnectionImplemented, Whole!Spec


==============================================================================
