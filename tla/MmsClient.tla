------------------------------ MODULE MmsClient ------------------------------
(***************************************************************************)
(* The connection of an MMS client: the event loop sends a request and     *)
(* polls for its answer; the handling thread of the connection reads       *)
(* messages and hands answers over.  The two share the table of            *)
(* outstanding calls, one slot for the last answer, one receive buffer     *)
(* guarded by a semaphore, and a handful of flags.  The connection can be  *)
(* lost and made again, and is destroyed at the end.                       *)
(***************************************************************************)
EXTENDS Naturals, Sequences, FiniteSets

CONSTANTS
  TableSize,    \* OUTSTANDING_CALLS
  MaxCalls,     \* bound: requests
  MaxReports,   \* bound: messages that are no answers
  MaxConnects   \* bound: attempts to connect

ASSUME ClientAssumption ==
  TableSize \in Nat \ {0} /\ MaxCalls \in Nat /\ MaxReports \in Nat /\ MaxConnects \in Nat

VARIABLES
  loop,         \* where the event loop stands
  got,          \* receivedMessage # NULL: the call found its answer
  outcome,      \* of the last call
  lastId,       \* lastInvokeId; during a call the id of its request
  outstanding,  \* outstandingCalls, without the free places
  respId,       \* responseInvokeId, 0 when the slot is free
  respErr,      \* lastResponseError: "none", "timeout" or "service"
  assoc,        \* associationState is CONNECTED
  ied,          \* the state of the IedConnection is CONNECTED
  rx,           \* where the handling thread stands
  start, stop,  \* startHandlingThread, stopHandlingThread
  credits,      \* the count of receiveBufferMutex
  buffer,       \* the message in the receive buffer; lastResponse points at it
  sock,         \* the socket: "none", "open" or "freed"
  asked,        \* requests the server has not answered
  wire,         \* messages from the server
  reports, connects,
  crashed,      \* the process has died
  failed,       \* (for the properties) a call has ended without an answer
  raced,        \* (for the properties) the event loop has connected while the thread
                \* was still closing
  early         \* (for the properties) the thread has closed while the event loop was
                \* connecting

callVars == <<got, outcome, lastId, outstanding>>
slotVars == <<respId, respErr>>
stateVars == <<assoc, ied>>
threadVars == <<rx, start, stop>>
netVars == <<asked, wire, reports>>
ghosts == <<failed, raced, early>>
vars == <<loop, callVars, slotVars, stateVars, threadVars, credits, buffer, sock, netVars,
          connects, crashed, ghosts>>

Messages == [kind : {"answer", "report"}, id : Nat, ok : BOOLEAN]
Answer(id, ok) == [kind |-> "answer", id |-> id, ok |-> ok]
Report == [kind |-> "report", id |-> 0, ok |-> FALSE]

InCall == loop \in {"sending", "polling", "ending", "parsing", "releasing"}
Connecting == loop \in {"dialling", "associating", "starting", "confirming", "announcing"}
Running == rx # "off"      \* handlingThreadRunning

TypeOK ==
  /\ loop \in {"idle", "sending", "polling", "ending", "parsing", "releasing",
               "dialling", "associating", "starting", "confirming", "announcing",
               "closing", "destroyed"}
  /\ got \in BOOLEAN
  /\ outcome \in {"none", "own", "refused", "failed", "other"}
  /\ lastId \in Nat /\ outstanding \in SUBSET Nat
  /\ respId \in Nat /\ respErr \in {"none", "timeout", "service"}
  /\ assoc \in BOOLEAN /\ ied \in BOOLEAN
  /\ rx \in {"off", "entered", "waiting", "reading", "matched", "handling", "lost"}
  /\ start \in BOOLEAN /\ stop \in BOOLEAN
  /\ credits \in Nat
  /\ buffer \in Messages /\ wire \in Seq(Messages)
  /\ sock \in {"none", "open", "freed"}
  /\ asked \in SUBSET Nat
  /\ reports \in Nat /\ connects \in Nat
  /\ crashed \in BOOLEAN /\ failed \in BOOLEAN /\ raced \in BOOLEAN /\ early \in BOOLEAN

Init ==
  /\ loop = "idle" /\ got = FALSE /\ outcome = "none"
  /\ lastId = 0 /\ outstanding = {}
  /\ respId = 0 /\ respErr = "none"
  /\ assoc = FALSE /\ ied = FALSE
  /\ rx = "off" /\ start = FALSE /\ stop = FALSE
  /\ credits = 1 /\ buffer = Report /\ sock = "none"
  /\ asked = {} /\ wire = <<>> /\ reports = 0 /\ connects = 0
  /\ crashed = FALSE /\ failed = FALSE /\ raced = FALSE /\ early = FALSE

-----------------------------------------------------------------------------
(* The event loop: a call *)

At(l) == ~crashed /\ loop = l

(* Reads look at the association first, writes do not: a call can start    *)
(* whenever there has been a connection.  The result of                    *)
(* addToOutstandingCalls is not used.                                      *)
Call ==
  /\ At("idle") /\ lastId < MaxCalls
  /\ sock # "none"
  /\ loop' = "sending"
  /\ lastId' = lastId + 1
  /\ outstanding' = IF Cardinality(outstanding) < TableSize
                    THEN outstanding \cup {lastId + 1} ELSE outstanding
  /\ UNCHANGED <<got, outcome, slotVars, stateVars, threadVars, credits, buffer, sock,
                 netVars, connects, crashed, ghosts>>

(* To a socket the handling thread has freed is undefined. *)
Send ==
  /\ At("sending")
  /\ loop' = "polling"
  /\ got' = FALSE
  /\ IF sock = "freed" THEN crashed' \in BOOLEAN /\ UNCHANGED asked
                       ELSE asked' = asked \cup {lastId} /\ UNCHANGED crashed
  /\ UNCHANGED <<outcome, lastId, outstanding, slotVars, stateVars, threadVars, credits,
                 buffer, sock, wire, reports, connects, ghosts>>

(* The loop of sendRequestAndWaitForResponse ends in one of three ways. *)
LeavePolling(found, err) ==
  /\ At("polling")
  /\ loop' = "ending"
  /\ got' = found /\ respErr' = err
  /\ failed' = (failed \/ ~found)
  /\ UNCHANGED <<outcome, lastId, outstanding, respId, stateVars, threadVars, credits,
                 buffer, sock, netVars, connects, crashed, raced, early>>

Found == respId = lastId /\ LeavePolling(TRUE, respErr)
Expires == LeavePolling(FALSE, "timeout")
(* Mutant: the entry stays in the table. *)
NoticesLossLeaks ==
  /\ At("polling") /\ ~assoc
  /\ loop' = "parsing"
  /\ got' = FALSE /\ failed' = TRUE
  /\ UNCHANGED <<outcome, lastId, outstanding, slotVars, stateVars, threadVars, credits,
                 buffer, sock, netVars, connects, crashed, raced, early>>

NoticesLoss == ~assoc /\ LeavePolling(FALSE, respErr)
EndPolling == Found \/ Expires \/ NoticesLoss

RemoveOutstanding ==
  /\ At("ending")
  /\ loop' = "parsing"
  /\ outstanding' = outstanding \ {lastId}
  /\ UNCHANGED <<got, outcome, lastId, slotVars, stateVars, threadVars, credits, buffer, sock,
                 netVars, connects, crashed, ghosts>>

(* What the caller makes of lastResponseError and lastResponse. *)
OutcomeNow ==
  IF ~got THEN "failed"
  ELSE IF respErr # "none" THEN "refused"
  ELSE IF buffer = Answer(lastId, TRUE) THEN "own" ELSE "other"

ParseResponse ==
  /\ At("parsing")
  /\ loop' = "releasing"
  /\ outcome' = OutcomeNow
  /\ UNCHANGED <<got, lastId, outstanding, slotVars, stateVars, threadVars, credits, buffer,
                 sock, netVars, connects, crashed, ghosts>>

(* releaseResponse frees the slot and the buffer, whether or not the call  *)
(* held them.                                                              *)
(* Mutant: responseInvokeId keeps its value. *)
ReleaseBufferOnly(from, to) ==
  /\ At(from)
  /\ loop' = to
  /\ respErr' = "none"
  /\ credits' = credits + 1
  /\ UNCHANGED <<respId, callVars, stateVars, threadVars, buffer, sock, netVars, connects,
                 crashed, ghosts>>

ReleaseThen(from, to) ==
  /\ At(from)
  /\ loop' = to
  /\ respId' = 0 /\ respErr' = "none"
  /\ credits' = credits + 1
  /\ UNCHANGED <<callVars, stateVars, threadVars, buffer, sock, netVars, connects, crashed, ghosts>>

Release == ReleaseThen("releasing", "idle")

-----------------------------------------------------------------------------
(* The event loop: connecting and destroying *)

(* IedConnection_connect looks at its own state, not at the thread. *)
Dial ==
  /\ At("idle") /\ ~ied /\ connects < MaxConnects
  /\ loop' = "dialling" /\ connects' = connects + 1
  /\ sock' = "open" /\ asked' = {} /\ wire' = <<>>
  /\ raced' = (raced \/ Running)
  /\ UNCHANGED <<callVars, slotVars, stateVars, threadVars, credits, buffer, reports, crashed, failed, early>>

(* The association is refused or the handshake fails. *)
Refused ==
  /\ At("dialling")
  /\ loop' = "idle"
  /\ sock' = "freed" /\ assoc' = FALSE
  /\ UNCHANGED <<callVars, slotVars, ied, threadVars, credits, buffer, netVars, connects, crashed, ghosts>>

(* The wait for the answer of the server has no time-out. *)
Accepted ==
  /\ At("dialling")
  /\ loop' = "associating"
  /\ UNCHANGED <<callVars, slotVars, stateVars, threadVars, credits, buffer, sock, netVars,
                 connects, crashed, ghosts>>

(* Semaphore_wait, the indication that posts, Semaphore_wait. *)
Associate ==
  /\ At("associating") /\ credits > 0
  /\ loop' = "starting"
  /\ credits' = credits - 1
  /\ start' = TRUE
  /\ UNCHANGED <<callVars, slotVars, stateVars, rx, stop, buffer, sock, netVars, connects, crashed, ghosts>>

(* The loop looks at handlingThreadRunning every millisecond. *)
ReleaseAssociation == Running /\ ReleaseThen("starting", "confirming")

Confirm ==
  /\ At("confirming")
  /\ loop' = "announcing"
  /\ assoc' = TRUE
  /\ UNCHANGED <<callVars, slotVars, ied, threadVars, credits, buffer, sock, netVars, connects,
                 crashed, ghosts>>

Announce ==
  /\ At("announcing")
  /\ loop' = "idle"
  /\ ied' = TRUE
  /\ UNCHANGED <<callVars, slotVars, assoc, threadVars, credits, buffer, sock, netVars, connects,
                 crashed, ghosts>>

(* IedConnection_destroy stops a running thread and waits for it. *)
Destroy ==
  /\ At("idle")
  /\ loop' = "closing"
  /\ stop' = (stop \/ rx \notin {"off", "lost"})
  /\ UNCHANGED <<callVars, slotVars, stateVars, rx, start, credits, buffer, sock, netVars,
                 connects, crashed, ghosts>>

(* Mutant: does not wait for the thread. *)
DestroyedAtOnce ==
  /\ At("closing")
  /\ loop' = "destroyed"
  /\ UNCHANGED <<callVars, slotVars, stateVars, threadVars, credits, buffer, sock, netVars,
                 connects, crashed, ghosts>>

Destroyed ==
  /\ At("closing") /\ rx = "off"
  /\ loop' = "destroyed"
  /\ UNCHANGED <<callVars, slotVars, stateVars, threadVars, credits, buffer, sock, netVars,
                 connects, crashed, ghosts>>

-----------------------------------------------------------------------------
(* The handling thread *)

Move(from, to) == ~crashed /\ rx = from /\ rx' = to

Enter ==
  /\ loop # "destroyed"
  /\ start /\ start' = FALSE
  /\ Move("off", "entered")
  /\ UNCHANGED <<loop, callVars, slotVars, stateVars, stop, credits, buffer, sock, netVars,
                 connects, crashed, ghosts>>

(* Mutant: does not wait for the association to be read. *)
ClearStopAndRead ==
  /\ Move("entered", "reading")
  /\ stop' = FALSE
  /\ UNCHANGED <<loop, callVars, slotVars, stateVars, start, credits, buffer, sock, netVars,
                 connects, crashed, ghosts>>

ClearStop ==
  /\ Move("entered", "waiting")
  /\ stop' = FALSE
  /\ UNCHANGED <<loop, callVars, slotVars, stateVars, start, credits, buffer, sock, netVars,
                 connects, crashed, ghosts>>

(* Mutant: does not wait. *)
TakeBufferAnyway ==
  /\ credits' = credits - 1
  /\ Move("waiting", "reading")
  /\ UNCHANGED <<loop, callVars, slotVars, stateVars, start, stop, buffer, sock, netVars,
                 connects, crashed, ghosts>>

TakeBuffer ==
  /\ credits > 0
  /\ credits' = credits - 1
  /\ Move("waiting", "reading")
  /\ UNCHANGED <<loop, callVars, slotVars, stateVars, start, stop, buffer, sock, netVars,
                 connects, crashed, ghosts>>

(* A message overwrites the buffer.  An answer nobody waits for is handled *)
(* like a message that is no answer.                                       *)
Receive ==
  /\ wire # <<>> /\ sock = "open"
  /\ buffer' = Head(wire) /\ wire' = Tail(wire)
  /\ LET m == Head(wire) IN
     Move("reading", IF m.kind = "answer" /\ m.id \in outstanding THEN "matched" ELSE "handling")
  /\ UNCHANGED <<loop, callVars, slotVars, stateVars, start, stop, credits, sock, asked, reports,
                 connects, crashed, ghosts>>

(* Mutant: the buffer is not released. *)
HandledKept ==
  /\ Move("handling", "waiting")
  /\ UNCHANGED <<loop, callVars, slotVars, stateVars, start, stop, credits, buffer, sock,
                 netVars, connects, crashed, ghosts>>

Handled ==
  /\ Move("handling", "waiting")
  /\ credits' = credits + 1
  /\ UNCHANGED <<loop, callVars, slotVars, stateVars, start, stop, buffer, sock, netVars,
                 connects, crashed, ghosts>>

(* waitUntilLastResponseHasBeenProcessed, then the answer goes to the slot *)
(* and stays in the buffer.                                                *)
(* Mutant: releases the buffer with the answer in it. *)
HandOverReleased ==
  /\ respId = 0
  /\ Move("matched", "waiting")
  /\ respId' = buffer.id
  /\ respErr' = IF buffer.ok THEN respErr ELSE "service"
  /\ credits' = credits + 1
  /\ UNCHANGED <<loop, callVars, stateVars, start, stop, buffer, sock, netVars,
                 connects, crashed, ghosts>>

HandOver ==
  /\ respId = 0
  /\ Move("matched", "waiting")
  /\ respId' = buffer.id
  /\ respErr' = IF buffer.ok THEN respErr ELSE "service"
  /\ UNCHANGED <<loop, callVars, stateVars, start, stop, credits, buffer, sock, netVars,
                 connects, crashed, ghosts>>

(* Leaving the receive loop: the indication closes the association and     *)
(* connectionLostHandler the IedConnection.                                *)
(* Mutant: connectionLostHandler is not called. *)
LeaveReadingSilently ==
  /\ Move("reading", "lost")
  /\ assoc' = FALSE
  /\ early' = (early \/ Connecting)
  /\ UNCHANGED <<loop, ied, callVars, slotVars, start, stop, credits, buffer, sock, netVars,
                 connects, failed, raced>>

LeaveReading ==
  /\ Move("reading", "lost")
  /\ assoc' = FALSE /\ ied' = FALSE
  /\ early' = (early \/ Connecting)
  /\ UNCHANGED <<loop, callVars, slotVars, start, stop, credits, buffer, sock, netVars,
                 connects, failed, raced>>

(* The server closes, the network fails or a message makes no sense. *)
ConnectionFails == sock = "open" /\ LeaveReading /\ UNCHANGED crashed

(* A freed socket reads as an error or kills the process. *)
ReadFreed == sock = "freed" /\ LeaveReading /\ crashed' \in BOOLEAN

(* The thread looks at the flag whenever no packet waits. *)
(* Mutant: looks at the flag when a packet has come. *)
SeeStopLate == stop /\ wire # <<>> /\ LeaveReading /\ UNCHANGED crashed

SeeStop == stop /\ wire = <<>> /\ LeaveReading /\ UNCHANGED crashed

(* Socket_destroy takes whatever socket the connection has by now. *)
(* Mutant: the buffer is not released for the next connection. *)
EndThreadKept ==
  /\ Move("lost", "off")
  /\ IF sock = "freed" THEN crashed' \in BOOLEAN ELSE UNCHANGED crashed
  /\ sock' = "freed" /\ wire' = <<>> /\ asked' = {}
  /\ UNCHANGED <<loop, callVars, slotVars, stateVars, start, stop, credits, buffer, reports,
                 connects, ghosts>>

EndThread ==
  /\ Move("lost", "off")
  /\ IF sock = "freed" THEN crashed' \in BOOLEAN ELSE UNCHANGED crashed
  /\ sock' = "freed" /\ wire' = <<>> /\ asked' = {}
  /\ credits' = credits + 1
  /\ UNCHANGED <<loop, callVars, slotVars, stateVars, start, stop, buffer, reports, connects, ghosts>>

-----------------------------------------------------------------------------
(* The server: answers in any order, once or never, and sends reports. *)

ServerAnswers ==
  /\ sock = "open" /\ ~crashed
  /\ \E id \in asked, ok \in BOOLEAN :
       /\ asked' = asked \ {id}
       /\ wire' = Append(wire, Answer(id, ok))
  /\ UNCHANGED <<loop, callVars, slotVars, stateVars, threadVars, credits, buffer, sock, reports,
                 connects, crashed, ghosts>>

ServerReports ==
  /\ sock = "open" /\ ~crashed /\ reports < MaxReports
  /\ reports' = reports + 1
  /\ wire' = Append(wire, Report)
  /\ UNCHANGED <<loop, callVars, slotVars, stateVars, threadVars, credits, buffer, sock, asked,
                 connects, crashed, ghosts>>

-----------------------------------------------------------------------------
CallStep == Send \/ EndPolling \/ RemoveOutstanding \/ ParseResponse \/ Release
ConnectStep == Associate \/ ReleaseAssociation \/ Confirm \/ Announce
LoopStep == CallStep \/ ConnectStep \/ Destroyed
ThreadStep == Enter \/ ClearStop \/ TakeBuffer \/ Receive \/ Handled \/ HandOver
              \/ SeeStop \/ ReadFreed \/ EndThread
UserStep == Call \/ Dial \/ Destroy
Environment == Refused \/ Accepted \/ ServerAnswers \/ ServerReports \/ ConnectionFails

(* The thread has come and gone before the event loop saw it running: the  *)
(* event loop waits for ever.                                              *)
StartMissed == loop = "starting" /\ ~start /\ rx = "off"

(* Where the system may stay: an idle client, one that was destroyed, a    *)
(* dead process, and an event loop that missed its thread.                 *)
AtRest == (crashed \/ loop \in {"idle", "destroyed"} \/ StartMissed) /\ UNCHANGED vars

Next == LoopStep \/ ThreadStep \/ UserStep \/ Environment \/ AtRest

Fairness == WF_vars(LoopStep) /\ WF_vars(ThreadStep)

Spec == Init /\ [][Next]_vars /\ Fairness

-----------------------------------------------------------------------------
(* Properties *)

(* The inductive invariant: the receive buffer has one owner, counted      *)
(* through the semaphore, the thread, the slot and a connect under way, as *)
(* long as every call has ended with an answer.                            *)

Count(b) == IF b THEN 1 ELSE 0
Holding == rx \in {"reading", "matched", "handling", "lost"}

OneOwner ==
  ~failed => credits + Count(Holding) + Count(respId # 0) + Count(loop = "starting") = 1

AnswerInv ==
  /\ InCall => lastId > 0
  /\ loop = "releasing" => outcome # "none"
  /\ rx = "matched" => buffer.kind = "answer"

SlotInv ==
  ~failed =>
    /\ respId # 0 => /\ respId = lastId /\ InCall
                     /\ buffer.kind = "answer" /\ buffer.id = lastId
                     /\ respErr = "none" => buffer.ok
    /\ rx = "matched" => loop \in {"sending", "polling"} /\ buffer.id = lastId
    /\ loop \in {"ending", "parsing", "releasing"} => got /\ respId = lastId
    /\ loop = "starting" => start \/ rx \in {"entered", "waiting"}

Listening == rx \notin {"off", "lost"} /\ ~start /\ sock = "open"

LinkInv ==
  ~raced /\ ~early =>
    /\ loop \in {"dialling", "associating"} => ~assoc /\ ~ied /\ rx = "off" /\ ~start /\ sock = "open"
    /\ loop = "starting" => ~assoc /\ ~ied /\ sock = "open" /\ (start <=> rx = "off") /\ rx # "lost"
    /\ loop = "confirming" => ~assoc /\ ~ied /\ Listening
    /\ loop = "announcing" => assoc /\ ~ied /\ Listening
    /\ ~Connecting => /\ assoc <=> ied
                      /\ ied => Listening
                      /\ ~ied => rx \in {"off", "lost"} /\ ~start

Alive == rx \notin {"off", "lost"}

(* Without a race the thread that reads is that of the connection, also    *)
(* when it closes before the event loop has finished connecting.           *)
WholeInv ==
  /\ assoc => ied \/ loop = "announcing"
  /\ ied => ~Connecting
  /\ ~raced =>
       /\ start => loop = "starting" /\ rx = "off"
       /\ loop \in {"dialling", "associating", "destroyed"} => rx = "off"
       /\ loop \notin {"starting", "confirming"} /\ Alive => assoc

(* Every call gets one outcome and returns; as long as no call has failed, *)
(* it is its own answer or its own error.  The refinement: the outcome of  *)
(* a call that found no answer is known when the polling ends.             *)
Service == INSTANCE CallService WITH
  phase <- IF crashed THEN "dead" ELSE IF InCall THEN "busy" ELSE "free",
  outcome <- IF loop \in {"sending", "polling"} \/ (got /\ loop \in {"ending", "parsing"})
             THEN "none"
             ELSE IF loop \in {"ending", "parsing"} THEN "failed" ELSE outcome,
  sound <- ~failed

CallsServed == Service!Spec

(* The connection as a whole, for those who use it: state and thread are   *)
(* made, lost and destroyed together (IedConnection_connect,               *)
(* connectionLostHandler, IedConnection_destroy), unless a connect meets a *)
(* thread that closes.                                                     *)
Whole == INSTANCE Connection WITH
  state  <- IF loop = "closing" THEN "closing" ELSE IF loop = "destroyed" THEN "gone"
            ELSE IF ied THEN "up" ELSE "down",
  linked <- (assoc /\ Alive /\ loop # "announcing"),
  clean  <- ~raced

ConnectionImplemented == Whole!Spec

(* sendRequestAndWaitForResponse takes its entry out of outstandingCalls   *)
(* however it ends, so the table never fills up and nothing is lost by     *)
(* ignoring the result of addToOutstandingCalls.                           *)
TableClean == outstanding = IF loop \in {"sending", "polling", "ending"} THEN {lastId} ELSE {}

(* As long as no call has failed, the slot never holds an old answer: a    *)
(* stale one makes the calls after it time out.                            *)
NoStaleAnswer == ~failed => respId = 0 \/ (respId = lastId /\ InCall)

(* A connection that passes for connected has a thread that reads from its *)
(* own, open socket, unless it was lost while it was being made, or made   *)
(* again before the old thread had ended.                                  *)
ConnectedIsLive ==
  ied /\ ~raced /\ ~early => assoc /\ rx \notin {"off", "lost"} /\ sock = "open"

(* A thread that starts is seen running, as long as no call has failed: it *)
(* waits for the buffer that the event loop releases once it has seen it.  *)
StartSeen == StartMissed => failed

(* Connecting returns once the server has answered, unless a failed call   *)
(* has left the buffer released and the thread ends before it is seen.     *)
ConnectReturns ==
  loop \in {"associating", "starting"}
    ~> (loop = "idle" \/ (StartMissed /\ failed) \/ crashed)

(* "wait for user to release the buffer": the thread reads no message into *)
(* the buffer while a call has its answer there.                           *)
BufferKept == loop \in {"ending", "parsing"} /\ got => rx \notin {"reading", "matched", "handling"}

(* The inductive invariant. *)
IInv == OneOwner /\ AnswerInv /\ SlotInv /\ LinkInv /\ WholeInv /\ TableClean

(* A thread that holds a message or waits for the buffer goes on to read   *)
(* the next message: neither an answer that comes late nor one that is     *)
(* refused blocks it.                                                      *)
ReceiverFree == rx \in {"entered", "waiting", "handling", "matched"} ~> (rx = "reading" \/ crashed)

(* IedConnection_destroy returns once it has asked the thread to stop,     *)
(* unless the thread erases the request when it starts.                    *)
StopHonoured == (loop = "closing" /\ stop) ~> (loop = "destroyed" \/ ~stop \/ crashed)

==============================================================================
