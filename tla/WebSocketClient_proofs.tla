------------------------ MODULE WebSocketClient_proofs ------------------------
(***************************************************************************)
(* The safety properties of WebSocketClient, for every number of failures  *)
(* and every exponent at which the backoff overflows.                      *)
(*                                                                         *)
(* They follow from IInv, which adds to them who may be where: which part  *)
(* of the loop owns the socket and the ping task, who may have cancelled,  *)
(* and that every attempt but the latest has been paid for by a failure.   *)
(***************************************************************************)
EXTENDS WebSocketClient, TLAPS

States ==
    /\ loop \in LoopOver \union {"between", "dialing", "announcing", "listening",
                                  "handling", "cancelPing", "reporting"}
    /\ attempt \in Nat /\ troubles \in 0..MaxTroubles
    /\ dying \in BOOLEAN /\ stopEvent \in BOOLEAN /\ stopping \in BOOLEAN
    /\ ping \in PingAlive \union {"none", "failed"}
    /\ sock \in {"none", "open", "half", "closing", "closed"}
    /\ caller \in {"new", "running", "stopPing", "stopSocket", "stopLoop", "stopped"}
    /\ announced \in {"none", "connected", "disconnected"}

\* A socket and a ping task exist only inside the connection they belong to.
Owned ==
    /\ sock # "none" =>
           loop \in {"announcing", "listening", "handling", "cancelPing"}
    /\ ping \in PingAlive => loop \in {"listening", "handling", "cancelPing"}
    /\ ping = "closing" => sock \in {"closing", "closed"}
    /\ ping = "cancelled" => stopEvent \/ loop = "cancelPing"

\* The stop event is set from the call of stop() on, and nothing else cancels.
Cancelled ==
    /\ stopEvent <=> caller \notin {"new", "running"}
    /\ dying => stopEvent
    /\ caller = "new" => loop = "none"

\* Attempts are paid for by failures: all of them once a connection is lost or
\* refused, all but the latest while it lasts.
Paid ==
    /\ loop = "none" => attempt = 0
    /\ attempt <= troubles + 1
    /\ loop \in {"between", "cancelPing", "reporting"}
           => attempt <= troubles \/ stopEvent
    /\ sock \in {"half", "closing", "closed"}
           => attempt <= troubles \/ stopEvent

\* Why a loop that is over is over.
Ended ==
    /\ loop = "none" => caller = "new" \/ stopEvent
    /\ loop = "done" => stopEvent \/ stopping
    /\ loop = "crashed" => troubles > FloatExponents

\* The latest announcement, at every place of the loop where it matters.
Told ==
    /\ loop = "none" => announced = "none"
    /\ loop \in {"between", "dialing", "crashed"} => announced # "connected"
    /\ loop = "reporting" => announced = "disconnected"

IInv ==
    /\ States /\ Owned /\ Cancelled /\ Paid /\ Ended /\ Told
    /\ Watched /\ StopComplete

USE DEF LoopOver, PingAlive

\* The invariant holds before connect().
LEMMA InitInv == Init => IInv
<1> SUFFICES ASSUME Init PROVE IInv OBVIOUS
<1>1. States
  <2>1. troubles \in 0..MaxTroubles BY WebSocketClientAssumption DEF Init
  <2> QED BY <2>1 DEF Init, States
<1>2. Owned BY DEF Init, Owned
<1>3. Cancelled BY DEF Init, Cancelled
<1>4. Paid BY DEF Init, Paid
<1>5. Ended /\ Told /\ Watched /\ StopComplete
  BY DEF Init, Ended, Told, Watched, StopComplete
<1> QED BY <1>1, <1>2, <1>3, <1>4, <1>5 DEF IInv

\* The steps of the connection loop.
LEMMA LoopInv == ASSUME IInv, Loop PROVE IInv'
<1> USE WebSocketClientAssumption
    DEF IInv, States, Owned, Cancelled, Paid, Ended, Told, Watched, StopComplete
<1>1. CASE Attempt BY <1>1 DEF Attempt
<1>2. CASE DialOpens BY <1>2 DEF DialOpens
<1>3. CASE DialFails BY <1>3 DEF DialFails, Trouble
<1>4. CASE Announced BY <1>4 DEF Announced
<1>5. CASE Receive BY <1>5 DEF Receive
<1>6. CASE Handled BY <1>6 DEF Handled
<1>7. CASE ListenEnds BY <1>7 DEF ListenEnds, EndListening, Leave
<1>8. CASE PingAwaited BY <1>8 DEF PingAwaited, Leave
<1>9. CASE Reported BY <1>9 DEF Reported
<1> QED BY <1>1, <1>2, <1>3, <1>4, <1>5, <1>6, <1>7, <1>8, <1>9 DEF Loop

\* The steps of the ping task.
LEMMA PingInv == ASSUME IInv, Ping PROVE IInv'
<1> USE WebSocketClientAssumption
    DEF IInv, States, Owned, Cancelled, Paid, Ended, Told, Watched, StopComplete
<1>1. CASE PingSent BY <1>1 DEF PingSent
<1>2. CASE PongOrClosed BY <1>2 DEF PongOrClosed
<1>3. CASE PongMisses BY <1>3 DEF PongMisses
<1>4. CASE PingCloses BY <1>4 DEF PingCloses
<1>5. CASE PingEnds BY <1>5 DEF PingEnds
<1> QED BY <1>1, <1>2, <1>3, <1>4, <1>5 DEF Ping

\* CancelLoop() is the part of a step that ends the loop task; stop() is at work,
\* so the event is set, and the ping task has been awaited already.
LEMMA CancelLoopInv ==
  ASSUME IInv, CancelLoop, stopEvent', UNCHANGED <<attempt, stopping, troubles>>,
         stopEvent' \in BOOLEAN
  PROVE IInv'
<1> USE DEF IInv, States, Owned, Cancelled, Paid, Ended, Told, Watched, StopComplete
<1>1. CASE loop \in {"listening", "handling"} /\ ping \in PingAlive
  <2>1. dying' /\ dying' \in BOOLEAN BY <1>1 DEF CancelLoop, EndListening
  <2> QED BY <1>1, <2>1 DEF CancelLoop, EndListening
<1>2. CASE loop \in {"listening", "handling"} /\ ping \notin PingAlive
  BY <1>2 DEF CancelLoop, EndListening, Leave
<1>3. CASE loop \in LoopOver \union {"cancelPing"}
  <2>1. caller' = "stopLoop" /\ UNCHANGED <<loop, dying, ping, sock, announced>>
    BY <1>3 DEF CancelLoop
  <2>2. States' /\ Owned' /\ Watched' /\ StopComplete' BY <2>1
  <2>3. Cancelled' /\ Paid' /\ Ended' /\ Told' BY <2>1
  <2> QED BY <2>2, <2>3
<1>4. CASE loop \in {"between", "dialing", "announcing", "reporting"}
  BY <1>4 DEF CancelLoop
<1> QED BY <1>1, <1>2, <1>3, <1>4

\* The steps of stop().
LEMMA StopperInv == ASSUME IInv, Stopper \/ Stop PROVE IInv'
<1> USE DEF IInv, States, Owned, Cancelled, Paid, Ended, Told, Watched, StopComplete
<1>1. CASE Stop /\ ping \in PingAlive
  BY <1>1 DEF Stop
<1>2. CASE Stop /\ ping \notin PingAlive
  <2>1. CloseSocket /\ stopEvent' /\ UNCHANGED <<attempt, stopping, troubles>>
    BY <1>2 DEF Stop
  <2>2. CASE sock \in {"open", "half"} BY <1>2, <2>1, <2>2 DEF Stop, CloseSocket
  <2>3. CASE sock \notin {"open", "half"}
    BY <1>2, <2>1, <2>3, CancelLoopInv DEF Stop, CloseSocket
  <2> QED BY <2>2, <2>3
<1>3. CASE StopPingAwaited
  <2>1. CASE sock \in {"open", "half"}
    BY <1>3, <2>1 DEF StopPingAwaited, CloseSocket
  <2>2. CASE sock \notin {"open", "half"}
    BY <1>3, <2>2, CancelLoopInv DEF StopPingAwaited, CloseSocket
  <2> QED BY <2>1, <2>2
<1>4. CASE StopSocketClosed
  BY <1>4, CancelLoopInv DEF StopSocketClosed
<1>5. CASE Stopped BY <1>5 DEF Stopped
<1> QED BY <1>1, <1>2, <1>3, <1>4, <1>5 DEF Stopper

\* The caller, the hub and the network.
LEMMA EnvironmentInv ==
  ASSUME IInv, (Environment /\ ~Stop) \/ CloseCompletes \/ Terminated
  PROVE IInv'
<1> USE WebSocketClientAssumption
    DEF IInv, States, Owned, Cancelled, Paid, Ended, Told, Watched, StopComplete
<1>1. CASE Connect
  <2>1. ~stopEvent' /\ stopEvent' \in BOOLEAN BY <1>1 DEF Connect
  <2> QED BY <1>1, <2>1 DEF Connect
<1>2. CASE Stopping BY <1>2 DEF Stopping
<1>3. CASE HubCloses BY <1>3 DEF HubCloses, Trouble
<1>4. CASE HubVanishes BY <1>4 DEF HubVanishes, Trouble
<1>5. CASE PingErrs BY <1>5 DEF PingErrs, Trouble
<1>6. CASE CloseCompletes BY <1>6 DEF CloseCompletes
<1>7. CASE Terminated BY <1>7 DEF Terminated, vars
<1> QED BY <1>1, <1>2, <1>3, <1>4, <1>5, <1>6, <1>7 DEF Environment

\* The invariant holds in every reachable state.
THEOREM Invariance == Spec => []IInv
<1>1. IInv /\ [Next]_vars => IInv'
  <2> SUFFICES ASSUME IInv, [Next]_vars PROVE IInv'
    OBVIOUS
  <2>1. CASE Loop BY <2>1, LoopInv
  <2>2. CASE Ping BY <2>2, PingInv
  <2>3. CASE Stopper \/ Stop BY <2>3, StopperInv
  <2>4. CASE (Environment /\ ~Stop) \/ CloseCompletes \/ Terminated
    BY <2>4, EnvironmentInv
  <2>5. CASE UNCHANGED vars
    BY <2>5 DEF vars, IInv, States, Owned, Cancelled, Paid, Ended, Told, Watched,
         StopComplete
  <2> QED BY <2>1, <2>2, <2>3, <2>4, <2>5 DEF Next, Environment
<1> QED BY <1>1, InitInv, PTL DEF Spec

-----------------------------------------------------------------------------
\* Every variable keeps its type, and no more attempts are made than failures
\* pay for.
THEOREM TypeCorrect == Spec => []TypeOK
<1>1. IInv => TypeOK
  BY DEF IInv, States, Paid, TypeOK
<1> QED BY <1>1, Invariance, PTL

\* Every "connected" the orchestrator hears is followed by a "disconnected"
\* before the next attempt, whatever ended the connection.
THEOREM Revoked == Spec => []ConnectedIsRevoked
<1>1. IInv => ConnectedIsRevoked
  BY DEF IInv, Told, ConnectedIsRevoked
<1> QED BY <1>1, Invariance, PTL

\* Every connection that is listened to has a ping task.
THEOREM AlwaysWatched == Spec => []Watched
<1>1. IInv => Watched
  BY DEF IInv
<1> QED BY <1>1, Invariance, PTL

\* stop() leaves no task and no socket behind.
THEOREM StopSafety == Spec => []StopComplete
<1>1. IInv => StopComplete
  BY DEF IInv
<1> QED BY <1>1, Invariance, PTL

\* Short of the overflow of the backoff the loop never gives up: it survives any
\* FloatExponents failures.
THEOREM Persistence == Spec => []LastsToOverflow
<1>1. IInv => LastsToOverflow
  BY WebSocketClientAssumption DEF IInv, States, Cancelled, Ended, LastsToOverflow
<1> QED BY <1>1, Invariance, PTL
=============================================================================
