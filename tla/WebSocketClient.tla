---------------------------- MODULE WebSocketClient ----------------------------
(***************************************************************************)
(* class DirigeraWebSocketClient: the connection loop, the ping task that  *)
(* watches the socket of the moment, and stop(), which cancels both.       *)
(*                                                                         *)
(* They are tasks of one event loop.  An action is the code between two    *)
(* awaits.  A cancelled task sees CancelledError at the await it is in,    *)
(* unless that await is one of a task it has cancelled itself, where       *)
(* contextlib.suppress() swallows it.                                      *)
(***************************************************************************)
EXTENDS Naturals

CONSTANTS
    FloatExponents,     \* multiplier ** n overflows a float for n >= this (1024)
    MaxTroubles         \* bound on the number of failures of hub and network

ASSUME WebSocketClientAssumption ==
    /\ FloatExponents \in Nat
    /\ MaxTroubles \in Nat

VARIABLES
    loop,               \* _connection_loop(): where its task is
    attempt,            \* retry_with_backoff(): attempt number
    dying,              \* CancelledError is on its way through the loop
    ping,               \* _ping_loop(): where its task is
    sock,               \* the socket of the moment, which self._ws refers to
    stopEvent,          \* self._stop_event
    caller,             \* the orchestrator, which calls connect() and stop()
    stopping,           \* lifecycle.is_stopping()
    announced,          \* the latest connection event published
    troubles            \* failures of hub and network so far

vars == <<loop, attempt, dying, ping, sock, stopEvent, caller, stopping,
          announced, troubles>>

PingAlive == {"sleeping", "waiting", "closing", "cancelled"}
LoopOver == {"none", "done", "crashed"}

Init ==
    /\ loop = "none" /\ attempt = 0 /\ dying = FALSE
    /\ ping = "none"
    /\ sock = "none"
    /\ stopEvent = FALSE /\ caller = "new" /\ stopping = FALSE
    /\ announced = "none" /\ troubles = 0

Trouble ==
    /\ troubles < MaxTroubles
    /\ troubles' = troubles + 1

-----------------------------------------------------------------------------
(***************************************************************************)
(* The connection loop                                                     *)
(***************************************************************************)

\* connect(): the task is created; "between" is between two attempts.
Connect ==
    /\ caller = "new"
    /\ caller' = "running"
    /\ stopEvent' = FALSE
    /\ loop' = "between"
    /\ UNCHANGED <<attempt, dying, ping, sock, stopping, announced, troubles>>

\* Mutant: the attempt is counted again when the loop body starts.
AttemptCountsTwice ==
    /\ loop = "between"
    /\ IF stopEvent
       THEN loop' = "done" /\ UNCHANGED attempt
       ELSE /\ loop' = IF stopping THEN "done" ELSE "dialing"
            /\ attempt' = attempt + 2
    /\ UNCHANGED <<dying, ping, sock, stopEvent, caller, stopping, announced, troubles>>

\* The backoff sleep ends, or is interrupted by the stop event.
Attempt ==
    /\ loop = "between"
    /\ IF stopEvent
       THEN loop' = "done" /\ UNCHANGED attempt
       ELSE /\ loop' = IF stopping THEN "done" ELSE "dialing"
            /\ attempt' = attempt + 1
    /\ UNCHANGED <<dying, ping, sock, stopEvent, caller, stopping, announced, troubles>>

\* websockets.connect() succeeds; DIRIGERA_CONNECTED is published and handled.
DialOpens ==
    /\ loop = "dialing"
    /\ sock' = "open"
    /\ loop' = "announcing" /\ announced' = "connected"
    /\ UNCHANGED <<attempt, dying, ping, stopEvent, caller, stopping, troubles>>

\* Mutant: a refused connection ends the loop.
DialFailsForGood ==
    /\ loop = "dialing" /\ Trouble
    /\ loop' = "done" /\ announced' = "disconnected"
    /\ UNCHANGED <<attempt, dying, ping, sock, stopEvent, caller, stopping>>

DialFails ==
    /\ loop = "dialing" /\ Trouble
    /\ loop' = "reporting" /\ announced' = "disconnected"
    /\ UNCHANGED <<attempt, dying, ping, sock, stopEvent, caller, stopping>>

\* Mutant: only the first connection is watched.
AnnouncedFirst ==
    /\ loop = "announcing"
    /\ loop' = "listening"
    /\ ping' = IF attempt = 1 THEN "sleeping" ELSE ping
    /\ UNCHANGED <<attempt, dying, sock, stopEvent, caller, stopping, announced, troubles>>

\* The handlers of DIRIGERA_CONNECTED are done; the ping task is created.
Announced ==
    /\ loop = "announcing"
    /\ loop' = "listening"
    /\ ping' = "sleeping"
    /\ UNCHANGED <<attempt, dying, sock, stopEvent, caller, stopping, announced, troubles>>

\* A message arrives and is published; its handlers are awaited.
Receive ==
    /\ loop = "listening" /\ sock \in {"open", "closing"} /\ ~stopEvent
    /\ loop' = "handling"
    /\ UNCHANGED <<attempt, dying, ping, sock, stopEvent, caller, stopping,
                   announced, troubles>>

Handled ==
    /\ loop = "handling"
    /\ loop' = "listening"
    /\ UNCHANGED <<attempt, dying, ping, sock, stopEvent, caller, stopping,
                   announced, troubles>>

\* Mutant: DIRIGERA_DISCONNECTED is left to the except branch.
LeaveSilently(cancelled) ==
    /\ sock' = "none"
    /\ loop' = IF cancelled THEN "done" ELSE "between"
    /\ UNCHANGED announced

\* The end of the connection, once the ping task is gone: the socket is closed
\* and, unless the task was cancelled, DIRIGERA_DISCONNECTED published.
Leave(cancelled) ==
    /\ sock' = "none"
    /\ IF cancelled
       THEN loop' = "done" /\ UNCHANGED announced
       ELSE loop' = "reporting" /\ announced' = "disconnected"

\* The finally branch around the listen loop: a ping task that is not done is
\* cancelled and awaited.
EndListening(cancelled) ==
    IF ping \in PingAlive
    THEN /\ ping' = "cancelled" /\ loop' = "cancelPing" /\ dying' = cancelled
         /\ UNCHANGED <<sock, announced>>
    ELSE /\ Leave(cancelled)
         /\ UNCHANGED <<ping, dying>>

\* The socket is closed, or a message arrives after the stop event was set.
ListenEnds ==
    /\ loop = "listening"
    /\ sock = "closed" \/ (sock \in {"open", "closing"} /\ stopEvent)
    /\ EndListening(FALSE)
    /\ UNCHANGED <<attempt, stopEvent, caller, stopping, troubles>>

PingAwaited ==
    /\ loop = "cancelPing" /\ ping \notin PingAlive
    /\ Leave(dying)
    /\ UNCHANGED <<attempt, dying, ping, stopEvent, caller, stopping, troubles>>

\* Mutant: the stop event is left to the next backoff, which is not reached
\* in time.
ReportedKeepsOn ==
    /\ loop = "reporting"
    /\ loop' = "dialing"
    /\ UNCHANGED <<attempt, dying, ping, sock, stopEvent, caller, stopping,
                   announced, troubles>>

\* Mutant: the delay of the next attempt overflows one attempt early.
ReportedOverflowsEarly ==
    /\ loop = "reporting"
    /\ loop' = IF stopEvent THEN "done"
               ELSE IF attempt + 1 >= FloatExponents THEN "crashed" ELSE "between"
    /\ UNCHANGED <<attempt, dying, ping, sock, stopEvent, caller, stopping,
                   announced, troubles>>

\* The handlers of DIRIGERA_DISCONNECTED are done.  The loop returns if it was
\* told to stop, otherwise sleeps for calculate_delay(attempt), which raises
\* OverflowError where multiplier ** (attempt - 1) is no float.
Reported ==
    /\ loop = "reporting"
    /\ loop' = IF stopEvent THEN "done"
               ELSE IF attempt - 1 >= FloatExponents THEN "crashed" ELSE "between"
    /\ UNCHANGED <<attempt, dying, ping, sock, stopEvent, caller, stopping,
                   announced, troubles>>

-----------------------------------------------------------------------------
(***************************************************************************)
(* The ping task                                                           *)
(***************************************************************************)

\* The interval is over: end if told to stop or if the socket is closed, else
\* send a ping and wait for its pong.
PingSent ==
    /\ ping = "sleeping"
    /\ ping' = IF stopEvent \/ sock = "closed" THEN "none" ELSE "waiting"
    /\ UNCHANGED <<loop, attempt, dying, sock, stopEvent, caller, stopping,
                   announced, troubles>>

\* The pong arrives, or the socket is found closed.
PongOrClosed ==
    /\ ping = "waiting" /\ sock # "half"
    /\ ping' = IF sock = "closed" THEN "none"
               ELSE IF stopEvent THEN "none" ELSE "sleeping"
    /\ UNCHANGED <<loop, attempt, dying, sock, stopEvent, caller, stopping,
                   announced, troubles>>

\* Mutant: a missing pong ends the task, and nothing else.
PongMissesQuietly ==
    /\ ping = "waiting" /\ sock \in {"open", "half"}
    /\ sock = "half" \/ troubles < MaxTroubles
    /\ troubles' = IF sock = "half" THEN troubles ELSE troubles + 1
    /\ ping' = "none"
    /\ UNCHANGED <<loop, attempt, dying, sock, stopEvent, caller, stopping, announced>>

\* No pong in time, from a dead peer or a slow one: ws.close() is awaited.
PongMisses ==
    /\ ping = "waiting" /\ sock \in {"open", "half"}
    /\ sock = "half" \/ troubles < MaxTroubles
    /\ troubles' = IF sock = "half" THEN troubles ELSE troubles + 1
    /\ ping' = "closing" /\ sock' = "closing"
    /\ UNCHANGED <<loop, attempt, dying, stopEvent, caller, stopping, announced>>

\* The close() the ping task awaits is over.
PingCloses ==
    /\ ping = "closing" /\ sock # "closing"
    /\ ping' = "none"
    /\ UNCHANGED <<loop, attempt, dying, sock, stopEvent, caller, stopping,
                   announced, troubles>>

\* Any other exception: logged, the task ends and the socket stays.
PingErrs ==
    /\ ping \in {"sleeping", "waiting"} /\ Trouble
    /\ ping' = "failed"
    /\ UNCHANGED <<loop, attempt, dying, sock, stopEvent, caller, stopping, announced>>

PingEnds ==
    /\ ping = "cancelled"
    /\ ping' = "none"
    /\ UNCHANGED <<loop, attempt, dying, sock, stopEvent, caller, stopping,
                   announced, troubles>>

-----------------------------------------------------------------------------
(***************************************************************************)
(* stop()                                                                  *)
(***************************************************************************)

\* The loop task is cancelled.  Listening and handling end as if the connection
\* had; a cancellation while the ping task is awaited is swallowed; at any other
\* await the task ends and its socket is closed.
CancelLoop ==
    /\ caller' = "stopLoop"
    /\ \/ /\ loop \in {"listening", "handling"}
          /\ EndListening(TRUE)
       \/ /\ loop \in LoopOver \union {"cancelPing"}
          /\ UNCHANGED <<loop, dying, ping, sock, announced>>
       \/ /\ loop \in {"between", "dialing", "announcing", "reporting"}
          /\ loop' = "done" /\ sock' = "none"
          /\ UNCHANGED <<dying, ping, announced>>

\* A socket in state OPEN is closed first, which is awaited.
CloseSocket ==
    IF sock \in {"open", "half"}
    THEN /\ sock' = "closing" /\ caller' = "stopSocket"
         /\ UNCHANGED <<loop, dying, ping, announced>>
    ELSE CancelLoop

\* stop() sets the event, then cancels the ping task and awaits it.
Stop ==
    /\ caller \in {"new", "running"}
    /\ stopEvent' = TRUE
    /\ IF ping \in PingAlive
       THEN /\ ping' = "cancelled" /\ caller' = "stopPing"
            /\ UNCHANGED <<loop, dying, sock, announced>>
       ELSE CloseSocket
    /\ UNCHANGED <<attempt, stopping, troubles>>

StopPingAwaited ==
    /\ caller = "stopPing" /\ ping \notin PingAlive
    /\ CloseSocket
    /\ UNCHANGED <<attempt, stopEvent, stopping, troubles>>

StopSocketClosed ==
    /\ caller = "stopSocket" /\ sock # "closing"
    /\ CancelLoop
    /\ UNCHANGED <<attempt, stopEvent, stopping, troubles>>

\* Mutant: stop() does not await the cancelled loop.
StoppedAtOnce ==
    /\ caller = "stopLoop"
    /\ caller' = "stopped"
    /\ UNCHANGED <<loop, attempt, dying, ping, sock, stopEvent, stopping,
                   announced, troubles>>

\* The loop task is over and stop() returns.
Stopped ==
    /\ caller = "stopLoop" /\ loop \in LoopOver
    /\ caller' = "stopped"
    /\ UNCHANGED <<loop, attempt, dying, ping, sock, stopEvent, stopping,
                   announced, troubles>>

-----------------------------------------------------------------------------
(***************************************************************************)
(* The hub, the network and the rest of the service                        *)
(***************************************************************************)

\* A close() that is awaited ends, if need be by its own timeout.
CloseCompletes ==
    /\ sock = "closing" /\ (ping = "closing" \/ caller = "stopSocket")
    /\ sock' = "closed"
    /\ UNCHANGED <<loop, attempt, dying, ping, stopEvent, caller, stopping,
                   announced, troubles>>

HubCloses ==
    /\ sock \in {"open", "closing"} /\ Trouble
    /\ sock' = "closed"
    /\ UNCHANGED <<loop, attempt, dying, ping, stopEvent, caller, stopping, announced>>

\* The peer is gone without a word: nothing arrives any more.
HubVanishes ==
    /\ sock = "open" /\ Trouble
    /\ sock' = "half"
    /\ UNCHANGED <<loop, attempt, dying, ping, stopEvent, caller, stopping, announced>>

\* The lifecycle enters STOPPING.
Stopping ==
    /\ ~stopping /\ stopping' = TRUE
    /\ UNCHANGED <<loop, attempt, dying, ping, sock, stopEvent, caller,
                   announced, troubles>>

Terminated == caller = "stopped" /\ UNCHANGED vars

Loop ==
    \/ Attempt \/ DialOpens \/ DialFails \/ Announced \/ Receive \/ Handled
    \/ ListenEnds \/ PingAwaited \/ Reported
Ping == PingSent \/ PongOrClosed \/ PongMisses \/ PingCloses \/ PingEnds
Stopper == StopPingAwaited \/ StopSocketClosed \/ Stopped
Environment == Connect \/ Stop \/ Stopping \/ HubCloses \/ HubVanishes \/ PingErrs

Next == Loop \/ Ping \/ Stopper \/ CloseCompletes \/ Environment \/ Terminated

\* Every task that can go on does: handlers return, sleeps, pings and close()
\* have timeouts, and a hub that is dialled for ever answers some day.
Fairness ==
    /\ WF_vars(Loop) /\ WF_vars(Ping) /\ WF_vars(Stopper) /\ WF_vars(CloseCompletes)
    /\ SF_vars(DialOpens)

Spec == Init /\ [][Next]_vars /\ Fairness

-----------------------------------------------------------------------------
TypeOK ==
    /\ loop \in LoopOver \union {"between", "dialing", "announcing", "listening",
                                  "handling", "cancelPing", "reporting"}
    /\ attempt \in 0..(troubles + 1)
    /\ dying \in BOOLEAN
    /\ ping \in PingAlive \union {"none", "failed"}
    /\ sock \in {"none", "open", "half", "closing", "closed"}
    /\ stopEvent \in BOOLEAN /\ stopping \in BOOLEAN
    /\ caller \in {"new", "running", "stopPing", "stopSocket", "stopLoop", "stopped"}
    /\ announced \in {"none", "connected", "disconnected"}
    /\ troubles \in 0..MaxTroubles

\* The orchestrator is told of the end of every connection it was told of, before
\* the next one is dialled and whatever ended it.
ConnectedIsRevoked ==
    loop \in {"between", "dialing", "crashed"} => announced # "connected"

\* A connection that is listened to is watched: unless the client is stopping or
\* an unexpected error ended it, its ping task is alive until the socket closes.
Watched ==
    loop \in {"listening", "handling"} =>
        ping \in PingAlive \union {"failed"} \/ sock = "closed" \/ stopEvent

\* stop() returns only when both tasks are over and the socket is closed, at
\* whatever await it found them.
StopComplete ==
    caller = "stopped" => loop \in LoopOver /\ ping \notin PingAlive /\ sock = "none"

\* A client that is not stopped retries for ever (max_attempts = None).
NeverGivesUp ==
    (caller = "running" /\ ~stopping) => loop \notin LoopOver

\* It does so at least until the power of the backoff overflows: every attempt
\* but the first is paid for by a failure, so FloatExponents failures are survived.
LastsToOverflow ==
    (caller = "running" /\ ~stopping /\ troubles <= FloatExponents)
        => loop \notin LoopOver

\* A connection whose peer vanished is given up, unless an unexpected error has
\* ended its ping task.
VanishedIsDetected == sock = "half" ~> (sock # "half" \/ ping = "failed")

\* stop() always returns, even if a cancellation is swallowed.
StopReturns == stopEvent ~> caller = "stopped"

\* A client that is not stopped is connected again (unless the power overflowed).
Reconnects ==
    (loop = "between" /\ ~stopping /\ ~stopEvent)
        ~> (loop \in {"listening", "crashed"} \/ stopping \/ stopEvent)
=============================================================================
