-------------------------- MODULE ServiceLifecycle ---------------------------
(***************************************************************************)
(* class ServiceLifecycle: the state machine with its history, the time    *)
(* the service first ran, and the callbacks it notifies.                   *)
(*                                                                         *)
(* transition() applies the change synchronously, then awaits a gather of  *)
(* one task per registered callback.  The tasks start later, in the order  *)
(* in which the event loop made them ready, so another caller (a callback  *)
(* included) may move the machine on, register or unregister before a      *)
(* notification is delivered.                                              *)
(***************************************************************************)
EXTENDS Lifecycle, Naturals, SequencesExt

CONSTANTS
    Callbacks,          \* async callables that may be registered
    MaxTransitions      \* bound on the length of the history

ASSUME ServiceLifecycleAssumption == MaxTransitions \in Nat

VARIABLES
    initial,            \* initial_state, a constructor argument
    state,              \* _state
    history,            \* _history; its last record is _last_transition
    startedAt,          \* _started_at: index of a record of history, 0 = None
    callbacks,          \* _callbacks, a list without duplicates
    ready,              \* callback tasks created by a gather, not yet started
    received,           \* records each callback was called with (their indices)
    due                 \* records made while the callback was registered

vars == <<initial, state, history, startedAt, callbacks, ready, received, due>>
machine == <<initial, state, history, startedAt>>
notices == <<callbacks, ready, received, due>>

Record == [from : LifecycleStates, to : LifecycleStates]
Registered == {callbacks[i] : i \in 1..Len(callbacks)}

Init ==
    /\ initial \in LifecycleStates
    /\ state = initial
    /\ history = <<>>
    /\ startedAt = 0
    /\ callbacks = <<>>
    /\ ready = <<>>
    /\ received = [c \in Callbacks |-> <<>>]
    /\ due = [c \in Callbacks |-> {}]

\* Mutant: the newest notifications are delivered first.
NotifyLastFirst(index) ==
    /\ ready' = [i \in 1..Len(callbacks) |-> <<callbacks[i], index>>] \o ready
    /\ due' = [c \in Callbacks |->
                 IF c \in Registered THEN due[c] \union {index} ELSE due[c]]

\* The notifications one transition makes ready: one per registered callback.
Notify(index) ==
    /\ ready' = ready \o [i \in 1..Len(callbacks) |-> <<callbacks[i], index>>]
    /\ due' = [c \in Callbacks |->
                 IF c \in Registered THEN due[c] \union {index} ELSE due[c]]

\* Mutants: no record is made; the table is not consulted.
TransitionUnrecorded(to) ==
    /\ CanTransition(state, to)
    /\ state' = to
    /\ startedAt' = IF to = "RUNNING" /\ startedAt = 0
                    THEN Len(history) + 1
                    ELSE startedAt
    /\ Notify(Len(history) + 1)
    /\ UNCHANGED <<initial, history, callbacks, received>>
TransitionUnchecked(to) ==
    /\ Len(history) < MaxTransitions
    /\ state' = to
    /\ history' = Append(history, [from |-> state, to |-> to])
    /\ startedAt' = IF to = "RUNNING" /\ startedAt = 0
                    THEN Len(history) + 1
                    ELSE startedAt
    /\ Notify(Len(history) + 1)
    /\ UNCHANGED <<initial, callbacks, received>>

\* transition(to).  A transition the table does not allow raises and changes
\* nothing, so only the legal ones are steps.
Transition(to) ==
    /\ Len(history) < MaxTransitions
    /\ CanTransition(state, to)
    /\ state' = to
    /\ history' = Append(history, [from |-> state, to |-> to])
    /\ startedAt' = IF to = "RUNNING" /\ startedAt = 0
                    THEN Len(history) + 1
                    ELSE startedAt
    /\ Notify(Len(history) + 1)
    /\ UNCHANGED <<initial, callbacks, received>>

\* register_callback(): idempotent.
RegisterCallback(c) ==
    /\ c \notin Registered
    /\ callbacks' = Append(callbacks, c)
    /\ UNCHANGED <<machine, ready, received, due>>

\* Mutant: notifications already made ready are dropped.
UnregisterCallbackDrops(c) ==
    /\ c \in Registered
    /\ callbacks' = SelectSeq(callbacks, LAMBDA x : x # c)
    /\ ready' = SelectSeq(ready, LAMBDA r : r[1] # c)
    /\ UNCHANGED <<machine, received, due>>

\* unregister_callback(): a notification already made ready is still delivered.
UnregisterCallback(c) ==
    /\ \E i \in 1..Len(callbacks) :
          callbacks[i] = c /\ callbacks' = RemoveAt(callbacks, i)
    /\ UNCHANGED <<machine, ready, received, due>>

\* The event loop starts the oldest callback task; an error raised by the
\* callback is returned by gather and logged, so it does not matter here.
Deliver ==
    /\ ready # <<>>
    /\ LET c == Head(ready)[1] IN
       received' = [received EXCEPT ![c] = Append(@, Head(ready)[2])]
    /\ ready' = Tail(ready)
    /\ UNCHANGED <<machine, callbacks, due>>

Next ==
    \/ \E to \in LifecycleStates : Transition(to)
    \/ \E c \in Callbacks : RegisterCallback(c) \/ UnregisterCallback(c)
    \/ Deliver

Fairness == WF_vars(Deliver)
Spec == Init /\ [][Next]_vars /\ Fairness

-----------------------------------------------------------------------------
TypeOK ==
    /\ initial \in LifecycleStates
    /\ state \in LifecycleStates
    /\ history \in Seq(Record)
    /\ startedAt \in 0..Len(history)
    /\ callbacks \in Seq(Callbacks)
    /\ ready \in Seq(Callbacks \X Nat)
    /\ received \in [Callbacks -> Seq(Nat)]
    /\ due \in [Callbacks -> SUBSET Nat]

\* The state before record i+1 of the history was made.
StateAfter(i) == IF i = 0 THEN initial ELSE history[i].to

\* The history is a path of the table: it starts at the initial state, every
\* record leaves the state the previous one entered, and it ends at the current
\* state, so last_transition.to_state always agrees with current_state.
HistoryIsPath ==
    /\ \A i \in 1..Len(history) :
         /\ history[i].from = StateAfter(i - 1)
         /\ CanTransition(history[i].from, history[i].to)
    /\ state = StateAfter(Len(history))

\* started_at is the time of the first entry into RUNNING; a later return from
\* RECONNECTING does not move it.
StartedAtFirstRunning ==
    /\ startedAt = 0 => \A i \in 1..Len(history) : history[i].to # "RUNNING"
    /\ startedAt # 0 =>
         /\ history[startedAt].to = "RUNNING"
         /\ \A i \in 1..(startedAt - 1) : history[i].to # "RUNNING"

\* Nobody brings a service back once a stop was requested or a failure recorded,
\* whatever calls are still in flight.
NeverActiveAgain ==
    \A i, j \in 1..Len(history) :
        (i < j /\ history[i].to \in {"STOPPING", "STOPPED", "FAILED"})
            => history[j].to \in {"STOPPED", "FAILED"}

\* A callback hears of each transition made while it was registered exactly
\* once and in order, however deliveries interleave with further transitions.
PendingFor(c) == {ready[i][2] : i \in {k \in 1..Len(ready) : ready[k][1] = c}}
HeardBy(c) == {received[c][i] : i \in 1..Len(received[c])}
HeardOnceInOrder ==
    \A c \in Callbacks :
        /\ HeardBy(c) \union PendingFor(c) = due[c]
        /\ HeardBy(c) \intersect PendingFor(c) = {}
        /\ \A i, j \in 1..Len(received[c]) :
              i < j => received[c][i] < received[c][j]

\* Every transition is eventually reported to each callback it was due to, also
\* when the callback is unregistered in the meantime.
EventuallyHeard ==
    \A c \in Callbacks, k \in 1..MaxTransitions :
        (k \in due[c]) ~> (k \in HeardBy(c))

\* The machine implements the contract its users rely on.
Contract == INSTANCE LifecycleContract WITH InitialStates <- LifecycleStates
ImplementsContract == Contract!Spec
=============================================================================
