------------------------ MODULE ServiceLifecycle_proofs ------------------------
(***************************************************************************)
(* The history of a service, for any number of transitions and callbacks:  *)
(* it is a path of the table, it never returns from a stop or a failure,   *)
(* and started_at is where it first entered RUNNING.  Each callback hears  *)
(* of what it is due to hear, once and in order.                           *)
(***************************************************************************)
EXTENDS ServiceLifecycle, TLAPS, SequenceTheorems

\* The part of TypeOK that the history depends on.
MachineType ==
    /\ initial \in LifecycleStates
    /\ state \in LifecycleStates
    /\ history \in Seq(Record)
    /\ startedAt \in 0..Len(history)

\* What is inductive: each part speaks of records that are never changed again.
HistoryInv ==
    /\ MachineType
    /\ HistoryIsPath
    /\ StartedAtFirstRunning
    /\ NeverActiveAgain

\* A transition adds one record and leaves the others as they are.
OneMore(to) ==
    /\ Len(history) \in Nat /\ Len(history') = Len(history) + 1
    /\ \A i \in 1..Len(history) : history'[i] = history[i]
    /\ history'[Len(history) + 1] = [from |-> state, to |-> to]
    /\ state' = to /\ initial' = initial
    /\ CanTransition(state, to)
    /\ startedAt' = IF to = "RUNNING" /\ startedAt = 0
                    THEN Len(history) + 1 ELSE startedAt

LEMMA TransitionExtends ==
  ASSUME MachineType, NEW to \in LifecycleStates, Transition(to)
  PROVE OneMore(to) /\ history' \in Seq(Record)
<1>1. [from |-> state, to |-> to] \in Record BY DEF MachineType, Record
<1>2. history \in Seq(Record) BY DEF MachineType
<1>3. history' = Append(history, [from |-> state, to |-> to]) BY DEF Transition
<1>4. Len(history) \in Nat BY <1>2
<1>5. /\ Len(history') = Len(history) + 1 /\ history' \in Seq(Record)
      /\ \A i \in 1..Len(history) : history'[i] = history[i]
      /\ history'[Len(history) + 1] = [from |-> state, to |-> to]
  BY <1>1, <1>2, <1>3, AppendProperties
<1> QED BY <1>4, <1>5 DEF OneMore, Transition

LEMMA TypeStep ==
  ASSUME MachineType, NEW to \in LifecycleStates, Transition(to)
  PROVE MachineType'
<1>1. OneMore(to) /\ history' \in Seq(Record) BY TransitionExtends
<1>2. startedAt' \in 0..Len(history') BY <1>1 DEF MachineType, OneMore
<1> QED BY <1>1, <1>2 DEF MachineType, OneMore

LEMMA PathStep ==
  ASSUME HistoryInv, NEW to \in LifecycleStates, OneMore(to)
  PROVE HistoryIsPath'
<1> USE DEF HistoryInv, OneMore
<1>1. PICK n \in Nat : n = Len(history) OBVIOUS
<1>2. \A i \in 0..n : StateAfter(i)' = StateAfter(i)
  BY <1>1 DEF StateAfter
<1>3. StateAfter(n + 1)' = to
  <2>1. n + 1 # 0 BY <1>1
  <2>2. history'[n + 1].to = to BY <1>1
  <2> QED BY <2>1, <2>2 DEF StateAfter
<1>4. ASSUME NEW i \in 1..Len(history')
      PROVE /\ history'[i].from = StateAfter(i - 1)'
            /\ CanTransition(history'[i].from, history'[i].to)
  <2>1. CASE i \in 1..n
    <3>1. history'[i] = history[i] /\ StateAfter(i - 1)' = StateAfter(i - 1)
      BY <2>1, <1>1, <1>2
    <3> QED BY <2>1, <3>1 DEF HistoryIsPath
  <2>2. CASE i = n + 1
    <3>1. StateAfter(i - 1)' = state
      BY <2>2, <1>1, <1>2 DEF HistoryIsPath
    <3>2. history'[i] = [from |-> state, to |-> to]
      BY <1>1, <2>2
    <3> QED BY <3>1, <3>2
  <2>3. i \in 1..n \/ i = n + 1
    BY <1>1
  <2> QED BY <2>1, <2>2, <2>3
<1>5. (state = StateAfter(Len(history)))'
  BY <1>1, <1>3 DEF StateAfter
<1> QED BY <1>4, <1>5 DEF HistoryIsPath

LEMMA StartedStep ==
  ASSUME HistoryInv, NEW to \in LifecycleStates, OneMore(to)
  PROVE StartedAtFirstRunning'
<1> USE DEF HistoryInv, OneMore
<1>1. /\ Len(history) \in Nat /\ startedAt \in 0..Len(history)
      /\ startedAt' = IF to = "RUNNING" /\ startedAt = 0
                      THEN Len(history) + 1 ELSE startedAt
  BY DEF MachineType
<1>2. CASE to = "RUNNING" /\ startedAt = 0
  BY <1>1, <1>2 DEF StartedAtFirstRunning
<1>3. CASE startedAt # 0
  BY <1>1, <1>3 DEF StartedAtFirstRunning
<1>4. CASE to # "RUNNING" /\ startedAt = 0
  <2>1. \A i \in 1..Len(history') : history'[i].to # "RUNNING"
    BY <1>1, <1>4 DEF StartedAtFirstRunning
  <2> QED BY <1>1, <1>4, <2>1 DEF StartedAtFirstRunning
<1> QED BY <1>2, <1>3, <1>4

LEMMA NeverActiveStep ==
  ASSUME HistoryInv, NEW to \in LifecycleStates, OneMore(to)
  PROVE NeverActiveAgain'
<1> USE DEF HistoryInv, OneMore
<1> DEFINE n == Len(history)
           over == {"STOPPING", "STOPPED", "FAILED"}
<1>1. n \in Nat OBVIOUS
<1>2. ASSUME NEW i \in 1..n, history[i].to \in over PROVE to \in {"STOPPED", "FAILED"}
  <2>1. state = history[n].to
    BY <1>1, <1>2 DEF HistoryIsPath, StateAfter
  <2>2. state \in over
    BY <1>1, <1>2, <2>1 DEF NeverActiveAgain
  <2>3. CanTransition(state, to)
    OBVIOUS
  <2> QED BY <2>2, <2>3 DEF CanTransition, ValidTransitions, LifecycleStates
<1>3. ASSUME NEW i \in 1..Len(history'), NEW j \in 1..Len(history'),
             i < j, history'[i].to \in over
      PROVE history'[j].to \in {"STOPPED", "FAILED"}
  <2>1. i \in 1..n /\ history'[i] = history[i]
    BY <1>1, <1>3
  <2>2. CASE j \in 1..n
    BY <1>3, <2>1, <2>2 DEF NeverActiveAgain
  <2>3. CASE j = n + 1
    BY <1>2, <1>3, <2>1, <2>3
  <2> QED BY <1>1, <2>2, <2>3
<1> QED BY <1>3 DEF NeverActiveAgain

\* HistoryInv holds whatever order transitions, registrations and notifications
\* come in.
THEOREM HistoryInvariance == Spec => []HistoryInv
<1>1. Init => HistoryInv
  BY DEF Init, HistoryInv, MachineType, HistoryIsPath, StateAfter,
         StartedAtFirstRunning, NeverActiveAgain
<1>2. HistoryInv /\ [Next]_vars => HistoryInv'
  <2> SUFFICES ASSUME HistoryInv, [Next]_vars PROVE HistoryInv' OBVIOUS
  <2>1. ASSUME NEW to \in LifecycleStates, Transition(to) PROVE HistoryInv'
    <3>1. MachineType' BY <2>1, TypeStep DEF HistoryInv
    <3>2. OneMore(to) BY <2>1, TransitionExtends DEF HistoryInv
    <3> QED BY <3>1, <3>2, PathStep, StartedStep, NeverActiveStep DEF HistoryInv
  <2>2. CASE UNCHANGED machine
    BY <2>2 DEF machine, HistoryInv, MachineType, HistoryIsPath, StateAfter,
                StartedAtFirstRunning, NeverActiveAgain
  <2>3. ASSUME NEW c \in Callbacks, RegisterCallback(c) \/ UnregisterCallback(c)
        PROVE UNCHANGED machine
    BY <2>3 DEF RegisterCallback, UnregisterCallback
  <2>4. ASSUME Deliver PROVE UNCHANGED machine
    BY <2>4 DEF Deliver
  <2>5. ASSUME UNCHANGED vars PROVE UNCHANGED machine
    BY <2>5 DEF vars, machine
  <2> QED BY <2>1, <2>2, <2>3, <2>4, <2>5 DEF Next
<1> QED BY <1>1, <1>2, PTL DEF Spec

\* last_transition and history always describe a path of the transition table
\* that ends in current_state.
THEOREM PathCorrect == Spec => []HistoryIsPath
<1>1. HistoryInv => HistoryIsPath BY DEF HistoryInv
<1> QED BY <1>1, HistoryInvariance, PTL

\* A service that is stopping, stopped or failed is never active again.
THEOREM NoReturn == Spec => []NeverActiveAgain
<1>1. HistoryInv => NeverActiveAgain BY DEF HistoryInv
<1> QED BY <1>1, HistoryInvariance, PTL

\* started_at is set by the first entry into RUNNING and never moved.
THEOREM StartedOnce == Spec => []StartedAtFirstRunning
<1>1. HistoryInv => StartedAtFirstRunning BY DEF HistoryInv
<1> QED BY <1>1, HistoryInvariance, PTL

\* Every observer of the machine sees it follow the table.
THEOREM ContractImplemented == Spec => ImplementsContract
<1>1. Init => Contract!Init
  BY DEF Init, Contract!Init
<1>2. [Next]_vars => [Contract!Move]_state
  BY DEF Next, vars, Transition, RegisterCallback, UnregisterCallback, Deliver,
         machine, CanTransition, Contract!Move, ValidTransitions, LifecycleStates,
         Contract!ValidTransitions, Contract!LifecycleStates
<1> QED BY <1>1, <1>2, PTL DEF Spec, ImplementsContract, Contract!Spec

-----------------------------------------------------------------------------
(***************************************************************************)
(* Notifications                                                           *)
(***************************************************************************)

\* No callback is in the list twice.
CallbacksOnce ==
    \A i, j \in 1..Len(callbacks) : callbacks[i] = callbacks[j] => i = j

\* Nobody is due to hear of a record there is not.
DueMade == \A c \in Callbacks : due[c] \subseteq 1..Len(history)

\* The notifications that wait are in order for each callback, and later than all
\* it has heard of.
ReadyInOrder ==
    /\ \A i, j \in 1..Len(ready) :
          i < j /\ ready[i][1] = ready[j][1] => ready[i][2] < ready[j][2]
    /\ \A c \in Callbacks : \A i \in 1..Len(received[c]), k \in 1..Len(ready) :
          ready[k][1] = c => received[c][i] < ready[k][2]

NoticeInv ==
    /\ TypeOK
    /\ CallbacksOnce
    /\ DueMade
    /\ ReadyInOrder
    /\ HeardOnceInOrder

\* One notification per registered callback, as a sequence.
Notices(index) == [i \in 1..Len(callbacks) |-> <<callbacks[i], index>>]

LEMMA NoticesType ==
  ASSUME TypeOK, NEW index \in Nat
  PROVE /\ Notices(index) \in Seq(Callbacks \X Nat)
        /\ Len(Notices(index)) = Len(callbacks)
<1>1. Len(callbacks) \in Nat /\ \A i \in 1..Len(callbacks) : callbacks[i] \in Callbacks
  BY DEF TypeOK
<1>2. Notices(index) \in [1..Len(callbacks) -> Callbacks \X Nat]
  BY <1>1 DEF Notices
<1>3. Notices(index) \in Seq(Callbacks \X Nat)
  BY <1>1, <1>2, SeqDef
<1> QED BY <1>1, <1>2, <1>3, LenProperties

\* What notify() adds to the queue, by its position.
LEMMA NotifyExtends ==
  ASSUME TypeOK, NEW index \in Nat, Notify(index)
  PROVE /\ ready' \in Seq(Callbacks \X Nat)
        /\ Len(ready) \in Nat /\ Len(callbacks) \in Nat
        /\ Len(ready') = Len(ready) + Len(callbacks)
        /\ \A i \in 1..Len(ready) : ready'[i] = ready[i]
        /\ \A i \in 1..Len(callbacks) : ready'[Len(ready) + i] = <<callbacks[i], index>>
<1>1. ready' = ready \o Notices(index)
  BY DEF Notify, Notices
<1>2. Notices(index) \in Seq(Callbacks \X Nat) /\ Len(Notices(index)) = Len(callbacks)
  BY NoticesType
<1>3. ready \in Seq(Callbacks \X Nat) /\ Len(callbacks) \in Nat /\ Len(ready) \in Nat
  BY DEF TypeOK
<1> DEFINE n == Len(ready)
           m == Len(callbacks)
<1>4. /\ ready' \in Seq(Callbacks \X Nat)
      /\ Len(ready') = n + m
      /\ \A i \in 1..(n + m) :
            ready'[i] = IF i <= n THEN ready[i] ELSE Notices(index)[i - n]
  <2> DEFINE t == Notices(index)
  <2>1. /\ ready \o t \in Seq(Callbacks \X Nat)
        /\ Len(ready \o t) = Len(ready) + Len(t)
        /\ \A i \in 1..(Len(ready) + Len(t)) :
              (ready \o t)[i] = IF i <= Len(ready) THEN ready[i] ELSE t[i - Len(ready)]
    <3> HIDE DEF t
    <3> QED BY <1>2, <1>3, ConcatProperties DEF t
  <2>2. Len(t) = m BY <1>2
  <2> QED BY <1>1, <2>1, <2>2
<1> HIDE DEF n, m
<1>5. n \in Nat /\ m \in Nat
  BY <1>3 DEF n, m
<1>6. \A i \in 1..n : ready'[i] = ready[i]
  BY <1>4, <1>5
<1>7. ASSUME NEW i \in 1..m PROVE ready'[n + i] = <<callbacks[i], index>>
  <2>1. n + i \in 1..(n + m) /\ ~ (n + i <= n) /\ (n + i) - n = i
    BY <1>5
  <2>2. ready'[n + i] = Notices(index)[i]
    BY <1>4, <2>1
  <2>3. i \in 1..Len(callbacks) BY DEF m
  <2> QED BY <2>2, <2>3 DEF Notices
<1> QED BY <1>3, <1>4, <1>6, <1>7 DEF n, m

\* A transition is due to those registered, and waits behind all earlier ones.
LEMMA TransitionNotices ==
  ASSUME NoticeInv, NEW to \in LifecycleStates, Transition(to)
  PROVE NoticeInv'
<1> DEFINE h == Len(history)
           n == Len(ready)
           m == Len(callbacks)
<1>1. /\ TypeOK /\ CallbacksOnce /\ DueMade /\ ReadyInOrder /\ HeardOnceInOrder
      /\ MachineType /\ h \in Nat
  BY DEF NoticeInv, TypeOK, MachineType
<1>2. OneMore(to) /\ history' \in Seq(Record) /\ h' = h + 1
  BY <1>1, TransitionExtends DEF OneMore
<1>3. Notify(h + 1) /\ UNCHANGED <<callbacks, received>>
  BY DEF Transition
<1>4. /\ ready' \in Seq(Callbacks \X Nat) /\ n \in Nat /\ m \in Nat
      /\ Len(ready') = n + m
      /\ \A i \in 1..n : ready'[i] = ready[i]
      /\ \A i \in 1..m : ready'[n + i] = <<callbacks[i], h + 1>>
  BY <1>1, <1>3, NotifyExtends
<1>5. due' = [c \in Callbacks |-> IF c \in Registered THEN due[c] \union {h + 1} ELSE due[c]]
  BY <1>3 DEF Notify
<1>6. MachineType'
  BY <1>1, <1>2, TypeStep
<1>7. TypeOK'
  <2>1. due' \in [Callbacks -> SUBSET Nat]
    BY <1>1, <1>5 DEF TypeOK
  <2> QED BY <1>1, <1>3, <1>4, <1>6, <2>1 DEF TypeOK, MachineType
<1>8. CallbacksOnce'
  BY <1>1, <1>3 DEF CallbacksOnce
<1>9. DueMade'
  BY <1>1, <1>2, <1>5 DEF DueMade
\* Each position of the queue is an old one or holds the new record.
<1>10. \A k \in 1..Len(ready') :
          \/ k \in 1..n /\ ready'[k] = ready[k]
          \/ k - n \in 1..m /\ ready'[k] = <<callbacks[k - n], h + 1>>
  <2>1. ASSUME NEW k \in 1..Len(ready') PROVE k \in 1..n \/ (k - n \in 1..m /\ n + (k - n) = k)
    BY <1>4, <2>1
  <2> QED BY <1>4, <2>1
<1>11. \A k \in 1..n : ready[k][1] \in Callbacks /\ ready[k][2] \in Nat
  BY <1>1 DEF TypeOK
\* All that is queued or was heard is older than the new record.
<1>12. \A k \in 1..n : ready[k][2] < h + 1
  <2>1. ASSUME NEW k \in 1..n PROVE ready[k][2] \in 1..h
    <3>1. ready[k][2] \in PendingFor(ready[k][1])
      BY DEF PendingFor
    <3>2. ready[k][2] \in due[ready[k][1]]
      BY <1>1, <1>11, <3>1 DEF HeardOnceInOrder
    <3> QED BY <1>1, <1>11, <3>2 DEF DueMade
  <2> QED BY <1>1, <2>1
<1>13. \A c \in Callbacks : \A i \in 1..Len(received[c]) :
          received[c][i] < h + 1 /\ received[c][i] \in due[c]
  <2>1. ASSUME NEW c \in Callbacks, NEW i \in 1..Len(received[c])
        PROVE received[c][i] \in 1..h /\ received[c][i] \in due[c]
    <3>1. received[c][i] \in HeardBy(c)
      BY DEF HeardBy
    <3> QED BY <1>1, <3>1 DEF HeardOnceInOrder, DueMade
  <2> QED BY <1>1, <2>1
<1>14. ReadyInOrder'
  <2>1. ASSUME NEW i \in 1..Len(ready'), NEW j \in 1..Len(ready'), i < j, ready'[i][1] = ready'[j][1]
        PROVE ready'[i][2] < ready'[j][2]
    <3>1. CASE j \in 1..n
      <4>1. i \in 1..n BY <2>1, <3>1, <1>4
      <4>2. ready'[i] = ready[i] /\ ready'[j] = ready[j] BY <1>4, <3>1, <4>1
      <4> QED BY <1>1, <2>1, <3>1, <4>1, <4>2 DEF ReadyInOrder
    <3>2. CASE i \in 1..n /\ j \notin 1..n
      <4>1. ready'[j] = <<callbacks[j - n], h + 1>> BY <1>10, <3>2
      <4>2. ready'[i] = ready[i] BY <1>4, <3>2
      <4>3. ready'[j][2] = h + 1 BY <4>1
      <4> QED BY <1>12, <3>2, <4>2, <4>3
    <3>3. CASE i \notin 1..n /\ j \notin 1..n
      <4>1. /\ i - n \in 1..m /\ ready'[i] = <<callbacks[i - n], h + 1>>
            /\ j - n \in 1..m /\ ready'[j] = <<callbacks[j - n], h + 1>>
        BY <1>10, <3>3
      <4>2. i - n = j - n
        BY <1>1, <2>1, <4>1 DEF CallbacksOnce
      <4> QED BY <1>4, <2>1, <4>2
    <3> QED BY <3>1, <3>2, <3>3
  <2>2. ASSUME NEW c \in Callbacks, NEW i \in 1..Len(received'[c]), NEW k \in 1..Len(ready'),
               ready'[k][1] = c
        PROVE received'[c][i] < ready'[k][2]
    <3>0. received'[c] = received[c] BY <1>3
    <3>1. CASE k \in 1..n
      BY <1>1, <1>4, <2>2, <3>0, <3>1 DEF ReadyInOrder
    <3>2. CASE k \notin 1..n
      <4>1. ready'[k][2] = h + 1 BY <1>10, <3>2
      <4> QED BY <1>13, <3>0, <4>1
    <3> QED BY <3>1, <3>2
  <2> QED BY <2>1, <2>2 DEF ReadyInOrder
<1>15. HeardOnceInOrder'
  <2>1. ASSUME NEW c \in Callbacks
        PROVE PendingFor(c)' = PendingFor(c) \union (IF c \in Registered THEN {h + 1} ELSE {})
    <3>1. ASSUME NEW x \in PendingFor(c)'
          PROVE x \in PendingFor(c) \/ (c \in Registered /\ x = h + 1)
      <4>1. PICK k \in 1..Len(ready') : ready'[k][1] = c /\ x = ready'[k][2]
        BY <3>1 DEF PendingFor
      <4>2. CASE k \in 1..n
        BY <1>4, <4>1, <4>2 DEF PendingFor
      <4>3. CASE k \notin 1..n
        <5>1. k - n \in 1..m /\ ready'[k] = <<callbacks[k - n], h + 1>> BY <1>10, <4>3
        <5> QED BY <4>1, <5>1 DEF Registered
      <4> QED BY <4>2, <4>3
    <3>2. ASSUME NEW x \in PendingFor(c) PROVE x \in PendingFor(c)'
      <4>1. PICK k \in 1..n : ready[k][1] = c /\ x = ready[k][2]
        BY <3>2 DEF PendingFor
      <4>2. k \in 1..Len(ready') /\ ready'[k] = ready[k] BY <1>4
      <4> QED BY <4>1, <4>2 DEF PendingFor
    <3>3. ASSUME c \in Registered PROVE h + 1 \in PendingFor(c)'
      <4>1. PICK i \in 1..m : c = callbacks[i]
        BY <3>3 DEF Registered
      <4>2. n + i \in 1..Len(ready') /\ ready'[n + i] = <<callbacks[i], h + 1>> BY <1>4
      <4> QED BY <4>1, <4>2 DEF PendingFor
    <3> QED BY <3>1, <3>2, <3>3
  <2>2. ASSUME NEW c \in Callbacks
        PROVE /\ HeardBy(c)' = HeardBy(c)
              /\ received'[c] = received[c]
              /\ due'[c] = due[c] \union (IF c \in Registered THEN {h + 1} ELSE {})
    BY <1>3, <1>5 DEF HeardBy
  <2>3. ASSUME NEW c \in Callbacks PROVE h + 1 \notin HeardBy(c)
    <3>1. \A i \in 1..Len(received[c]) : received[c][i] # h + 1
      <4>1. received[c] \in Seq(Nat) BY <1>1 DEF TypeOK
      <4> QED BY <1>1, <1>13, <4>1
    <3> QED BY <3>1 DEF HeardBy
  <2> QED BY <1>1, <2>1, <2>2, <2>3 DEF HeardOnceInOrder
<1> QED BY <1>7, <1>8, <1>9, <1>14, <1>15 DEF NoticeInv

\* Only the list of callbacks changes.
LEMMA NoticesKept ==
  ASSUME NoticeInv, UNCHANGED <<initial, state, history, startedAt, ready, received, due>>,
         callbacks' \in Seq(Callbacks), CallbacksOnce'
  PROVE NoticeInv'
<1>1. TypeOK' BY DEF NoticeInv, TypeOK
<1>2. DueMade' /\ ReadyInOrder' BY DEF NoticeInv, DueMade, ReadyInOrder
<1>3. \A c \in Callbacks : PendingFor(c)' = PendingFor(c) /\ HeardBy(c)' = HeardBy(c)
  BY DEF PendingFor, HeardBy
<1>4. HeardOnceInOrder' BY <1>3 DEF NoticeInv, HeardOnceInOrder
<1> QED BY <1>1, <1>2, <1>4 DEF NoticeInv

\* The list of callbacks changes; nobody is notified of anything.
LEMMA CallbackNotices ==
  ASSUME NoticeInv, NEW c \in Callbacks, RegisterCallback(c) \/ UnregisterCallback(c)
  PROVE NoticeInv'
<1>1. UNCHANGED <<machine, ready, received, due>>
  BY DEF RegisterCallback, UnregisterCallback
<1>2. callbacks \in Seq(Callbacks) /\ CallbacksOnce
  BY DEF NoticeInv, TypeOK
<1>3. callbacks' \in Seq(Callbacks) /\ CallbacksOnce'
  <2>1. CASE RegisterCallback(c)
    <3>1. callbacks' = Append(callbacks, c) /\ \A i \in 1..Len(callbacks) : callbacks[i] # c
      BY <2>1 DEF RegisterCallback, Registered
    <3>2. /\ callbacks' \in Seq(Callbacks) /\ Len(callbacks') = Len(callbacks) + 1
          /\ \A i \in 1..Len(callbacks) : callbacks'[i] = callbacks[i]
          /\ callbacks'[Len(callbacks) + 1] = c
      BY <1>2, <3>1, AppendProperties
    <3>3. \A i \in 1..Len(callbacks') : i \in 1..Len(callbacks) \/ i = Len(callbacks) + 1
      BY <1>2, <3>2
    <3> QED BY <1>2, <3>1, <3>2, <3>3 DEF CallbacksOnce
  <2>2. CASE UnregisterCallback(c)
    <3>1. PICK i \in 1..Len(callbacks) : callbacks' = RemoveAt(callbacks, i)
      BY <2>2 DEF UnregisterCallback
    <3> DEFINE s == SubSeq(callbacks, 1, i - 1)
               t == SubSeq(callbacks, i + 1, Len(callbacks))
               n == Len(callbacks)
    <3>2. n \in Nat /\ i - 1 \in Int /\ i + 1 \in Int /\ \A k \in 1..n : callbacks[k] \in Callbacks
      BY <1>2
    <3>3. /\ s \in Seq(Callbacks) /\ Len(s) = i - 1
          /\ \A k \in 1..(i - 1) : s[k] = callbacks[k]
      <4>1. \A k \in 1..(i - 1) : callbacks[k] \in Callbacks BY <3>2
      <4> QED BY <3>2, <4>1, SubSeqProperties
    <3>4. /\ t \in Seq(Callbacks) /\ Len(t) = n - i
          /\ \A k \in 1..(n - i) : t[k] = callbacks[i + k]
      <4>1. \A k \in (i + 1)..n : callbacks[k] \in Callbacks BY <3>2
      <4> QED BY <3>2, <4>1, SubSeqProperties
    <3>5. /\ s \o t \in Seq(Callbacks) /\ Len(s \o t) = n - 1
          /\ \A k \in 1..(n - 1) : (s \o t)[k] = IF k < i THEN callbacks[k] ELSE callbacks[k + 1]
      <4>1. /\ s \o t \in Seq(Callbacks) /\ Len(s \o t) = Len(s) + Len(t)
            /\ \A k \in 1..(Len(s) + Len(t)) :
                  (s \o t)[k] = IF k <= Len(s) THEN s[k] ELSE t[k - Len(s)]
        <5> HIDE DEF s, t
        <5> QED BY <3>3, <3>4, ConcatProperties
      <4> HIDE DEF s, t, n
      <4>2. ASSUME NEW k \in 1..(n - 1)
            PROVE (s \o t)[k] = IF k < i THEN callbacks[k] ELSE callbacks[k + 1]
        <5>1. CASE k < i
          BY <3>2, <3>3, <3>4, <4>1, <5>1
        <5>2. CASE ~ (k < i)
          <6>1. (s \o t)[k] = t[k - (i - 1)] /\ k - (i - 1) \in 1..(n - i)
            BY <3>2, <3>3, <3>4, <4>1, <5>2 DEF n
          <6>2. i + (k - (i - 1)) = k + 1
            BY <3>2
          <6> QED BY <3>4, <5>2, <6>1, <6>2
        <5> QED BY <5>1, <5>2
      <4> QED BY <3>2, <3>3, <3>4, <4>1, <4>2 DEF n
    <3>6. callbacks' = s \o t
      BY <3>1 DEF RemoveAt
    <3> HIDE DEF s, t
    <3>7. CallbacksOnce'
      <4>1. ASSUME NEW j \in 1..(n - 1), NEW k \in 1..(n - 1), (s \o t)[j] = (s \o t)[k]
            PROVE j = k
        <5> DEFINE at(y) == IF y < i THEN y ELSE y + 1
        <5>1. at(j) \in 1..n /\ at(k) \in 1..n
          BY <3>2
        <5>2. (s \o t)[j] = callbacks[at(j)] /\ (s \o t)[k] = callbacks[at(k)]
          BY <3>5
        <5>3. at(j) = at(k)
          <6> HIDE DEF at
          <6> QED BY <1>2, <4>1, <5>1, <5>2 DEF CallbacksOnce
        <5> QED BY <3>2, <5>3
      <4> QED BY <3>5, <3>6, <4>1 DEF CallbacksOnce
    <3> QED BY <3>5, <3>6, <3>7
  <2> QED BY <2>1, <2>2
<1> QED BY <1>1, <1>3, NoticesKept DEF machine

\* The oldest notification is heard: the first that waits for its callback, and
\* later than all that callback has heard of.
LEMMA DeliverNotices ==
  ASSUME NoticeInv, Deliver
  PROVE NoticeInv'
<1> DEFINE c == ready[1][1]
           x == ready[1][2]
           n == Len(ready)
           r == Len(received[c])
<1>1. TypeOK /\ DueMade /\ ReadyInOrder /\ HeardOnceInOrder
  BY DEF NoticeInv
<1>2. ready # <<>> /\ ready \in Seq(Callbacks \X Nat) /\ UNCHANGED <<machine, callbacks, due>>
  BY <1>1 DEF Deliver, TypeOK
<1>3. n \in Nat \ {0} /\ Head(ready) = ready[1] /\ c \in Callbacks /\ x \in Nat
  BY <1>2, EmptySeq
<1>4. /\ ready' \in Seq(Callbacks \X Nat) /\ Len(ready') = n - 1
      /\ \A k \in 1..(n - 1) : ready'[k] = ready[k + 1]
  BY <1>2, HeadTailProperties DEF Deliver
<1>5. received' = [received EXCEPT ![c] = Append(@, x)]
  BY <1>3 DEF Deliver
<1>6. received \in [Callbacks -> Seq(Nat)]
  BY <1>1 DEF TypeOK
<1>7. /\ received'[c] \in Seq(Nat) /\ Len(received'[c]) = r + 1 /\ r \in Nat
      /\ \A i \in 1..r : received'[c][i] = received[c][i]
      /\ received'[c][r + 1] = x
  <2>1. received[c] \in Seq(Nat) /\ received'[c] = Append(received[c], x)
    BY <1>3, <1>5, <1>6
  <2> QED BY <1>3, <2>1, AppendProperties
<1>8. \A d \in Callbacks : d # c => received'[d] = received[d]
  BY <1>5, <1>6
<1>9. TypeOK'
  <2>1. received' \in [Callbacks -> Seq(Nat)]
    BY <1>3, <1>5, <1>6, <1>7
  <2> QED BY <1>1, <1>2, <1>4, <2>1 DEF TypeOK, machine
<1> HIDE DEF c, x, n, r
<1>10. \A i \in 1..(r + 1) : i \in 1..r \/ i = r + 1
  BY <1>7
<1>11. 1 \in 1..n /\ \A k \in 1..(n - 1) : k + 1 \in 1..n /\ 1 < k + 1
  BY <1>3
<1>12. ReadyInOrder'
  <2>1. ASSUME NEW i \in 1..Len(ready'), NEW j \in 1..Len(ready'), i < j, ready'[i][1] = ready'[j][1]
        PROVE ready'[i][2] < ready'[j][2]
    <3>1. i + 1 \in 1..n /\ j + 1 \in 1..n /\ i + 1 < j + 1
      BY <1>3, <1>4, <2>1
    <3>2. ready'[i] = ready[i + 1] /\ ready'[j] = ready[j + 1]
      BY <1>4
    <3> QED BY <1>1, <2>1, <3>1, <3>2 DEF ReadyInOrder, n
  <2>2. ASSUME NEW d \in Callbacks, NEW i \in 1..Len(received'[d]), NEW k \in 1..Len(ready'),
               ready'[k][1] = d
        PROVE received'[d][i] < ready'[k][2]
    <3>1. k + 1 \in 1..n /\ 1 < k + 1 /\ ready'[k] = ready[k + 1]
      BY <1>4, <1>11
    <3>2. CASE i \in 1..Len(received[d]) /\ received'[d][i] = received[d][i]
      BY <1>1, <2>2, <3>1, <3>2 DEF ReadyInOrder, n
    <3>3. CASE d = c /\ i = r + 1
      BY <1>1, <1>7, <1>11, <2>2, <3>1, <3>3 DEF ReadyInOrder, n, c, x
    <3> QED BY <1>7, <1>8, <1>10, <3>2, <3>3 DEF r
  <2> QED BY <2>1, <2>2 DEF ReadyInOrder
<1>13. HeardOnceInOrder'
  <2>1. PICK p \in [Callbacks -> SUBSET Nat] :
           \A d \in Callbacks : p[d] = {ready'[k][2] : k \in {j \in 1..Len(ready') : ready'[j][1] = d}}
    <3>1. \A k \in 1..Len(ready') : ready'[k][2] \in Nat BY <1>4
    <3> DEFINE p == [d \in Callbacks |->
                      {ready'[k][2] : k \in {j \in 1..Len(ready') : ready'[j][1] = d}}]
    <3>2. p \in [Callbacks -> SUBSET Nat] BY <3>1
    <3> QED BY <3>2
  <2>2. \A d \in Callbacks : PendingFor(d)' = p[d]
    BY <2>1 DEF PendingFor
  <2>3. ASSUME NEW d \in Callbacks
        PROVE PendingFor(d) = p[d] \union (IF d = c THEN {x} ELSE {})
    <3>1. ASSUME NEW y \in PendingFor(d) PROVE y \in p[d] \/ (d = c /\ y = x)
      <4>1. PICK k \in 1..n : ready[k][1] = d /\ y = ready[k][2]
        BY <3>1 DEF PendingFor, n
      <4>2. CASE k = 1
        BY <4>1, <4>2 DEF c, x
      <4>3. CASE k # 1
        <5>1. k - 1 \in 1..(n - 1) /\ (k - 1) + 1 = k BY <1>3, <4>3
        <5>2. ready'[k - 1] = ready[k] BY <1>4, <5>1
        <5> QED BY <1>4, <2>1, <4>1, <5>1, <5>2
      <4> QED BY <4>2, <4>3
    <3>2. ASSUME NEW y \in p[d] PROVE y \in PendingFor(d)
      <4>1. PICK k \in 1..(n - 1) : ready'[k][1] = d /\ y = ready'[k][2]
        BY <1>4, <2>1, <3>2
      <4> QED BY <1>4, <1>11, <4>1 DEF PendingFor, n
    <3>3. d = c => x \in PendingFor(d)
      BY <1>11 DEF PendingFor, n, c, x
    <3> QED BY <3>1, <3>2, <3>3
  <2>4. ASSUME NEW d \in Callbacks
        PROVE HeardBy(d)' = HeardBy(d) \union (IF d = c THEN {x} ELSE {})
    <3>1. CASE d # c
      BY <1>8, <3>1 DEF HeardBy
    <3>2. CASE d = c
      <4>1. HeardBy(d)' = {received'[c][i] : i \in 1..(r + 1)}
        BY <1>7, <3>2 DEF HeardBy
      <4>2. HeardBy(d) = {received[c][i] : i \in 1..r}
        BY <3>2 DEF HeardBy, r
      <4>3. r + 1 \in 1..(r + 1) /\ 1..r \subseteq 1..(r + 1)
        BY <1>7
      <4>4. HeardBy(d)' = HeardBy(d) \union {x}
        BY <1>7, <1>10, <4>1, <4>2, <4>3
      <4> QED BY <3>2, <4>4
    <3> QED BY <3>1, <3>2
  <2>5. x \notin p[c]
    <3>1. ASSUME NEW k \in 1..Len(ready'), ready'[k][1] = c PROVE x < ready'[k][2]
      BY <1>1, <1>4, <1>11, <3>1 DEF ReadyInOrder, n, c, x
    <3>2. \A k \in 1..Len(ready') : ready'[k][2] \in Nat BY <1>4
    <3> QED BY <1>3, <2>1, <3>1, <3>2
  <2>6. ASSUME NEW d \in Callbacks, NEW i \in 1..Len(received'[d]), NEW j \in 1..Len(received'[d]), i < j
        PROVE received'[d][i] < received'[d][j]
    <3>1. CASE d # c
      BY <1>1, <1>8, <2>6, <3>1 DEF HeardOnceInOrder
    <3>2. CASE d = c /\ j \in 1..r
      <4>1. i \in 1..r BY <1>7, <2>6, <3>2
      <4> QED BY <1>1, <1>7, <2>6, <3>2, <4>1 DEF HeardOnceInOrder, r
    <3>3. CASE d = c /\ j = r + 1
      <4>1. i \in 1..r BY <1>7, <2>6, <3>3
      <4>2. received[c][i] < x BY <1>1, <1>3, <1>11, <4>1 DEF ReadyInOrder, n, r, c, x
      <4> QED BY <1>7, <3>3, <4>1, <4>2
    <3> QED BY <1>7, <1>10, <3>1, <3>2, <3>3
  <2>7. ASSUME NEW d \in Callbacks
        PROVE /\ HeardBy(d)' \union p[d] = due[d]
              /\ HeardBy(d)' \intersect p[d] = {}
    BY <1>1, <2>3, <2>4, <2>5 DEF HeardOnceInOrder
  <2>8. due' = due BY <1>2
  <2> QED BY <2>2, <2>6, <2>7, <2>8 DEF HeardOnceInOrder
<1> QED BY <1>2, <1>9, <1>12, <1>13 DEF NoticeInv, CallbacksOnce, DueMade, machine

\* The state of all notifications is as it should be, for any number of callbacks
\* and transitions and whoever calls when.
LEMMA NoticeInvariance == Spec => []NoticeInv
<1>1. Init => NoticeInv
  <2> SUFFICES ASSUME Init PROVE NoticeInv OBVIOUS
  <2>1. TypeOK
    BY EmptySeq DEF Init, TypeOK
  <2>2. Len(ready) = 0 /\ Len(callbacks) = 0 /\ \A c \in Callbacks : Len(received[c]) = 0
    BY DEF Init
  <2>3. CallbacksOnce /\ DueMade /\ ReadyInOrder
    BY <2>2 DEF Init, CallbacksOnce, DueMade, ReadyInOrder
  <2>4. \A c \in Callbacks : PendingFor(c) = {} /\ HeardBy(c) = {} /\ due[c] = {}
    BY <2>2 DEF Init, PendingFor, HeardBy
  <2> QED BY <2>1, <2>2, <2>3, <2>4 DEF NoticeInv, HeardOnceInOrder
<1>2. NoticeInv /\ [Next]_vars => NoticeInv'
  <2> SUFFICES ASSUME NoticeInv, [Next]_vars PROVE NoticeInv' OBVIOUS
  <2>1. CASE UNCHANGED vars
    <3>1. callbacks' \in Seq(Callbacks) /\ CallbacksOnce'
      BY <2>1 DEF vars, NoticeInv, TypeOK, CallbacksOnce
    <3> QED BY <2>1, <3>1, NoticesKept DEF vars
  <2> QED BY <2>1, TransitionNotices, CallbackNotices, DeliverNotices DEF Next
<1> QED BY <1>1, <1>2, PTL DEF Spec

\* The types of the history, of the notifications and of what is heard.
THEOREM TypeCorrect == Spec => []TypeOK
<1>1. NoticeInv => TypeOK BY DEF NoticeInv
<1> QED BY <1>1, NoticeInvariance, PTL

\* Whatever is transitioned, registered and unregistered while notifications wait,
\* every callback hears of each transition it is due to hear of, once and in order.
THEOREM HeardCorrectly == Spec => []HeardOnceInOrder
<1>1. NoticeInv => HeardOnceInOrder BY DEF NoticeInv
<1> QED BY <1>1, NoticeInvariance, PTL
=============================================================================
