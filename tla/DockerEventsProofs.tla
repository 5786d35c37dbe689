------------------------- MODULE DockerEventsProofs -------------------------
(***************************************************************************)
(* Proofs about DockerEvents, for every number of clients and of update    *)
(* goroutines and all intervals.  The inductive invariant says that a set  *)
(* skip flag and an event that was taken are both covered by an update     *)
(* that is due or under way; neither half is inductive without the other.  *)
(***************************************************************************)
EXTENDS DockerEvents, TLAPS

\* An event is not heard before the change it reports.
HeardHappened == \A i \in Clients : heard[i] <= revision[i]

IInv == TypeOK /\ HeardHappened /\ SkippingEnds /\ EventNotLost

LEMMA ClientsNat == Clients \subseteq Nat /\ 1 \in Clients
BY NumClientsAssumption DEF Clients

\* The loops over the clients: what lies behind index a is reached from a + 1.
LEMMA NextClient ==
    ASSUME NEW a \in Clients, NEW i \in Clients, a <= i, a # i
    PROVE  a # NumClients /\ a + 1 <= i
BY NumClientsAssumption DEF Clients

LEMMA ClientAfter ==
    ASSUME NEW a \in Clients, a < NumClients PROVE a + 1 \in Clients
BY NumClientsAssumption DEF Clients

\* Type correctness is inductive by itself.
LEMMA TypeInductive == TypeOK /\ [Next]_vars => TypeOK'
<1> SUFFICES ASSUME TypeOK, [Next]_vars PROVE TypeOK'
    OBVIOUS
<1> USE ClientsNat, NumClientsAssumption, IntervalsAssumption DEF TypeOK
<1>1. CASE Connect
    BY <1>1 DEF Connect, ghosts
<1>2. CASE ReceiveEvent
    <2>1. skipEvents' \in [Clients -> BOOLEAN] /\ heard' \in [Clients -> Nat]
        BY <1>2 DEF ReceiveEvent
    <2>2. resetting' \in BOOLEAN
        BY <1>2 DEF ReceiveEvent, TriggersUpdate
    <2>3. stream' \in Seq(Events)
        BY <1>2 DEF ReceiveEvent
    <2> QED
        BY <1>2, <2>1, <2>2, <2>3 DEF ReceiveEvent
<1>3. CASE ResetThrottle
    BY <1>3 DEF ResetThrottle, ghosts
<1>4. CASE StreamError
    BY <1>4 DEF StreamError, ghosts, Clients
<1>5. CASE Tick
    BY <1>5 DEF Tick, ghosts, listenerVars, Off
<1>6. ASSUME NEW u \in Updates, Fire(u) PROVE TypeOK'
    BY <1>6 DEF Fire, ghosts, listenerVars, Phases
<1>7. ASSUME NEW u \in Updates, ResetPolling(u) PROVE TypeOK'
    BY <1>7 DEF ResetPolling, ghosts, listenerVars, Phases
<1>8. ASSUME NEW u \in Updates, ClearSkip(u) PROVE TypeOK'
    <2>1. at[u] < NumClients => at[u] + 1 \in Clients
        <3>1. at[u] \in Clients
            OBVIOUS
        <3> QED
            BY <3>1, ClientAfter
    <2>2. at' \in [Updates -> Clients]
        BY <1>8, <2>1 DEF ClearSkip
    <2>3. pc' \in [Updates -> Phases]
        BY <1>8 DEF ClearSkip, Phases
    <2> QED
        BY <1>8, <2>2, <2>3 DEF ClearSkip, ghosts, listenerVars
<1>9. ASSUME NEW u \in Updates, ReadHost(u) PROVE TypeOK'
    <2>1. at[u] < NumClients => at[u] + 1 \in Clients
        <3>1. at[u] \in Clients
            OBVIOUS
        <3> QED
            BY <3>1, ClientAfter
    <2>2. at' \in [Updates -> Clients]
        BY <1>9, <2>1 DEF ReadHost
    <2>3. pc' \in [Updates -> Phases]
        BY <1>9 DEF ReadHost, Phases
    <2> QED
        BY <1>9, <2>2, <2>3 DEF ReadHost, ghosts, listenerVars
<1>10. ASSUME NEW i \in Clients, SilentChange(i) PROVE TypeOK'
    <2>1. revision' \in [Clients -> Nat]
        BY <1>10 DEF SilentChange
    <2> QED
        BY <1>10, <2>1 DEF SilentChange, ghosts, listenerVars
<1>11. ASSUME NEW i \in Clients, NEW event \in Events, DockerChange(i, event)
       PROVE  TypeOK'
    <2>1. revision' \in [Clients -> Nat]
        BY <1>11 DEF DockerChange
    <2>2. stream' \in Seq(Events)
        BY <1>11 DEF DockerChange, Deliver
    <2> QED
        BY <1>11, <2>1, <2>2 DEF DockerChange, ghosts
<1>12. ASSUME NEW event \in Events, OtherEvent(event) PROVE TypeOK'
    <2>1. stream' \in Seq(Events)
        BY <1>12 DEF OtherEvent, Deliver
    <2> QED
        BY <1>12, <2>1 DEF OtherEvent, ghosts
<1>13. CASE UNCHANGED vars
    BY <1>13 DEF vars
<1> QED
    BY <1>1, <1>2, <1>3, <1>4, <1>5, <1>6, <1>7, <1>8, <1>9, <1>10, <1>11,
       <1>12, <1>13 DEF Next, Listener, Update, Docker

LEMMA InitIInv == Init => IInv
<1> SUFFICES ASSUME Init PROVE IInv
    OBVIOUS
<1>1. TypeOK
    <2>1. timer \in Nat /\ listening = 0 /\ resetting \in BOOLEAN
        BY DEF Init
    <2>2. stream \in Seq(Events)
        BY DEF Init
    <2>3. pc \in [Updates -> Phases] /\ at \in [Updates -> Clients]
        BY ClientsNat DEF Init, Phases
    <2>4. /\ skipEvents \in [Clients -> BOOLEAN]
          /\ revision \in [Clients -> Nat]
          /\ heard \in [Clients -> Nat]
          /\ read \in [Clients -> Nat]
        BY DEF Init
    <2> QED
        BY <2>1, <2>2, <2>3, <2>4 DEF TypeOK
<1>2. HeardHappened /\ SkippingEnds /\ EventNotLost
    BY DEF Init, HeardHappened, SkippingEnds, EventNotLost
<1> QED
    BY <1>1, <1>2 DEF IInv

\* HeardHappened needs only the types.
LEMMA HeardInductive ==
    TypeOK /\ HeardHappened /\ [Next]_vars => HeardHappened'
<1> SUFFICES ASSUME TypeOK, HeardHappened, [Next]_vars PROVE HeardHappened'
    OBVIOUS
<1> USE DEF TypeOK, HeardHappened
<1>1. CASE ReceiveEvent
    BY <1>1 DEF ReceiveEvent
<1>2. ASSUME NEW i \in Clients,
             heard' = heard /\ revision' = [revision EXCEPT ![i] = @ + 1]
      PROVE  HeardHappened'
    BY <1>2
<1>3. CASE UNCHANGED <<heard, revision>>
    BY <1>3
<1>4. \/ ReceiveEvent
      \/ \E i \in Clients :
            heard' = heard /\ revision' = [revision EXCEPT ![i] = @ + 1]
      \/ UNCHANGED <<heard, revision>>
    BY DEF Next, Listener, Update, Docker, Connect, ResetThrottle, StreamError,
       Tick, Fire, ResetPolling, ClearSkip, ReadHost, SilentChange,
       DockerChange, OtherEvent, vars, ghosts
<1> QED
    BY <1>1, <1>2, <1>3, <1>4

\* The step of the two halves that depend on each other.
LEMMA CoverInductive ==
    IInv /\ [Next]_vars => SkippingEnds' /\ EventNotLost'
<1> SUFFICES ASSUME IInv, [Next]_vars PROVE SkippingEnds' /\ EventNotLost'
    OBVIOUS
<1> USE ClientsNat, NumClientsAssumption, IntervalsAssumption
    DEF IInv, TypeOK, SkippingEnds, EventNotLost, WakeupSoon, WillClear, WillRead
<1>1. CASE Connect
    <2>1. /\ listening = 0
          /\ UNCHANGED <<timer, skipEvents, resetting, pc, at, heard, read>>
        BY <1>1 DEF Connect, ghosts
    <2>2. ASSUME NEW i \in Clients PROVE listening # i
        BY <2>1 DEF Clients
    <2>3. SkippingEnds'
        BY <2>1, <2>2
    <2> QED
        BY <2>1, <2>3
<1>2. CASE ReceiveEvent
    <2>1. SkippingEnds'
        BY <1>2 DEF ReceiveEvent
    <2>2. EventNotLost'
        BY <1>2 DEF ReceiveEvent
    <2> QED
        BY <2>1, <2>2
<1>3. CASE ResetThrottle
    BY <1>3 DEF ResetThrottle, ghosts, Off
<1>4. CASE StreamError
    BY <1>4 DEF StreamError, ghosts
<1>5. CASE Tick
    BY <1>5 DEF Tick, ghosts, listenerVars, Off
<1>6. ASSUME NEW u \in Updates, Fire(u) PROVE SkippingEnds' /\ EventNotLost'
    BY <1>6 DEF Fire, ghosts, listenerVars
<1>7. ASSUME NEW u \in Updates, ResetPolling(u) PROVE SkippingEnds' /\ EventNotLost'
    <2>1. pc'[u] = "clear" /\ at'[u] = 1
        BY <1>7 DEF ResetPolling
    <2>2. \A i \in Clients : 1 <= i
        BY DEF Clients
    <2>3. \A i \in Clients : WillClear(u, i)' /\ WillRead(u, i)'
        BY <2>1, <2>2
    <2> QED
        BY <2>3
<1>8. ASSUME NEW u \in Updates, ClearSkip(u) PROVE SkippingEnds' /\ EventNotLost'
    <2>1. UNCHANGED <<timer, resetting, listening, heard, read>>
        BY <1>8 DEF ClearSkip, ghosts, listenerVars
    <2>2. /\ pc[u] = "clear" /\ at[u] \in Clients /\ skipEvents'[at[u]] = FALSE
          /\ \A i \in Clients \ {at[u]} : skipEvents'[i] = skipEvents[i]
          /\ \A w \in Updates \ {u} : pc'[w] = pc[w] /\ at'[w] = at[w]
        BY <1>8 DEF ClearSkip
    <2>3. \/ pc'[u] = "clear" /\ at'[u] = at[u] + 1
          \/ pc'[u] = "read" /\ at'[u] = 1 /\ at[u] = NumClients
        BY <1>8 DEF ClearSkip, Clients
    <2>4. ASSUME NEW i \in Clients, skipEvents'[i], WillClear(u, i)
          PROVE  WillClear(u, i)'
        <3>1. at[u] <= i /\ at[u] # i
            BY <2>2, <2>4
        <3>2. at[u] # NumClients /\ at[u] + 1 <= i
            BY <2>2, <3>1, NextClient
        <3> QED
            BY <2>3, <3>2
    <2>5. SkippingEnds'
        <3>1. ASSUME NEW i \in Clients, skipEvents'[i], NEW w \in Updates, WillClear(w, i)
              PROVE  \E x \in Updates : WillClear(x, i)'
            BY <3>1, <2>2, <2>4
        <3>2. ASSUME NEW i \in Clients, skipEvents'[i] PROVE skipEvents[i]
            BY <3>2, <2>2
        <3> QED
            BY <3>1, <3>2, <2>1
    <2>6. \A i \in Clients : WillRead(u, i)'
        BY <2>3 DEF Clients
    <2> QED
        BY <2>5, <2>6
<1>9. ASSUME NEW u \in Updates, ReadHost(u) PROVE SkippingEnds' /\ EventNotLost'
    <2>1. UNCHANGED <<timer, skipEvents, resetting, listening, heard>>
        BY <1>9 DEF ReadHost, listenerVars
    <2>2. /\ pc[u] = "read" /\ at[u] \in Clients
          /\ read'[at[u]] = revision[at[u]]
          /\ \A i \in Clients \ {at[u]} : read'[i] = read[i]
          /\ \A w \in Updates \ {u} : pc'[w] = pc[w] /\ at'[w] = at[w]
        BY <1>9 DEF ReadHost
    <2>3. \/ pc'[u] = "read" /\ at'[u] = at[u] + 1
          \/ at[u] = NumClients
        BY <1>9 DEF ReadHost, Clients
    <2>4. SkippingEnds'
        <3>1. ASSUME NEW i \in Clients, NEW w \in Updates, WillClear(w, i)
              PROVE  WillClear(w, i)'
            BY <3>1, <2>2
        <3> QED
            BY <3>1, <2>1
    <2>5. ASSUME NEW i \in Clients, heard'[i] > read'[i] PROVE i # at[u] /\ heard[i] > read[i]
        BY <2>5, <2>1, <2>2 DEF HeardHappened
    <2>6. ASSUME NEW i \in Clients, i # at[u], NEW w \in Updates, WillRead(w, i)
          PROVE  WillRead(w, i)'
        <3>1. CASE w # u
            BY <3>1, <2>6, <2>2
        <3>2. CASE w = u
            <4>1. at[u] <= i /\ at[u] # i
                BY <3>2, <2>6, <2>2
            <4>2. at[u] # NumClients /\ at[u] + 1 <= i
                BY <2>2, <4>1, NextClient
            <4> QED
                BY <2>3, <3>2, <4>2
        <3> QED
            BY <3>1, <3>2
    <2> QED
        BY <2>1, <2>4, <2>5, <2>6
<1>10. CASE UNCHANGED <<timer, skipEvents, listening, resetting, pc, at, heard, read>>
    BY <1>10
<1>11. \/ Listener \/ Tick \/ \E u \in Updates : Update(u)
       \/ UNCHANGED <<timer, skipEvents, listening, resetting, pc, at, heard, read>>
    BY DEF Next, Docker, SilentChange, DockerChange, OtherEvent, vars, ghosts,
       listenerVars
<1> QED
    BY <1>1, <1>2, <1>3, <1>4, <1>5, <1>6, <1>7, <1>8, <1>9, <1>10, <1>11
    DEF Listener, Update

\* Every variable keeps its type (the shared timer, flags and loop indices).
THEOREM TypeCorrect == Spec => []TypeOK
<1>1. Init => TypeOK
    BY InitIInv DEF IInv
<1> QED
    BY <1>1, TypeInductive, PTL DEF Spec

LEMMA Invariance == Spec => []IInv
<1>1. IInv /\ [Next]_vars => IInv'
    BY TypeInductive, HeardInductive, CoverInductive DEF IInv
<1> QED
    BY <1>1, InitIInv, PTL DEF Spec

\* listenEvents never leaves a client's events skipped for good, whatever the
\* interleaving of the unsynchronised writes to timer and skipEvents.
THEOREM SkippingAlwaysEnds == Spec => []SkippingEnds
<1>1. IInv => SkippingEnds
    BY DEF IInv
<1> QED
    BY <1>1, Invariance, PTL

\* No event of interest that listenEvents has taken, or discarded because of
\* skipEvents, is left without a scan that starts after it.
THEOREM EventsAreNotLost == Spec => []EventNotLost
<1>1. IInv => EventNotLost
    BY DEF IInv
<1> QED
    BY <1>1, Invariance, PTL
=============================================================================
