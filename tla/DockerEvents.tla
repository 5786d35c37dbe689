---------------------------- MODULE DockerEvents ----------------------------
(***************************************************************************)
(* How the DockerLoader notices that Docker changed (loader.go).           *)
(*                                                                         *)
(* Two kinds of goroutine share dockerLoader.timer and                     *)
(* dockerLoader.skipEvents without a lock:                                 *)
(*   - the listener (monitorEvents / listenEvents) reads the event stream  *)
(*     of one Docker client at a time and, on the first event of interest, *)
(*     sets skipEvents[i] and re-arms the timer to EventThrottleInterval;  *)
(*   - every expiry of the timer runs update() in a goroutine of its own,  *)
(*     which re-arms the timer to PollingInterval, clears skipEvents and   *)
(*     then scans the Docker hosts (GenerateCaddyfile).  Nothing keeps two *)
(*     updates from running at the same time.                              *)
(*                                                                         *)
(* What update() does once it has scanned the hosts touches neither the    *)
(* timer nor skipEvents; it is the subject of module Loader, and here the  *)
(* goroutine is free again after its scan.  Docker itself is external: a   *)
(* host is the number of changes made to what a scan of it would return.   *)
(***************************************************************************)
EXTENDS Integers, Sequences

CONSTANTS
    NumClients,             \* len(dockerLoader.dockerClients)
    Updates,                \* goroutines that can run update()
    EventThrottleInterval,  \* options.EventThrottleInterval, in clock ticks
    PollingInterval,        \* options.PollingInterval, in clock ticks
    Events,                 \* the <<type, action>> pairs Docker may report
    MaxRevision,            \* bound: changes of one Docker host
    MaxBacklog              \* bound: events waiting in one event stream

ASSUME NumClientsAssumption == NumClients \in Nat \ {0}
ASSUME IntervalsAssumption  == /\ EventThrottleInterval \in Nat
                               /\ PollingInterval \in Nat
ASSUME BoundsAssumption     == /\ MaxRevision \in Nat
                               /\ MaxBacklog \in Nat

VARIABLES
    timer,       \* ticks until dockerLoader.timer expires, Off when not armed
    skipEvents,  \* dockerLoader.skipEvents
    listening,   \* client whose stream listenEvents reads, 0 when it sleeps
    resetting,   \* listenEvents is between skipEvents[i] = true and Reset
    stream,      \* events waiting in eventsChan of the current subscription
    pc,          \* where each update() goroutine is
    at,          \* its loop index over the clients
    revision,    \* external: how often each Docker host has changed
    heard,       \* ghost: revision of the host when its last event was taken
    read         \* ghost: revision of the host that the newest scan returned

listenerVars == <<listening, resetting, stream>>
ghosts       == <<heard, read>>
vars == <<timer, skipEvents, listening, resetting, stream, pc, at, revision,
          heard, read>>

Clients == 1 .. NumClients
Off     == -1

Phases == {"idle", "reset", "clear", "read"}

TypeOK ==
    /\ timer \in Nat \cup {Off}
    /\ skipEvents \in [Clients -> BOOLEAN]
    /\ listening \in Clients \cup {0}
    /\ resetting \in BOOLEAN
    /\ stream \in Seq(Events)
    /\ pc \in [Updates -> Phases]
    /\ at \in [Updates -> Clients]
    /\ revision \in [Clients -> Nat]
    /\ heard \in [Clients -> Nat]
    /\ read \in [Clients -> Nat]

\* Start: AfterFunc(0, update), and monitorEvents about to call listenEvents.
Init ==
    /\ timer = 0
    /\ skipEvents = [i \in Clients |-> FALSE]
    /\ listening = 0
    /\ resetting = FALSE
    /\ stream = <<>>
    /\ pc = [u \in Updates |-> "idle"]
    /\ at = [u \in Updates |-> 1]
    /\ revision = [i \in Clients |-> 0]
    /\ heard = [i \in Clients |-> 0]
    /\ read = [i \in Clients |-> 0]

-----------------------------------------------------------------------------
(* The listener goroutine.                                                 *)

\* The actions of each event type that make listenEvents ask for an update.
UpdateActions ==
    [container |-> {"create", "start", "stop", "die", "destroy"},
     service   |-> {"create", "update", "remove"},
     config    |-> {"create", "remove"},
     network   |-> {"connect", "disconnect"}]

TriggersUpdate(event) == event[2] \in UpdateActions[event[1]]

\* monitorEvents calls listenEvents, at the start and after 30s of sleep; the
\* first client is subscribed.
Connect ==
    /\ listening = 0
    /\ listening' = 1
    /\ stream' = <<>>
    /\ UNCHANGED <<timer, skipEvents, resetting, pc, at, revision, ghosts>>

\* A mutant of ReceiveEvent: every event of interest re-arms the timer.
ReceiveEventUnthrottled ==
    /\ listening # 0
    /\ ~resetting
    /\ stream # <<>>
    /\ stream' = Tail(stream)
    /\ LET i    == listening
           wake == TriggersUpdate(Head(stream))
       IN  /\ skipEvents' = IF wake THEN [skipEvents EXCEPT ![i] = TRUE]
                                    ELSE skipEvents
           /\ resetting' = wake
           /\ heard' = IF wake THEN [heard EXCEPT ![i] = revision[i]] ELSE heard
    /\ UNCHANGED <<timer, listening, pc, at, revision, read>>

\* case event := <-eventsChan, up to the assignment of skipEvents[i].  Taking
\* the event, reading skipEvents[i] and setting it are one step: update() only
\* clears the flag, and a clear that falls between them has the effect of one
\* that comes first.
ReceiveEvent ==
    /\ listening # 0
    /\ ~resetting
    /\ stream # <<>>
    /\ stream' = Tail(stream)
    /\ LET i    == listening
           wake == ~skipEvents[i] /\ TriggersUpdate(Head(stream))
       IN  /\ skipEvents' = IF wake THEN [skipEvents EXCEPT ![i] = TRUE]
                                    ELSE skipEvents
           /\ resetting' = wake
           /\ heard' = IF TriggersUpdate(Head(stream))
                       THEN [heard EXCEPT ![i] = revision[i]]
                       ELSE heard
    /\ UNCHANGED <<timer, listening, pc, at, revision, read>>

\* dockerLoader.timer.Reset(EventThrottleInterval)
ResetThrottle ==
    /\ resetting
    /\ resetting' = FALSE
    /\ timer' = EventThrottleInterval
    /\ UNCHANGED <<skipEvents, listening, stream, pc, at, revision, ghosts>>

\* case err := <-errorChan: the events still waiting are dropped, the next
\* client is subscribed, and after the last one listenEvents returns.
StreamError ==
    /\ listening # 0
    /\ ~resetting
    /\ listening' = IF listening < NumClients THEN listening + 1 ELSE 0
    /\ stream' = <<>>
    /\ UNCHANGED <<timer, skipEvents, resetting, pc, at, revision, ghosts>>

-----------------------------------------------------------------------------
(* The timer and the goroutines it starts.                                 *)

\* A clock tick.
Tick ==
    /\ timer > 0
    /\ timer' = timer - 1
    /\ UNCHANGED <<skipEvents, listenerVars, pc, at, revision, ghosts>>

\* The timer expires and runs update() in a new goroutine.
Fire(u) ==
    /\ timer = 0
    /\ pc[u] = "idle"
    /\ timer' = Off
    /\ pc' = [pc EXCEPT ![u] = "reset"]
    /\ UNCHANGED <<skipEvents, listenerVars, at, revision, ghosts>>

\* dockerLoader.timer.Reset(PollingInterval)
ResetPolling(u) ==
    /\ pc[u] = "reset"
    /\ timer' = PollingInterval
    /\ pc' = [pc EXCEPT ![u] = "clear"]
    /\ at' = [at EXCEPT ![u] = 1]
    /\ UNCHANGED <<skipEvents, listenerVars, revision, ghosts>>

\* A mutant of ClearSkip: the loop stops one client too early.
ClearSkipShort(u) ==
    /\ pc[u] = "clear"
    /\ IF at[u] < NumClients
       THEN /\ skipEvents' = [skipEvents EXCEPT ![at[u]] = FALSE]
            /\ at' = [at EXCEPT ![u] = @ + 1]
            /\ pc' = pc
       ELSE /\ skipEvents' = skipEvents
            /\ at' = [at EXCEPT ![u] = 1]
            /\ pc' = [pc EXCEPT ![u] = "read"]
    /\ UNCHANGED <<timer, listenerVars, revision, ghosts>>

\* A mutant of ClearSkip: the loop runs one client too far.
ClearSkipLong(u) ==
    /\ pc[u] = "clear"
    /\ IF at[u] <= NumClients
       THEN /\ skipEvents' = [skipEvents EXCEPT ![at[u]] = FALSE]
            /\ at' = [at EXCEPT ![u] = @ + 1]
            /\ pc' = pc
       ELSE /\ skipEvents' = skipEvents
            /\ at' = [at EXCEPT ![u] = 1]
            /\ pc' = [pc EXCEPT ![u] = "read"]
    /\ UNCHANGED <<timer, listenerVars, revision, ghosts>>

\* One round of the loop that clears skipEvents; after the last one the scan
\* of GenerateCaddyfile begins.
ClearSkip(u) ==
    /\ pc[u] = "clear"
    /\ skipEvents' = [skipEvents EXCEPT ![at[u]] = FALSE]
    /\ IF at[u] < NumClients
       THEN /\ at' = [at EXCEPT ![u] = @ + 1]
            /\ pc' = pc
       ELSE /\ at' = [at EXCEPT ![u] = 1]
            /\ pc' = [pc EXCEPT ![u] = "read"]
    /\ UNCHANGED <<timer, listenerVars, revision, ghosts>>

\* GenerateCaddyfile lists the objects of one Docker host after another.
ReadHost(u) ==
    /\ pc[u] = "read"
    /\ read' = [read EXCEPT ![at[u]] = revision[at[u]]]
    /\ IF at[u] < NumClients
       THEN /\ at' = [at EXCEPT ![u] = @ + 1]
            /\ pc' = pc
       ELSE /\ at' = [at EXCEPT ![u] = 1]
            /\ pc' = [pc EXCEPT ![u] = "idle"]
    /\ UNCHANGED <<timer, skipEvents, listenerVars, revision, heard>>

-----------------------------------------------------------------------------
(* Docker.                                                                 *)

\* An event arrives on the subscribed stream; those of other hosts reach
\* nobody.
Deliver(i, event) ==
    stream' = IF listening = i THEN Append(stream, event) ELSE stream

\* An object of host i changes and the host reports it.
DockerChange(i, event) ==
    /\ TriggersUpdate(event)
    /\ revision[i] < MaxRevision
    /\ listening = i => Len(stream) < MaxBacklog
    /\ revision' = [revision EXCEPT ![i] = @ + 1]
    /\ Deliver(i, event)
    /\ UNCHANGED <<timer, skipEvents, listening, resetting, pc, at, ghosts>>

\* A change that no event reports: a task starting on another swarm node.
SilentChange(i) ==
    /\ revision[i] < MaxRevision
    /\ revision' = [revision EXCEPT ![i] = @ + 1]
    /\ UNCHANGED <<timer, skipEvents, listenerVars, pc, at, ghosts>>

\* An event that changes nothing a scan returns, such as one of a container
\* without labels; Docker may send these without end.
OtherEvent(event) ==
    /\ listening # 0
    /\ Len(stream) < MaxBacklog
    /\ Deliver(listening, event)
    /\ UNCHANGED <<timer, skipEvents, listening, resetting, pc, at, revision,
                   ghosts>>

-----------------------------------------------------------------------------
Listener == Connect \/ ReceiveEvent \/ ResetThrottle \/ StreamError

Update(u) == Fire(u) \/ ResetPolling(u) \/ ClearSkip(u) \/ ReadHost(u)

Docker ==
    \/ \E i \in Clients : \/ SilentChange(i)
                          \/ \E event \in Events : DockerChange(i, event)
    \/ \E event \in Events : OtherEvent(event)

Next == Listener \/ Tick \/ (\E u \in Updates : Update(u)) \/ Docker

Spec == Init /\ [][Next]_vars

\* Time passes, an expired timer starts its function, and a goroutine that can
\* run does run; streams need not fail and Docker need not do anything.
Fairness ==
    /\ WF_vars(Tick)
    /\ WF_vars(\E u \in Updates : Fire(u))
    /\ \A u \in Updates : WF_vars(ResetPolling(u) \/ ClearSkip(u) \/ ReadHost(u))
    /\ WF_vars(Connect)
    /\ WF_vars(ReceiveEvent)
    /\ WF_vars(ResetThrottle)

FairSpec == Spec /\ Fairness

-----------------------------------------------------------------------------
(* Properties.                                                             *)

\* An update is due within the throttle interval.
WakeupSoon == timer # Off /\ timer <= EventThrottleInterval

\* Update u runs and has still to clear skipEvents[i] / to scan host i.
WillClear(u, i) == \/ pc[u] = "reset"
                   \/ pc[u] = "clear" /\ at[u] <= i
WillRead(u, i)  == \/ pc[u] \in {"reset", "clear"}
                   \/ pc[u] = "read" /\ at[u] <= i

\* While events of a client are being skipped, an update that ends the
\* skipping is due or has started: the flag is never left set for good.
SkippingEnds ==
    \A i \in Clients :
        skipEvents[i] => \/ WakeupSoon
                         \/ resetting /\ listening = i
                         \/ \E u \in Updates : WillClear(u, i)

\* No event is lost between listenEvents and update(): once an event of
\* interest has been taken from a stream, even one that skipEvents discards,
\* a scan of that host that starts later has happened, is still to be done by
\* a running update, or is due within the throttle interval.
EventNotLost ==
    \A i \in Clients :
        heard[i] > read[i] => \/ WakeupSoon
                              \/ resetting
                              \/ \E u \in Updates : WillRead(u, i)

\* Every change of every Docker host is scanned in the end, whatever the event
\* streams do: reported or not, heard or not, and also while events arrive
\* without end (they must not keep pushing the timer back).
ChangeEventuallyRead ==
    \A i \in Clients : \A r \in 1 .. MaxRevision :
        (revision[i] >= r) ~> (read[i] >= r)

=============================================================================
