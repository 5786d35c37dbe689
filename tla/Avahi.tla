------------------------------- MODULE Avahi --------------------------------
(***************************************************************************)
(* The Avahi publisher (namepublish/avahi.go): an embedded mDNS responder  *)
(* that answers for the .local names it was last told.                     *)
(*                                                                         *)
(* Publish stores the names and runs reconcile; a ticker runs reconcile    *)
(* again and again, to follow the address of caddyHost.  Every access to   *)
(* the state takes p.mu, but reconcile releases it between reading the     *)
(* names and writing them back, and ensureServer does not take it at all.  *)
(* The goroutines are the calls of Publish, numbered from 1, and the       *)
(* ticker.  The resolver is external: the addresses that caddyHost has.    *)
(***************************************************************************)
EXTENDS Integers, FiniteSets

CONSTANTS
    Names,        \* site names
    LocalNames,   \* those that end in .local
    NameSets,     \* sets of names that the manager may ask to publish
    Addresses,    \* sets of addresses that caddyHost may resolve to
    Refresh,      \* refreshInterval > 0
    MaxJobs,      \* bound: calls of Publish
    MaxChanges,   \* bound: changes of the address of caddyHost
    MaxTogether   \* bound: calls and ticks at one time

ASSUME NamesAssumption == /\ LocalNames \subseteq Names
                          /\ NameSets \subseteq SUBSET Names
\* The early return of reconcile when there is no address is never taken: there
\* is no manager without caddyHost, and a lookup without an answer is an error.
ASSUME AddressesAssumption == {} \notin Addresses
ASSUME BoundsAssumption == {MaxJobs, MaxChanges, MaxTogether} \subseteq Nat
ASSUME RefreshAssumption == Refresh \in BOOLEAN

Nothing == <<>>   \* the empty lastHash

VARIABLES
    desiredNames,  \* p.desiredNames
    lastHash,      \* p.lastHash: the names and addresses that are hashed
    lastIPs,       \* p.lastIPs
    ticking,       \* p.ticker # nil
    hasServer,     \* p.server # nil
    servers,       \* how many mDNS servers have been started
    address,       \* external: what caddyHost resolves to
    changes,       \* how often that has changed
    started,       \* how many calls of Publish have been made
    asked,         \* the names of each call
    undisturbed,   \* ghost: calls that met no other call and began in no tick
    pc,            \* where each goroutine is
    localNames,    \* local variables of reconcile: localNames
    ips            \*     and ips

responder == <<desiredNames, lastHash, lastIPs>>
resolver  == <<address, changes>>
calls     == <<started, asked, undisturbed>>
vars == <<responder, ticking, hasServer, servers, resolver, calls, pc,
          localNames, ips>>

Ticker  == 0
Jobs    == 1 .. MaxJobs
Threads == Jobs \cup {Ticker}
Active  == {"server", "listen", "snapshot", "clear", "resolve", "check", "update"}

TypeOK ==
    /\ desiredNames \in SUBSET Names
    /\ lastHash \in {Nothing} \cup ((SUBSET LocalNames) \X Addresses)
    /\ lastIPs \in Addresses \cup {{}}
    /\ {ticking, hasServer} \subseteq BOOLEAN
    /\ servers \in Nat
    /\ address \in Addresses
    /\ changes \in 0 .. MaxChanges
    /\ started \in 0 .. MaxJobs
    /\ asked \in [Jobs -> SUBSET Names]
    /\ undisturbed \subseteq 1 .. started
    /\ pc \in [Threads -> Active \cup {"idle", "ok", "failed"}]
    /\ localNames \in [Threads -> SUBSET LocalNames]
    /\ ips \in [Threads -> Addresses \cup {{}}]

Init ==
    /\ desiredNames = {}
    /\ lastHash = Nothing
    /\ lastIPs = {}
    /\ ticking = FALSE
    /\ hasServer = FALSE
    /\ servers = 0
    /\ address \in Addresses
    /\ changes = 0
    /\ started = 0
    /\ asked = [j \in Jobs |-> {}]
    /\ undisturbed = {}
    /\ pc = [t \in Threads |-> "idle"]
    /\ localNames = [t \in Threads |-> {}]
    /\ ips = [t \in Threads |-> {}]

Goto(t, phase) == pc' = [pc EXCEPT ![t] = phase]

\* A call of Publish is over; the ticker waits for its next tick.
Return(t, result) ==
    /\ Goto(t, IF t = Ticker THEN "idle" ELSE result)
    /\ localNames' = [localNames EXCEPT ![t] = {}]
    /\ ips' = [ips EXCEPT ![t] = {}]

Running  == {t \in Threads : pc[t] \in Active}
MayStart == Cardinality(Running) < MaxTogether

\* Publish, in its critical section; startTickerLocked.
Publish(names) ==
    LET j == started + 1
    IN  /\ started < MaxJobs
        /\ MayStart
        /\ started' = j
        /\ undisturbed' = (undisturbed \ Running)
                             \cup (IF Running = {} THEN {j} ELSE {})
        /\ asked' = [asked EXCEPT ![j] = names]
        /\ desiredNames' = names
        /\ ticking' = (ticking \/ Refresh)
        /\ Goto(j, "server")
        /\ UNCHANGED <<lastHash, lastIPs, hasServer, servers, resolver,
                       localNames, ips>>

\* case <-p.ticker.C
Tick ==
    /\ ticking
    /\ MayStart
    /\ pc[Ticker] = "idle"
    /\ Goto(Ticker, "snapshot")
    /\ UNCHANGED <<responder, ticking, hasServer, servers, resolver, calls,
                   localNames, ips>>

\* A mutant of EnsureServer: p.server is not looked at.
EnsureServerAlways(j) ==
    /\ pc[j] = "server"
    /\ Goto(j, "listen")
    /\ UNCHANGED <<responder, ticking, hasServer, servers, resolver, calls,
                   localNames, ips>>

\* ensureServer: if p.server != nil
EnsureServer(j) ==
    /\ pc[j] = "server"
    /\ Goto(j, IF hasServer THEN "snapshot" ELSE "listen")
    /\ UNCHANGED <<responder, ticking, hasServer, servers, resolver, calls,
                   localNames, ips>>

\* mdns.NewServer, which fails or starts a server.
NewServer(j) ==
    /\ pc[j] = "listen"
    /\ \/ /\ hasServer' = TRUE
          /\ servers' = servers + 1
          /\ Goto(j, "snapshot")
          /\ UNCHANGED <<localNames, ips>>
       \/ /\ Return(j, "failed")
          /\ UNCHANGED <<hasServer, servers>>
    /\ UNCHANGED <<responder, ticking, resolver, calls>>

-----------------------------------------------------------------------------
(* reconcile                                                               *)

\* Reading the names under the read lock, and filterLocalNames.
Snapshot(t) ==
    /\ pc[t] = "snapshot"
    /\ localNames' = [localNames EXCEPT ![t] = desiredNames \cap LocalNames]
    /\ Goto(t, IF desiredNames \cap LocalNames = {} THEN "clear" ELSE "resolve")
    /\ UNCHANGED <<responder, ticking, hasServer, servers, resolver, calls, ips>>

\* p.updateState(nil, nil)
Clear(t) ==
    /\ pc[t] = "clear"
    /\ desiredNames' = {}
    /\ lastIPs' = {}
    /\ Return(t, "ok")
    /\ UNCHANGED <<lastHash, ticking, hasServer, servers, resolver, calls>>

\* p.resolveIPs
Resolve(t) ==
    /\ pc[t] = "resolve"
    /\ ips' = [ips EXCEPT ![t] = address]
    /\ Goto(t, "check")
    /\ UNCHANGED <<responder, ticking, hasServer, servers, resolver, calls, localNames>>

\* A mutant of ResolveFails: the state is withdrawn, as without local names.
ResolveFailsForgets(t) ==
    /\ pc[t] = "resolve"
    /\ desiredNames' = {}
    /\ lastIPs' = {}
    /\ Return(t, "failed")
    /\ UNCHANGED <<lastHash, ticking, hasServer, servers, resolver, calls>>

\* The lookup fails, also because the publishers called before have used up the
\* deadline that all publishers of a publication share.
ResolveFails(t) ==
    /\ pc[t] = "resolve"
    /\ Return(t, "failed")
    /\ UNCHANGED <<responder, ticking, hasServer, servers, resolver, calls>>

\* A mutant of Check: the addresses are not compared, only the hash.
CheckHashOnly(t) ==
    /\ pc[t] = "check"
    /\ IF <<localNames[t], ips[t]>> = lastHash
       THEN Return(t, "ok") /\ UNCHANGED <<lastHash, lastIPs>>
       ELSE /\ lastHash' = <<localNames[t], ips[t]>>
            /\ lastIPs' = ips[t]
            /\ Goto(t, "update")
            /\ UNCHANGED <<localNames, ips>>
    /\ UNCHANGED <<desiredNames, ticking, hasServer, servers, resolver, calls>>

\* A mutant of Check: the hash leaves the addresses out.
CheckNamesOnly(t) ==
    /\ pc[t] = "check"
    /\ IF lastHash # Nothing /\ localNames[t] = lastHash[1]
       THEN Return(t, "ok") /\ UNCHANGED <<lastHash, lastIPs>>
       ELSE /\ lastHash' = <<localNames[t], ips[t]>>
            /\ lastIPs' = ips[t]
            /\ Goto(t, "update")
            /\ UNCHANGED <<localNames, ips>>
    /\ UNCHANGED <<desiredNames, ticking, hasServer, servers, resolver, calls>>

\* The comparison with lastHash and lastIPs, in one critical section.
Check(t) ==
    /\ pc[t] = "check"
    /\ IF <<localNames[t], ips[t]>> = lastHash /\ ips[t] = lastIPs
       THEN Return(t, "ok") /\ UNCHANGED <<lastHash, lastIPs>>
       ELSE /\ lastHash' = <<localNames[t], ips[t]>>
            /\ lastIPs' = ips[t]
            /\ Goto(t, "update")
            /\ UNCHANGED <<localNames, ips>>
    /\ UNCHANGED <<desiredNames, ticking, hasServer, servers, resolver, calls>>

\* A mutant of Update: the two arguments of updateState are swapped.
UpdateSwapped(t) ==
    /\ pc[t] = "update"
    /\ desiredNames' = ips[t]
    /\ lastIPs' = localNames[t]
    /\ Return(t, "ok")
    /\ UNCHANGED <<lastHash, ticking, hasServer, servers, resolver, calls>>

\* p.updateState(localNames, ips): the names read by Snapshot are written back.
Update(t) ==
    /\ pc[t] = "update"
    /\ desiredNames' = localNames[t]
    /\ lastIPs' = ips[t]
    /\ Return(t, "ok")
    /\ UNCHANGED <<lastHash, ticking, hasServer, servers, resolver, calls>>

-----------------------------------------------------------------------------
\* caddyHost gets other addresses.
ChangeAddress ==
    /\ changes < MaxChanges
    /\ changes' = changes + 1
    /\ \E a \in Addresses \ {address} : address' = a
    /\ UNCHANGED <<responder, ticking, hasServer, servers, calls, pc,
                   localNames, ips>>

Reconcile(t) == \/ Snapshot(t) \/ Clear(t) \/ Resolve(t) \/ ResolveFails(t)
                \/ Check(t) \/ Update(t)

Next ==
    \/ \E names \in NameSets : Publish(names)
    \/ Tick
    \/ \E j \in Jobs : EnsureServer(j) \/ NewServer(j)
    \/ \E t \in Threads : Reconcile(t)
    \/ ChangeAddress

Spec == Init /\ [][Next]_vars

\* The ticker ticks, goroutines run, and a lookup that is tried again and
\* again succeeds in the end.
FairSpec ==
    /\ Spec
    /\ SF_vars(Tick)
    /\ \A j \in Jobs : WF_vars(EnsureServer(j) \/ NewServer(j))
    /\ \A t \in Threads : WF_vars(Reconcile(t))
    /\ SF_vars(Resolve(Ticker))

-----------------------------------------------------------------------------
(* Properties.                                                             *)

\* The names that a server answers for: it asks Records.
AnsweredNames ==
    IF hasServer /\ lastIPs # {} THEN desiredNames \cap LocalNames ELSE {}

\* Calls that meet each other may start a server each, others start one in all,
\* however often Publish is called and NewServer fails.
OneServer == servers <= 1 \/ servers <= Cardinality((1 .. started) \ undisturbed)

\* An undisturbed call that succeeds makes the responder answer for exactly its
\* .local names, also when they equal an earlier call's and were withdrawn in
\* between.
SuccessAnswers ==
    [][\A j \in undisturbed :
          pc[j] \in Active /\ pc'[j] = "ok"
              => AnsweredNames' = asked[j] \cap LocalNames]_vars

\* The ticker makes the answers follow the address of caddyHost.
AddressFollowed ==
    <>[](ticking /\ AnsweredNames # {} => lastIPs = address)

\* The responder ends up answering for the names of the newest call if that was
\* undisturbed, even when the lookup of the call failed, and goes on doing so
\* while the ticker refreshes them.  Excepted is a responder without a server:
\* when NewServer fails, only another call tries again, the ticker does not.
NewestAnswered ==
    <>[](ticking /\ hasServer /\ started \in undisturbed
            => AnsweredNames = asked[started] \cap LocalNames)
=============================================================================
