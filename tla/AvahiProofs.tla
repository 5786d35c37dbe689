---------------------------- MODULE AvahiProofs -----------------------------
(***************************************************************************)
(* Proofs about Avahi for every number of calls, any refresh interval and  *)
(* every way in which calls and ticks meet.                                *)
(***************************************************************************)
EXTENDS Avahi, FiniteSetTheorems, TLAPS

\* What was looked up is not empty, and what is to come has not begun.
LookedUp == \A t \in Threads : pc[t] \in {"check", "update"} => ips[t] \in Addresses
Future   == \A j \in Jobs : j > started => pc[j] = "idle"

Typed == TypeOK /\ LookedUp /\ Future

LEMMA InitTyped == Init => Typed
<1> SUFFICES ASSUME Init PROVE Typed
    OBVIOUS
<1> USE NamesAssumption, BoundsAssumption DEF Init
<1>1. TypeOK
    <2>1. 0 \in 0 .. MaxChanges /\ 0 \in 0 .. MaxJobs
        BY BoundsAssumption
    <2>2. \A t \in Threads : pc[t] = "idle"
        OBVIOUS
    <2> QED
        BY <2>1, <2>2 DEF TypeOK
<1>2. LookedUp /\ Future
    BY DEF LookedUp, Future, Threads
<1> QED
    BY <1>1, <1>2 DEF Typed

LEMMA TypedInductive == Typed /\ [Next]_vars => Typed'
<1> SUFFICES ASSUME Typed, [Next]_vars PROVE Typed'
    OBVIOUS
<1> USE DEF Typed
<1>1. /\ desiredNames \in SUBSET Names
      /\ lastHash \in {Nothing} \cup ((SUBSET LocalNames) \X Addresses)
      /\ lastIPs \in Addresses \cup {{}}
      /\ {ticking, hasServer} \subseteq BOOLEAN
      /\ servers \in Nat /\ address \in Addresses
      /\ changes \in 0 .. MaxChanges /\ started \in 0 .. MaxJobs
      /\ asked \in [Jobs -> SUBSET Names]
      /\ undisturbed \subseteq 1 .. started
      /\ pc \in [Threads -> Active \cup {"idle", "ok", "failed"}]
      /\ localNames \in [Threads -> SUBSET LocalNames]
      /\ ips \in [Threads -> Addresses \cup {{}}]
    BY DEF TypeOK
<1>2. MaxJobs \in Nat /\ MaxChanges \in Nat /\ Jobs \subseteq Threads /\ Jobs \subseteq Nat \ {0}
    BY BoundsAssumption DEF Jobs, Threads
<1>3. ASSUME NEW names \in NameSets, Publish(names) PROVE Typed'
    <2> DEFINE j == started + 1
    <2>1. j \in Jobs /\ started' = j /\ names \in SUBSET Names
        BY <1>1, <1>2, <1>3, NamesAssumption DEF Publish, Jobs
    <2>2. undisturbed' \subseteq 1 .. started'
        <3>1. undisturbed' \subseteq undisturbed \cup {j}
            BY <1>3 DEF Publish
        <3>2. 1 .. started \subseteq 1 .. j /\ j \in 1 .. j
            BY <1>1
        <3> QED
            BY <1>1, <2>1, <3>1, <3>2
    <2>3. pc' = [pc EXCEPT ![j] = "server"] /\ "server" \in Active
        BY <1>3 DEF Publish, Goto, Active
    <2>4. /\ asked' \in [Jobs -> SUBSET Names] /\ started' \in 0 .. MaxJobs
          /\ pc' \in [Threads -> Active \cup {"idle", "ok", "failed"}]
        BY <1>1, <1>2, <1>3, <2>1, <2>3 DEF Publish, Jobs
    <2>5. ticking' \in BOOLEAN /\ desiredNames' \in SUBSET Names
        BY <1>1, <1>3, <2>1, RefreshAssumption DEF Publish
    <2>6. UNCHANGED <<lastHash, lastIPs, hasServer, servers, address, changes,
                      localNames, ips>>
        BY <1>3 DEF Publish, resolver
    <2>7. TypeOK'
        BY <1>1, <2>2, <2>4, <2>5, <2>6 DEF TypeOK
    <2>8. LookedUp' /\ Future'
        BY <1>1, <1>2, <2>1, <2>3, <2>6 DEF LookedUp, Future, Jobs
    <2> QED
        BY <2>7, <2>8
<1>4. ASSUME NEW t \in Threads, NEW x \in Active, pc' = [pc EXCEPT ![t] = x],
             x \in {"check", "update"} => ips'[t] \in Addresses,
             t \in Jobs => pc[t] # "idle",
             \A w \in Threads \ {t} : ips'[w] = ips[w],
             UNCHANGED <<desiredNames, ticking, resolver, calls>>,
             /\ lastHash' \in {Nothing} \cup ((SUBSET LocalNames) \X Addresses)
             /\ lastIPs' \in Addresses \cup {{}}
             /\ hasServer' \in BOOLEAN /\ servers' \in Nat
             /\ localNames' \in [Threads -> SUBSET LocalNames]
             /\ ips' \in [Threads -> Addresses \cup {{}}]
      PROVE  Typed'
    <2>1. pc' \in [Threads -> Active \cup {"idle", "ok", "failed"}]
        BY <1>1, <1>4
    <2>2. UNCHANGED <<address, changes, started, asked, undisturbed>>
        BY <1>4 DEF resolver, calls
    <2>3. TypeOK'
        BY <1>1, <1>4, <2>1, <2>2 DEF TypeOK
    <2>4. LookedUp'
        BY <1>1, <1>4 DEF LookedUp
    <2>5. Future'
        BY <1>1, <1>2, <1>4, <2>2 DEF Future
    <2> QED
        BY <2>3, <2>4, <2>5
<1>5. ASSUME NEW t \in Threads, NEW result \in {"ok", "failed"}, Return(t, result),
             t \in Jobs => pc[t] # "idle",
             UNCHANGED <<lastHash, ticking, hasServer, servers, resolver, calls>>,
             desiredNames' \in SUBSET Names, lastIPs' \in Addresses \cup {{}}
      PROVE  Typed'
    <2> DEFINE x == IF t = Ticker THEN "idle" ELSE result
    <2>1. /\ pc' = [pc EXCEPT ![t] = x] /\ x \in {"idle", "ok", "failed"}
          /\ localNames' = [localNames EXCEPT ![t] = {}]
          /\ ips' = [ips EXCEPT ![t] = {}]
        BY <1>5 DEF Return, Goto
    <2>2. /\ pc' \in [Threads -> Active \cup {"idle", "ok", "failed"}]
          /\ localNames' \in [Threads -> SUBSET LocalNames]
          /\ ips' \in [Threads -> Addresses \cup {{}}]
        BY <1>1, <2>1
    <2>3. UNCHANGED <<address, changes, started, asked, undisturbed>>
        BY <1>5 DEF resolver, calls
    <2>4. TypeOK'
        BY <1>1, <1>5, <2>2, <2>3 DEF TypeOK
    <2>5. LookedUp'
        BY <1>1, <2>1 DEF LookedUp
    <2>6. Future'
        BY <1>1, <1>2, <1>5, <2>1, <2>3 DEF Future
    <2> QED
        BY <2>4, <2>5, <2>6
<1>6. CASE Tick
    <2>1. /\ Ticker \in Threads \ Jobs /\ "snapshot" \in Active
        BY DEF Ticker, Threads, Jobs, Active
    <2> QED
        BY <1>1, <1>4, <1>6, <2>1 DEF Tick, Goto, responder
<1>7. ASSUME NEW j \in Jobs, EnsureServer(j) PROVE Typed'
    <2> DEFINE x == IF hasServer THEN "snapshot" ELSE "listen"
    <2>1. x \in Active \ {"check", "update"}
        BY DEF Active
    <2> QED
        BY <1>1, <1>2, <1>4, <1>7, <2>1 DEF EnsureServer, Goto, responder
<1>8. ASSUME NEW j \in Jobs, NewServer(j) PROVE Typed'
    <2>1. pc[j] = "listen" /\ UNCHANGED <<responder, ticking, resolver, calls>>
        BY <1>8 DEF NewServer
    <2>2. CASE /\ hasServer' = TRUE /\ servers' = servers + 1
               /\ Goto(j, "snapshot") /\ UNCHANGED <<localNames, ips>>
        <3>1. "snapshot" \in Active \ {"check", "update"} /\ j \in Threads
            BY <1>2 DEF Active
        <3>2. servers' \in Nat /\ hasServer' \in BOOLEAN
            BY <1>1, <2>2
        <3>3. pc' = [pc EXCEPT ![j] = "snapshot"]
            BY <2>2 DEF Goto
        <3> QED
            BY <1>1, <1>4, <2>1, <2>2, <3>1, <3>2, <3>3 DEF responder
    <2>3. CASE Return(j, "failed") /\ UNCHANGED <<hasServer, servers>>
        BY <1>1, <1>2, <1>5, <2>1, <2>3 DEF responder
    <2> QED
        BY <1>8, <2>2, <2>3 DEF NewServer
<1>9. ASSUME NEW t \in Threads, Snapshot(t) PROVE Typed'
    <2> DEFINE x == IF desiredNames \cap LocalNames = {} THEN "clear" ELSE "resolve"
    <2>1. x \in Active \ {"check", "update"}
        BY DEF Active
    <2>2. localNames' \in [Threads -> SUBSET LocalNames]
        BY <1>1, <1>9 DEF Snapshot
    <2> QED
        BY <1>1, <1>4, <1>9, <2>1, <2>2 DEF Snapshot, Goto, responder
<1>10. ASSUME NEW t \in Threads, Clear(t) PROVE Typed'
    BY <1>1, <1>5, <1>10 DEF Clear
<1>11. ASSUME NEW t \in Threads, Resolve(t) PROVE Typed'
    <2>1. ips' = [ips EXCEPT ![t] = address] /\ pc' = [pc EXCEPT ![t] = "check"]
        BY <1>11 DEF Resolve, Goto
    <2>2. /\ ips' \in [Threads -> Addresses \cup {{}}] /\ ips'[t] \in Addresses
          /\ \A w \in Threads \ {t} : ips'[w] = ips[w]
        BY <1>1, <2>1
    <2> QED
        BY <1>1, <1>4, <1>11, <2>1, <2>2 DEF Resolve, Active, responder
<1>12. ASSUME NEW t \in Threads, ResolveFails(t) PROVE Typed'
    BY <1>1, <1>5, <1>12 DEF ResolveFails, responder
<1>13. ASSUME NEW t \in Threads, Check(t) PROVE Typed'
    <2>1. /\ pc[t] = "check" /\ ips[t] \in Addresses /\ localNames[t] \in SUBSET LocalNames
          /\ UNCHANGED <<desiredNames, ticking, hasServer, servers, resolver, calls>>
        BY <1>1, <1>13 DEF Check, LookedUp
    <2>2. CASE Return(t, "ok") /\ UNCHANGED <<lastHash, lastIPs>>
        BY <1>1, <1>5, <2>1, <2>2
    <2>3. CASE /\ lastHash' = <<localNames[t], ips[t]>> /\ lastIPs' = ips[t]
               /\ Goto(t, "update") /\ UNCHANGED <<localNames, ips>>
        <3>1. lastHash' \in (SUBSET LocalNames) \X Addresses
            BY <2>1, <2>3
        <3> QED
            BY <1>1, <1>4, <2>1, <2>3, <3>1 DEF Goto, Active
    <2> QED
        BY <1>13, <2>2, <2>3 DEF Check
<1>14. ASSUME NEW t \in Threads, Update(t) PROVE Typed'
    <2>1. desiredNames' \in SUBSET Names /\ lastIPs' \in Addresses \cup {{}}
        BY <1>1, <1>14, NamesAssumption DEF Update
    <2> QED
        BY <1>5, <1>14, <2>1 DEF Update
<1>15. CASE ChangeAddress
    <2>1. address' \in Addresses /\ changes' \in 0 .. MaxChanges
        BY <1>1, <1>2, <1>15 DEF ChangeAddress
    <2> QED
        BY <1>1, <1>15, <2>1
        DEF ChangeAddress, TypeOK, LookedUp, Future, responder, calls
<1>16. CASE UNCHANGED vars
    BY <1>16 DEF vars, TypeOK, LookedUp, Future, responder, resolver, calls
<1> QED
    BY <1>3, <1>6, <1>7, <1>8, <1>9, <1>10, <1>11, <1>12, <1>13, <1>14, <1>15, <1>16
    DEF Next, Reconcile

\* Names stay names and addresses addresses, through every interleaving of
\* calls and ticks that write the two fields back.
THEOREM TypeCorrect == Spec => []TypeOK
<1>1. Typed => TypeOK
    BY DEF Typed
<1> QED
    BY <1>1, InitTyped, TypedInductive, PTL DEF Spec

-----------------------------------------------------------------------------
(* Servers.                                                                *)

\* The calls that can still start a server, and those that met another one.
Pending   == {j \in Jobs : pc[j] = "listen" \/ (pc[j] = "server" /\ ~hasServer)}
Disturbed == (1 .. started) \ undisturbed

\* Who sees no server, although one is about to start, has met its call.
ServersCounted ==
    /\ ~hasServer => servers = 0
    /\ \/ servers + Cardinality(Pending) <= 1
       \/ servers + Cardinality(Pending) <= Cardinality(Disturbed)

LEMMA CountsFinite ==
    ASSUME Typed
    PROVE  /\ IsFiniteSet(Pending) /\ Cardinality(Pending) \in Nat
           /\ IsFiniteSet(Disturbed) /\ Cardinality(Disturbed) \in Nat
<1>1. MaxJobs \in Nat /\ started \in Nat
    BY BoundsAssumption DEF Typed, TypeOK
<1>2. IsFiniteSet(Jobs) /\ IsFiniteSet(1 .. started)
    BY <1>1, FS_Interval DEF Jobs
<1>3. Pending \subseteq Jobs /\ Disturbed \subseteq 1 .. started
    BY DEF Pending, Disturbed
<1> QED
    BY <1>2, <1>3, FS_Subset, FS_CardinalityType

LEMMA CountedInductive ==
    ASSUME Typed, ServersCounted, [Next]_vars
    PROVE  ServersCounted'
<1>1. /\ pc \in [Threads -> Active \cup {"idle", "ok", "failed"}]
      /\ hasServer \in BOOLEAN /\ servers \in Nat /\ started \in 0 .. MaxJobs
      /\ undisturbed \subseteq 1 .. started
    BY DEF Typed, TypeOK
<1>2. Jobs \subseteq Threads /\ Ticker \notin Jobs
    BY DEF Jobs, Threads, Ticker
<1>3. /\ IsFiniteSet(Pending') /\ Cardinality(Pending') \in Nat
      /\ IsFiniteSet(Disturbed') /\ Cardinality(Disturbed') \in Nat
    <2>1. Typed'
        BY TypedInductive
    <2>2. MaxJobs \in Nat /\ started' \in Nat
        BY <2>1, BoundsAssumption DEF Typed, TypeOK
    <2>3. IsFiniteSet(Jobs) /\ IsFiniteSet(1 .. started')
        BY <2>2, FS_Interval DEF Jobs
    <2>4. Pending' \subseteq Jobs /\ Disturbed' \subseteq 1 .. started'
        BY DEF Pending, Disturbed
    <2> QED
        BY <2>3, <2>4, FS_Subset, FS_CardinalityType
<1>4. ASSUME Pending' \subseteq Pending, UNCHANGED <<hasServer, servers, calls>>
      PROVE  ServersCounted'
    <2>1. Cardinality(Pending') <= Cardinality(Pending)
        BY <1>4, CountsFinite, FS_Subset
    <2>2. Disturbed' = Disturbed
        BY <1>4 DEF calls, Disturbed
    <2> QED
        BY <1>1, <1>3, <1>4, <2>1, <2>2, CountsFinite DEF ServersCounted
<1>5. ASSUME NEW names \in NameSets, Publish(names) PROVE ServersCounted'
    <2> DEFINE j == started + 1
    <2>1. /\ j \in Jobs /\ started' = j /\ pc' = [pc EXCEPT ![j] = "server"]
          /\ UNCHANGED <<hasServer, servers>>
        BY <1>1, <1>5, BoundsAssumption DEF Publish, Goto, Jobs
    <2>2. undisturbed' = (undisturbed \ Running) \cup (IF Running = {} THEN {j} ELSE {})
        BY <1>5 DEF Publish
    <2>3. Pending \subseteq Running
        BY <1>2 DEF Pending, Running, Active
    <2>4. Pending' \subseteq Pending \cup (IF hasServer THEN {} ELSE {j})
        BY <1>1, <1>2, <2>1 DEF Pending
    <2>5. CASE Running = {}
        <3>1. Pending = {} /\ Cardinality(Pending) = 0
            BY <2>3, <2>5, FS_EmptySet
        <3>2. Disturbed' = Disturbed
            BY <1>1, <2>1, <2>2, <2>5 DEF Disturbed
        <3>3. CASE hasServer
            <4>1. Pending' = {} /\ Cardinality(Pending') = 0
                BY <2>4, <3>1, <3>3, FS_EmptySet
            <4> QED
                BY <1>1, <2>1, <3>1, <3>2, <3>3, <4>1, CountsFinite DEF ServersCounted
        <3>4. CASE ~hasServer
            <4>1. Cardinality(Pending') <= 1
                <5>1. IsFiniteSet({j}) /\ Cardinality({j}) = 1
                    BY FS_Singleton
                <5>2. Pending' \in SUBSET {j}
                    BY <2>4, <3>1, <3>4
                <5> QED
                    BY <5>1, <5>2, FS_Subset
            <4> QED
                BY <1>1, <2>1, <1>3, <3>4, <4>1 DEF ServersCounted
        <3> QED
            BY <3>3, <3>4
    <2>6. CASE Running # {}
        <3>1. /\ Disturbed \cup {j} \subseteq Disturbed' /\ j \notin Disturbed
              /\ j \notin Pending
            BY <1>1, <2>1, <2>2, <2>6 DEF Disturbed, Pending, Typed, Future
        <3>2. Cardinality(Disturbed') >= Cardinality(Disturbed) + 1
            <4>1. Cardinality(Disturbed \cup {j}) = Cardinality(Disturbed) + 1
                BY <3>1, CountsFinite, FS_AddElement
            <4> QED
                BY <1>3, <3>1, <4>1, CountsFinite, FS_Subset
        <3>3. CASE hasServer
            <4>1. Cardinality(Pending') <= Cardinality(Pending)
                BY <2>4, <3>3, CountsFinite, FS_Subset
            <4> QED
                BY <1>1, <2>1, <1>3, <3>2, <3>3, <4>1, CountsFinite DEF ServersCounted
        <3>4. CASE ~hasServer
            <4>1. servers' = 0 /\ servers = 0
                BY <2>1, <3>4 DEF ServersCounted
            <4>2. Cardinality(Pending') <= Cardinality(Pending) + 1
                <5>1. Cardinality(Pending \cup {j}) = Cardinality(Pending) + 1
                    BY <3>1, CountsFinite, FS_AddElement
                <5>2. IsFiniteSet(Pending \cup {j})
                    BY CountsFinite, FS_AddElement
                <5> QED
                    BY <2>4, <3>4, <5>1, <5>2, FS_Subset
            <4>3. CASE Pending = {}
                BY <1>3, <4>1, <4>2, <4>3, FS_EmptySet DEF ServersCounted
            <4>4. CASE servers + Cardinality(Pending) <= Cardinality(Disturbed)
                BY <1>3, <3>2, <4>1, <4>2, <4>4, CountsFinite DEF ServersCounted
            <4>5. CASE Pending # {} /\ servers + Cardinality(Pending) <= 1
                <5>1. PICK k \in Pending : TRUE
                    BY <4>5
                <5>2. k \in 1 .. started
                    BY <1>1, <5>1 DEF Typed, Future, Pending, Jobs
                <5>3. {k, j} \subseteq Disturbed' /\ k # j
                    BY <1>1, <2>1, <2>2, <2>3, <2>6, <3>1, <5>1, <5>2 DEF Disturbed
                <5>4. Cardinality({k, j}) = 2
                    <6>1. IsFiniteSet({k}) /\ Cardinality({k}) = 1
                        BY FS_Singleton
                    <6>2. Cardinality({k} \cup {j}) = 2
                        BY <5>3, <6>1, FS_AddElement
                    <6> QED
                        BY <6>2
                <5>5. Cardinality(Disturbed') >= 2
                    BY <1>3, <5>3, <5>4, FS_Subset
                <5> QED
                    BY <1>3, <4>1, <4>2, <4>5, <5>5, CountsFinite DEF ServersCounted
            <4> QED
                BY <4>3, <4>4, <4>5 DEF ServersCounted
        <3> QED
            BY <3>3, <3>4
    <2> QED
        BY <2>5, <2>6
<1>6. ASSUME NEW j \in Jobs, NewServer(j) PROVE ServersCounted'
    <2>1. pc[j] = "listen" /\ calls' = calls
        BY <1>6 DEF NewServer
    <2>2. CASE Return(j, "failed") /\ UNCHANGED <<hasServer, servers>>
        <3>1. Pending' \subseteq Pending
            BY <1>1, <1>2, <2>2 DEF Return, Goto, Ticker, Pending
        <3> QED
            BY <1>4, <2>1, <2>2, <3>1
    <2>3. CASE /\ hasServer' = TRUE /\ servers' = servers + 1
               /\ Goto(j, "snapshot")
        <3>1. j \in Pending /\ Pending' \subseteq Pending \ {j}
            BY <1>1, <1>2, <2>1, <2>3 DEF Goto, Pending
        <3>2. IsFiniteSet(Pending \ {j}) /\ Cardinality(Pending \ {j}) = Cardinality(Pending) - 1
            BY <3>1, CountsFinite, FS_RemoveElement
        <3>3. Cardinality(Pending') <= Cardinality(Pending) - 1
            BY <3>1, <3>2, FS_Subset
        <3>4. Disturbed' = Disturbed
            BY <2>1 DEF calls, Disturbed
        <3> QED
            BY <1>1, <1>3, <2>3, <3>3, <3>4, CountsFinite DEF ServersCounted
    <2> QED
        BY <1>6, <2>2, <2>3 DEF NewServer
<1>7. ASSUME NEW j \in Jobs, EnsureServer(j) PROVE ServersCounted'
    <2>1. Pending' \subseteq Pending
        BY <1>1, <1>2, <1>7 DEF EnsureServer, Goto, Pending
    <2> QED
        BY <1>4, <1>7, <2>1 DEF EnsureServer
<1>8. ASSUME NEW t \in Threads, Reconcile(t) PROVE ServersCounted'
    <2>1. PICK x \in {"clear", "resolve", "check", "update", "idle", "ok", "failed"} :
             pc' = [pc EXCEPT ![t] = x]
        BY <1>8 DEF Reconcile, Snapshot, Clear, Resolve, ResolveFails, Check, Update,
                    Return, Goto
    <2>2. UNCHANGED <<hasServer, servers, calls>>
        BY <1>8 DEF Reconcile, Snapshot, Clear, Resolve, ResolveFails, Check, Update
    <2>3. Pending' \subseteq Pending
        BY <1>1, <1>2, <2>1, <2>2 DEF Pending
    <2> QED
        BY <1>4, <2>2, <2>3
<1>9. CASE Tick
    <2>1. Pending' \subseteq Pending
        BY <1>1, <1>2, <1>9 DEF Tick, Goto, Pending
    <2> QED
        BY <1>4, <1>9, <2>1 DEF Tick
<1>10. CASE ChangeAddress \/ UNCHANGED vars
    <2>1. Pending' = Pending
        BY <1>10 DEF ChangeAddress, vars, Pending
    <2> QED
        BY <1>4, <1>10, <2>1 DEF ChangeAddress, vars
<1> QED
    BY <1>5, <1>6, <1>7, <1>8, <1>9, <1>10 DEF Next

\* ensureServer reads p.server without the lock, but only calls that meet each
\* other can start more than one server, and no more than they are.
THEOREM OnlyMeetingCallsStartServers == Spec => []OneServer
<1> DEFINE IInv == Typed /\ ServersCounted
<1>1. Init => IInv
    <2> SUFFICES ASSUME Init PROVE ServersCounted
        BY InitTyped
    <2>1. Pending = {} /\ Cardinality(Pending) = 0
        BY FS_EmptySet DEF Init, Pending, Jobs, Threads
    <2> QED
        BY <2>1 DEF Init, ServersCounted
<1>2. IInv /\ [Next]_vars => IInv'
    BY TypedInductive, CountedInductive
<1>3. IInv => OneServer
    <2> SUFFICES ASSUME Typed, ServersCounted PROVE OneServer
        OBVIOUS
    <2>1. servers \in Nat
        BY DEF Typed, TypeOK
    <2> QED
        BY <2>1, CountsFinite DEF ServersCounted, OneServer, Disturbed
<1> QED
    BY <1>1, <1>2, <1>3, PTL DEF Spec

-----------------------------------------------------------------------------
(* Answers.                                                                *)

\* An undisturbed call has met no other call.
Undisturbed ==
    \A j \in undisturbed : pc[j] \in Active =>
        \A k \in Jobs \ {j} : pc[k] \notin Active

\* While an undisturbed call runs, the names that it stored are those that it
\* and a tick read and write back.
NamesKept ==
    \A j \in undisturbed : pc[j] \in Active =>
        /\ desiredNames \cap LocalNames = asked[j] \cap LocalNames
        /\ \A t \in {j, Ticker} :
              /\ pc[t] = "clear" => asked[j] \cap LocalNames = {}
              /\ pc[t] \in {"resolve", "check", "update"} =>
                     localNames[t] = asked[j] \cap LocalNames

\* A call has a server before it reconciles.
Served ==
    \A j \in Jobs :
        pc[j] \in {"snapshot", "clear", "resolve", "check", "update"} => hasServer

Answering == Typed /\ Undisturbed /\ NamesKept /\ Served

LEMMA ServedInductive ==
    ASSUME Typed, Served, [Next]_vars
    PROVE  Served'
<1>1. /\ pc \in [Threads -> Active \cup {"idle", "ok", "failed"}]
      /\ Jobs \subseteq Threads /\ Ticker \notin Jobs
    BY BoundsAssumption DEF Typed, TypeOK, Jobs, Threads, Ticker
<1>2. ASSUME NEW t \in Threads, NEW x, pc' = [pc EXCEPT ![t] = x],
             \/ x \notin {"snapshot", "clear", "resolve", "check", "update"}
             \/ hasServer'
             \/ pc[t] \in {"snapshot", "clear", "resolve", "check", "update"}
             \/ t = Ticker,
             hasServer => hasServer'
      PROVE  Served'
    BY <1>1, <1>2 DEF Served
<1>3. ASSUME NEW names \in NameSets, Publish(names) PROVE Served'
    <2>1. /\ pc' = [pc EXCEPT ![started + 1] = "server"] /\ hasServer' = hasServer
          /\ started + 1 \in Threads
        BY <1>3, BoundsAssumption
        DEF Publish, Goto, Jobs, Threads, Typed, TypeOK
    <2> QED
        BY <1>2, <2>1
<1>4. ASSUME NEW j \in Jobs, EnsureServer(j) PROVE Served'
    BY <1>1, <1>2, <1>4 DEF EnsureServer, Goto
<1>5. ASSUME NEW j \in Jobs, NewServer(j) PROVE Served'
    BY <1>1, <1>2, <1>5 DEF NewServer, Return, Goto
<1>6. ASSUME NEW t \in Threads, Reconcile(t) PROVE Served'
    BY <1>2, <1>6 DEF Reconcile, Snapshot, Clear, Resolve, ResolveFails, Check,
                      Update, Return, Goto
<1>7. CASE Tick
    BY <1>2, <1>7 DEF Tick, Goto, Threads
<1>8. CASE ChangeAddress \/ UNCHANGED vars
    BY <1>8 DEF ChangeAddress, vars, Served
<1> QED
    BY <1>3, <1>4, <1>5, <1>6, <1>7, <1>8 DEF Next

LEMMA UndisturbedInductive ==
    ASSUME Typed, Undisturbed, [Next]_vars
    PROVE  Undisturbed'
<1>1. /\ pc \in [Threads -> Active \cup {"idle", "ok", "failed"}]
      /\ started \in 0 .. MaxJobs /\ undisturbed \subseteq 1 .. started
    BY DEF Typed, TypeOK
<1>2. Jobs \subseteq Threads /\ Ticker \notin Jobs /\ undisturbed \subseteq Jobs
    BY <1>1, BoundsAssumption DEF Jobs, Threads, Ticker
<1>3. ASSUME undisturbed' = undisturbed,
             \A j \in Jobs : pc'[j] \in Active => pc[j] \in Active
      PROVE  Undisturbed'
    BY <1>2, <1>3 DEF Undisturbed
<1>4. ASSUME NEW names \in NameSets, Publish(names) PROVE Undisturbed'
    <2> DEFINE j == started + 1
    <2>1. /\ pc' = [pc EXCEPT ![j] = "server"]
          /\ undisturbed' = (undisturbed \ Running) \cup (IF Running = {} THEN {j} ELSE {})
        BY <1>4 DEF Publish, Goto
    <2>2. \A k \in Jobs \ {j} : pc'[k] \in Active => k \in Running
        BY <1>1, <1>2, <2>1 DEF Running
    <2>3. ASSUME NEW i \in undisturbed', pc'[i] \in Active PROVE i = j /\ Running = {}
        <3>1. CASE i \in undisturbed \ Running
            <4>1. i \in Jobs \ {j}
                BY <1>1, <1>2, <3>1
            <4> QED
                BY <2>2, <2>3, <3>1, <4>1
        <3> QED
            BY <2>1, <2>3, <3>1
    <2> QED
        BY <2>2, <2>3 DEF Undisturbed
<1>5. ASSUME NEW j \in Jobs, EnsureServer(j) \/ NewServer(j) PROVE Undisturbed'
    <2>1. /\ undisturbed' = undisturbed /\ pc[j] \in Active
          /\ \A k \in Jobs \ {j} : pc'[k] = pc[k]
        BY <1>1, <1>2, <1>5 DEF EnsureServer, NewServer, Return, Goto, calls, Active
    <2> QED
        BY <1>3, <2>1
<1>6. ASSUME NEW t \in Threads, Reconcile(t) PROVE Undisturbed'
    <2>1. /\ undisturbed' = undisturbed /\ pc[t] \in Active
          /\ \A k \in Jobs \ {t} : pc'[k] = pc[k]
        BY <1>1, <1>2, <1>6
        DEF Reconcile, Snapshot, Clear, Resolve, ResolveFails, Check, Update,
            Return, Goto, calls, Active
    <2> QED
        BY <1>3, <2>1
<1>7. CASE Tick
    BY <1>1, <1>2, <1>3, <1>7 DEF Tick, Goto, calls
<1> QED
    BY <1>3, <1>4, <1>5, <1>6, <1>7 DEF Next, ChangeAddress, vars, calls

LEMMA KeptInductive ==
    ASSUME Typed, Undisturbed, NamesKept, [Next]_vars
    PROVE  NamesKept'
<1>1. /\ pc \in [Threads -> Active \cup {"idle", "ok", "failed"}]
      /\ started \in 0 .. MaxJobs /\ undisturbed \subseteq 1 .. started
      /\ localNames \in [Threads -> SUBSET LocalNames]
      /\ asked \in [Jobs -> SUBSET Names]
    BY DEF Typed, TypeOK
<1>2. /\ Jobs \subseteq Threads /\ Ticker \notin Jobs /\ Ticker \in Threads
      /\ undisturbed \subseteq Jobs
    BY <1>1, BoundsAssumption DEF Jobs, Threads, Ticker
<1>3. ASSUME UNCHANGED <<desiredNames, calls, localNames>>,
             \A t \in Threads : \/ pc'[t] = pc[t]
                               \/ /\ pc'[t] \notin {"clear", "resolve", "check", "update"}
                                  /\ t = Ticker \/ pc[t] \in Active
      PROVE  NamesKept'
    BY <1>2, <1>3 DEF NamesKept, calls
<1>4. ASSUME NEW names \in NameSets, Publish(names) PROVE NamesKept'
    <2> DEFINE j == started + 1
    <2>1. /\ pc' = [pc EXCEPT ![j] = "server"] /\ j \in Jobs
          /\ asked' = [asked EXCEPT ![j] = names] /\ desiredNames' = names
          /\ undisturbed' = (undisturbed \ Running) \cup (IF Running = {} THEN {j} ELSE {})
        BY <1>1, <1>4, BoundsAssumption DEF Publish, Goto, Jobs
    <2>2. ASSUME NEW k \in undisturbed', pc'[k] \in Active
          PROVE  k = j /\ Running = {}
        BY <1>1, <1>2, <2>1, <2>2 DEF Running
    <2>3. ASSUME Running = {} PROVE pc'[Ticker] \notin Active /\ pc'[j] = "server"
        BY <1>1, <1>2, <2>1, <2>3 DEF Running
    <2>4. {"clear", "resolve", "check", "update"} \subseteq Active
        BY DEF Active
    <2>5. asked'[j] = names
        BY <1>1, <2>1
    <2> QED
        BY <2>1, <2>2, <2>3, <2>4, <2>5 DEF NamesKept
<1>5. ASSUME NEW t \in Threads, NEW j \in undisturbed, Reconcile(t),
             pc'[j] \in Active
      PROVE  /\ pc[j] \in Active /\ t \in {j, Ticker}
             /\ desiredNames \cap LocalNames = asked[j] \cap LocalNames
             /\ pc[t] = "clear" => asked[j] \cap LocalNames = {}
             /\ pc[t] \in {"resolve", "check", "update"} =>
                    localNames[t] = asked[j] \cap LocalNames
    <2>1. pc[t] \in Active /\ (t # j => pc'[j] = pc[j])
        BY <1>1, <1>2, <1>5
        DEF Reconcile, Snapshot, Clear, Resolve, ResolveFails, Check, Update,
            Return, Goto, Active
    <2>2. pc[j] \in Active /\ t \in {j, Ticker}
        BY <1>2, <1>5, <2>1 DEF Undisturbed, Threads
    <2> QED
        BY <2>2 DEF NamesKept
<1>6. ASSUME NEW t \in Threads, Reconcile(t) PROVE NamesKept'
    <2>1. calls' = calls
        BY <1>6 DEF Reconcile, Snapshot, Clear, Resolve, ResolveFails, Check, Update
    <2> SUFFICES ASSUME NEW j \in undisturbed, pc'[j] \in Active
                 PROVE  /\ desiredNames' \cap LocalNames = asked[j] \cap LocalNames
                        /\ \A w \in {j, Ticker} :
                              /\ pc'[w] = "clear" => asked[j] \cap LocalNames = {}
                              /\ pc'[w] \in {"resolve", "check", "update"} =>
                                     localNames'[w] = asked[j] \cap LocalNames
        BY <2>1 DEF NamesKept, calls
    <2>2. /\ pc[j] \in Active /\ t \in {j, Ticker} /\ j \in Threads
          /\ desiredNames \cap LocalNames = asked[j] \cap LocalNames
          /\ pc[t] = "clear" => asked[j] \cap LocalNames = {}
          /\ pc[t] \in {"resolve", "check", "update"} =>
                 localNames[t] = asked[j] \cap LocalNames
        BY <1>2, <1>5, <1>6
    <2>3. ASSUME NEW w \in {j, Ticker}, w # t
          PROVE  /\ pc'[w] = "clear" => asked[j] \cap LocalNames = {}
                 /\ pc'[w] \in {"resolve", "check", "update"} =>
                        localNames'[w] = asked[j] \cap LocalNames
        <3>1. pc'[w] = pc[w] /\ localNames'[w] = localNames[w]
            BY <1>1, <1>2, <1>6, <2>2, <2>3
            DEF Reconcile, Snapshot, Clear, Resolve, ResolveFails, Check, Update,
                Return, Goto
        <3> QED
            BY <2>2, <3>1 DEF NamesKept
    <2>4. CASE Snapshot(t)
        <3>1. /\ localNames' = [localNames EXCEPT ![t] = desiredNames \cap LocalNames]
              /\ desiredNames' = desiredNames
              /\ pc' = [pc EXCEPT ![t] = IF desiredNames \cap LocalNames = {}
                                         THEN "clear" ELSE "resolve"]
            BY <2>4 DEF Snapshot, Goto, responder
        <3>2. localNames'[t] = asked[j] \cap LocalNames
            BY <1>1, <2>2, <3>1
        <3>3. pc'[t] = "clear" => asked[j] \cap LocalNames = {}
            BY <1>1, <2>2, <3>1
        <3> QED
            BY <2>2, <2>3, <3>1, <3>2, <3>3
    <2>5. CASE Clear(t) \/ ResolveFails(t) \/ Update(t)
        <3>1. pc'[t] \in {"idle", "ok", "failed"}
            BY <1>1, <2>5 DEF Clear, ResolveFails, Update, Return, Goto
        <3>2. desiredNames' \cap LocalNames = asked[j] \cap LocalNames
            BY <1>1, <2>2, <2>5 DEF Clear, ResolveFails, Update, responder
        <3> QED
            BY <2>3, <3>1, <3>2
    <2>6. CASE Resolve(t)
        BY <1>1, <2>2, <2>3, <2>6 DEF Resolve, Goto, responder
    <2>7. CASE Check(t)
        <3>1. desiredNames' = desiredNames /\ pc[t] = "check"
            BY <2>7 DEF Check
        <3>2. pc'[t] # "clear" /\ (pc'[t] = "update" => localNames' = localNames)
              /\ pc'[t] \in {"update", "idle", "ok"}
            BY <1>1, <2>7 DEF Check, Return, Goto
        <3> QED
            BY <2>2, <2>3, <3>1, <3>2
    <2> QED
        BY <1>6, <2>4, <2>5, <2>6, <2>7 DEF Reconcile
<1>7. CASE Tick
    <2>1. /\ pc' = [pc EXCEPT ![Ticker] = "snapshot"]
          /\ UNCHANGED <<desiredNames, calls, localNames>>
        BY <1>7 DEF Tick, Goto, responder
    <2> QED
        BY <1>1, <1>2, <1>3, <2>1
<1>8. ASSUME NEW j \in Jobs, EnsureServer(j) \/ NewServer(j) PROVE NamesKept'
    <2>1. /\ UNCHANGED <<desiredNames, calls>> /\ pc[j] \in Active
          /\ pc'[j] \in {"snapshot", "listen", "failed"}
          /\ \A t \in Threads \ {j} : pc'[t] = pc[t] /\ localNames'[t] = localNames[t]
        BY <1>1, <1>2, <1>8
        DEF EnsureServer, NewServer, Return, Goto, responder, Active
    <2> QED
        BY <1>2, <2>1 DEF NamesKept, calls
<1>9. CASE ChangeAddress \/ UNCHANGED vars
    BY <1>3, <1>9 DEF ChangeAddress, vars, responder
<1> QED
    BY <1>4, <1>6, <1>7, <1>8, <1>9 DEF Next

LEMMA AnsweringInductive == Answering /\ [Next]_vars => Answering'
BY TypedInductive, UndisturbedInductive, KeptInductive, ServedInductive
DEF Answering

\* A call that met no other and succeeds makes the responder answer for its
\* names, also when a tick has written them back, or the hash says that they
\* were published before.
THEOREM SuccessfulCallsAnswer == Spec => SuccessAnswers
<1> DEFINE Answered == \A j \in undisturbed :
               pc[j] \in Active /\ pc'[j] = "ok"
                   => AnsweredNames' = asked[j] \cap LocalNames
<1>1. Init => Answering
    BY InitTyped DEF Init, Answering, Undisturbed, NamesKept, Served, Jobs, Threads
<1>2. Answering /\ [Next]_vars => [Answered]_vars
    <2> SUFFICES ASSUME Answering, [Next]_vars,
                        NEW j \in undisturbed, pc[j] \in Active, pc'[j] = "ok"
                 PROVE  AnsweredNames' = asked[j] \cap LocalNames
        OBVIOUS
    <2>1. /\ pc \in [Threads -> Active \cup {"idle", "ok", "failed"}]
          /\ localNames \in [Threads -> SUBSET LocalNames]
          /\ j \in Jobs /\ j \in Threads /\ j # Ticker
        BY BoundsAssumption DEF Answering, Typed, TypeOK, Jobs, Threads, Ticker
    <2>2. /\ desiredNames \cap LocalNames = asked[j] \cap LocalNames
          /\ pc[j] = "clear" => asked[j] \cap LocalNames = {}
          /\ pc[j] \in {"check", "update"} => localNames[j] = asked[j] \cap LocalNames
        BY DEF Answering, NamesKept
    <2>3. pc[j] \in {"check", "update"} => ips[j] # {}
        BY <2>1, AddressesAssumption DEF Answering, Typed, LookedUp
    <2>4. ASSUME Clear(j) \/ Update(j) \/ Check(j) PROVE hasServer'
        BY <2>1, <2>4 DEF Clear, Update, Check, Answering, Served
    <2>5. CASE Clear(j)
        BY <2>2, <2>4, <2>5 DEF Clear, AnsweredNames
    <2>6. CASE Update(j)
        BY <2>1, <2>2, <2>3, <2>4, <2>6 DEF Update, AnsweredNames
    <2>7. CASE Check(j)
        <3>1. pc[j] = "check" /\ desiredNames' = desiredNames
            BY <2>7 DEF Check
        <3>2. ips[j] = lastIPs /\ lastIPs' = lastIPs
            BY <2>1, <2>7 DEF Check, Goto
        <3> QED
            BY <2>2, <2>3, <2>4, <2>7, <3>1, <3>2 DEF AnsweredNames
    <2>8. Clear(j) \/ Update(j) \/ Check(j)
        <3>1. ASSUME NEW t \in Threads, NEW x, pc' = [pc EXCEPT ![t] = x], x # "ok"
              PROVE  FALSE
            BY <2>1, <3>1 DEF Active
        <3>2. pc' # pc
            BY DEF Active
        <3>3. ASSUME NEW t \in Threads \ {j}, NEW x, pc' = [pc EXCEPT ![t] = x]
              PROVE  FALSE
            BY <2>1, <3>3 DEF Active
        <3>4. ASSUME NEW names \in NameSets PROVE ~Publish(names)
            <4>1. started + 1 \in Jobs \/ ~Publish(names)
                BY BoundsAssumption DEF Publish, Jobs, Answering, Typed, TypeOK
            <4> QED
                BY <3>1, <4>1 DEF Publish, Goto, Jobs, Threads
        <3>5. ~Tick /\ ~ChangeAddress
            BY <3>1, <3>2 DEF Tick, ChangeAddress, Goto, Threads
        <3>6. ASSUME NEW k \in Jobs PROVE ~EnsureServer(k) /\ ~NewServer(k)
            BY <3>1 DEF EnsureServer, NewServer, Return, Goto, Ticker, Jobs, Threads
        <3>7. ASSUME NEW t \in Threads PROVE ~Snapshot(t) /\ ~Resolve(t) /\ ~ResolveFails(t)
            BY <3>1 DEF Snapshot, Resolve, ResolveFails, Return, Goto
        <3>8. ASSUME NEW t \in Threads \ {j} PROVE ~Clear(t) /\ ~Check(t) /\ ~Update(t)
            BY <3>3 DEF Clear, Check, Update, Return, Goto
        <3> QED
            BY <3>2, <3>4, <3>5, <3>6, <3>7, <3>8 DEF Next, Reconcile, vars
    <2> QED
        BY <2>5, <2>6, <2>7, <2>8
<1> QED
    BY <1>1, <1>2, AnsweringInductive, PTL DEF Spec, SuccessAnswers
=============================================================================
