---------------------------- MODULE LoaderProofs ----------------------------
(***************************************************************************)
(* Proofs about Loader for every set of servers, every finite set of       *)
(* updates and every OverlapPhases, so for every schedule; for schedules   *)
(* without overlap, what the barrier at the end of update() and the marks  *)
(* of serversUpdating give together; and the loader together with the      *)
(* manager of name publication.                                            *)
(***************************************************************************)
EXTENDS Publication, FiniteSetTheorems, TLAPS

\* An update that has scanned Docker holds a Caddyfile.
Scanned ==
    \A u \in Updates :
        pc[u] \notin {"idle", "generate"} => caddyfile[u] \in Caddyfiles

LEMMA ScannedInductive == TypeOK /\ Scanned /\ [Next]_vars => Scanned'
<1> SUFFICES ASSUME TypeOK, Scanned, [Next]_vars PROVE Scanned'
    OBVIOUS
<1>1. /\ pc \in [Updates -> Phases] /\ desired \in Caddyfiles
      /\ caddyfile \in [Updates -> Caddyfiles \cup {Nothing}]
    BY DEF TypeOK
<1>2. ASSUME NEW u \in Updates, Fire(u) \/ Generate(u) PROVE Scanned'
    BY <1>1, <1>2 DEF Fire, Generate, Goto, locals, Scanned
<1>3. ASSUME NEW u \in Updates, AdaptFails(u) \/ Wait(u) PROVE Scanned'
    BY <1>1, <1>3 DEF AdaptFails, Wait, Leave, Goto, Scanned
<1>4. ASSUME NEW u \in Updates, pc[u] \notin {"idle", "generate"},
             NEW x, pc' = [pc EXCEPT ![u] = x], caddyfile' = caddyfile
      PROVE  Scanned'
    BY <1>1, <1>4 DEF Scanned
<1>5. CASE UNCHANGED <<pc, caddyfile>>
    BY <1>5 DEF Scanned
<1>6. ASSUME NEW u \in Updates, Fire(u) \/ Run(u) PROVE Scanned'
    BY <1>6, <1>2, <1>3, <1>4
    DEF Run, Compare, Remember, AdaptSucceeds, LoadVersion, IncrementVersion,
        Spawn, Goto, locals
<1>7. ASSUME NEW p \in Pushes, Push(p) PROVE Scanned'
    BY <1>7, <1>5
    DEF Push, Deliver, CheckUpdating, SetUpdating, ReadVersion, CompareVersion,
        ReadConfig, Apply, SendFails, ReplyLost, RecordVersion, MaybePublish,
        ClearUpdating, locals
<1> QED
    BY <1>5, <1>6, <1>7 DEF Next, Environment, ChangeDocker, Delay, Restart, vars, locals

LEMMA TypeStep == TypeOK /\ Scanned /\ [Next]_vars => TypeOK'
<1> SUFFICES ASSUME TypeOK, Scanned, [Next]_vars PROVE TypeOK'
    OBVIOUS
<1> USE AdaptAssumption
    DEF TypeOK, docker, hosts, shared, maps, locals, pushing
<1>1. ASSUME NEW u \in Updates, Fire(u) PROVE TypeOK'
    BY <1>1 DEF Fire, Goto, Phases
<1>2. ASSUME NEW u \in Updates, Generate(u) PROVE TypeOK'
    BY <1>2 DEF Generate, Goto, Phases
<1>3. ASSUME NEW u \in Updates, Compare(u) PROVE TypeOK'
    BY <1>3 DEF Compare, Goto, Phases
<1>4. ASSUME NEW u \in Updates, Remember(u) PROVE TypeOK'
    BY <1>4 DEF Remember, Goto, Phases
<1>5. ASSUME NEW u \in Updates, AdaptFails(u) PROVE TypeOK'
    BY <1>5 DEF AdaptFails, Goto, Phases, Leave
<1>6. ASSUME NEW u \in Updates, AdaptSucceeds(u) PROVE TypeOK'
    <2>1. lastJSONConfig' \in Numbered /\ commits' \in Nat
        <3>1. caddyfile[u] \in Caddyfiles
            BY <1>6 DEF AdaptSucceeds, Scanned
        <3>2. Adapt[caddyfile[u]] \in Configs
            BY <1>6, <3>1 DEF AdaptSucceeds
        <3> QED
            BY <1>6, <3>2 DEF AdaptSucceeds, Numbered
    <2>2. pc' \in [Updates -> Phases]
        BY <1>6 DEF AdaptSucceeds, Goto, Phases
    <2> QED
        BY <1>6, <2>1, <2>2 DEF AdaptSucceeds
<1>7. ASSUME NEW u \in Updates, LoadVersion(u) PROVE TypeOK'
    BY <1>7 DEF LoadVersion, Goto, Phases
<1>8. ASSUME NEW u \in Updates, IncrementVersion(u) PROVE TypeOK'
    BY <1>8 DEF IncrementVersion, Goto, Phases
<1>9. ASSUME NEW u \in Updates, Spawn(u) PROVE TypeOK'
    BY <1>9 DEF Spawn, Goto, Phases, Steps
<1>10. ASSUME NEW u \in Updates, Wait(u) PROVE TypeOK'
    BY <1>10 DEF Wait, Goto, Phases, Leave
<1>11. ASSUME NEW p \in Pushes, CheckUpdating(p) PROVE TypeOK'
    BY <1>11 DEF CheckUpdating, GotoStep, Steps, FlaggedSteps
<1>12. ASSUME NEW p \in Pushes, SetUpdating(p) PROVE TypeOK'
    BY <1>12 DEF SetUpdating, GotoStep, Steps, FlaggedSteps
<1>13. ASSUME NEW p \in Pushes, ReadVersion(p) PROVE TypeOK'
    BY <1>13 DEF ReadVersion, GotoStep, Steps, FlaggedSteps
<1>14. ASSUME NEW p \in Pushes, CompareVersion(p) PROVE TypeOK'
    BY <1>14 DEF CompareVersion, GotoStep, Steps, FlaggedSteps
<1>15. ASSUME NEW p \in Pushes, ReadConfig(p) PROVE TypeOK'
    BY <1>15 DEF ReadConfig, GotoStep, Steps, FlaggedSteps
<1>16. ASSUME NEW p \in Pushes, Apply(p) PROVE TypeOK'
    BY <1>16 DEF Apply, GotoStep, Steps, FlaggedSteps
<1>17. ASSUME NEW p \in Pushes, SendFails(p) PROVE TypeOK'
    BY <1>17 DEF SendFails, GotoStep, Steps, FlaggedSteps
<1>18. ASSUME NEW p \in Pushes, ReplyLost(p) PROVE TypeOK'
    BY <1>18 DEF ReplyLost, GotoStep, Steps, FlaggedSteps
<1>19. ASSUME NEW p \in Pushes, RecordVersion(p) PROVE TypeOK'
    BY <1>19 DEF RecordVersion, GotoStep, Steps, FlaggedSteps
<1>20. ASSUME NEW p \in Pushes, MaybePublish(p) PROVE TypeOK'
    BY <1>20 DEF MaybePublish, GotoStep, Steps, FlaggedSteps
<1>21. ASSUME NEW p \in Pushes, ClearUpdating(p) PROVE TypeOK'
    BY <1>21 DEF ClearUpdating, Steps, FlaggedSteps, Numbered, NoConfig
<1>22. CASE ChangeDocker
    BY <1>22 DEF ChangeDocker
<1>23. ASSUME NEW s \in Servers, Restart(s) PROVE TypeOK'
    BY <1>23 DEF Restart, Numbered, NoConfig
<1>24. ASSUME NEW p \in Pushes, Delay(p) PROVE TypeOK'
    BY <1>24 DEF Delay
<1>25. CASE UNCHANGED vars
    BY <1>25 DEF vars
<1> QED
    BY <1>1, <1>2, <1>3, <1>4, <1>5, <1>6, <1>7, <1>8, <1>9, <1>10,
       <1>11, <1>12, <1>13, <1>14, <1>15, <1>16, <1>17, <1>18, <1>19, <1>20,
       <1>21, <1>22, <1>23, <1>24, <1>25
    DEF Next, Run, Push, Deliver, Environment

LEMMA InitType == Init => TypeOK
<1> SUFFICES ASSUME Init PROVE TypeOK
    OBVIOUS
<1> USE DEF Init, NoConfig, Numbered
<1>1. /\ desired \in Caddyfiles /\ changes \in Nat /\ restarts \in Nat
      /\ lastCaddyfile \in Caddyfiles \cup {Nothing}
      /\ lastVersion \in Nat /\ commits \in Nat /\ late \subseteq Pushes
    OBVIOUS
<1>2. /\ running \in [Servers -> Numbered] /\ lastJSONConfig \in Numbered
      /\ postBody \in [Pushes -> Numbered]
    OBVIOUS
<1>3. /\ serversVersions \in [Servers -> Nat]
      /\ serversUpdating \in [Servers -> BOOLEAN]
      /\ handed \in [version : Nat, caddyfile : Caddyfiles \cup {Nothing}]
    OBVIOUS
<1>4. /\ pc \in [Updates -> Phases]
      /\ caddyfile \in [Updates -> Caddyfiles \cup {Nothing}]
      /\ controlledServers \in [Updates -> ControlledLists \cup {<<>>}]
      /\ caddyfileChanged \in [Updates -> BOOLEAN]
      /\ loaded \in [Updates -> Nat]
    BY DEF Phases
<1>5. step \in [Pushes -> Steps] /\ version \in [Pushes -> Nat]
    BY DEF Steps
<1> QED
    BY <1>1, <1>2, <1>3, <1>4, <1>5 DEF TypeOK

\* Types and Scanned together are inductive.
Typed == TypeOK /\ Scanned

LEMMA InitTyped == Init => Typed
BY InitType DEF Init, Scanned, Typed

LEMMA TypedInductive == Typed /\ [Next]_vars => Typed'
BY TypeStep, ScannedInductive DEF Typed

\* Every variable keeps its type, under every schedule.
THEOREM TypeCorrect == Spec => []TypeOK
<1>1. Typed => TypeOK
    BY DEF Typed
<1> QED
    BY <1>1, InitTyped, TypedInductive, PTL DEF Spec

-----------------------------------------------------------------------------
(* serversUpdating: the mark of a server always has an owner.              *)

\* updateServer() goroutines run only while their update waits for them.
PushesAwaited ==
    \A p \in Pushes : step[p] # "none" => pc[p[1]] = "wait"

LEMMA AwaitedInductive ==
    TypeOK /\ PushesAwaited /\ [Next]_vars => PushesAwaited'
<1> SUFFICES ASSUME TypeOK, PushesAwaited, [Next]_vars PROVE PushesAwaited'
    OBVIOUS
<1>1. pc \in [Updates -> Phases] /\ step \in [Pushes -> Steps]
    BY DEF TypeOK
<1>2. ASSUME NEW u \in Updates, pc[u] # "wait", NEW x, pc' = [pc EXCEPT ![u] = x],
             step' = step
      PROVE  PushesAwaited'
    BY <1>1, <1>2 DEF PushesAwaited, Pushes
<1>3. ASSUME NEW u \in Updates, Spawn(u) PROVE PushesAwaited'
    BY <1>1, <1>3 DEF Spawn, Goto, PushesAwaited, Pushes
<1>4. ASSUME NEW u \in Updates, Wait(u) PROVE PushesAwaited'
    BY <1>1, <1>4 DEF Wait, Leave, Goto, PushesAwaited, Pushes, pushing
<1>5. ASSUME NEW p \in Pushes, step[p] # "none", NEW x, step' = [step EXCEPT ![p] = x],
             pc' = pc
      PROVE  PushesAwaited'
    BY <1>1, <1>5 DEF PushesAwaited
<1>6. CASE UNCHANGED <<pc, step>>
    BY <1>6 DEF PushesAwaited
<1>7. ASSUME NEW u \in Updates, Fire(u) \/ Run(u) PROVE PushesAwaited'
    BY <1>7, <1>2, <1>3, <1>4
    DEF Run, Fire, Generate, Compare, Remember, AdaptFails, AdaptSucceeds,
        LoadVersion, IncrementVersion, Leave, Goto, pushing
<1>8. ASSUME NEW p \in Pushes, Push(p) PROVE PushesAwaited'
    BY <1>8, <1>5
    DEF Push, Deliver, CheckUpdating, SetUpdating, ReadVersion, CompareVersion,
        ReadConfig, Apply, SendFails, ReplyLost, RecordVersion, MaybePublish,
        ClearUpdating, GotoStep
<1> QED
    BY <1>6, <1>7, <1>8 DEF Next, Environment, ChangeDocker, Delay, Restart, vars, pushing

\* A step that keeps every owner keeps the property.
LEMMA OwnersKept ==
    ASSUME FlagHasOwner, serversUpdating' = serversUpdating,
           \A p \in Pushes : step[p] \in FlaggedSteps =>
               /\ step'[p] \in FlaggedSteps
               /\ controlledServers'[p[1]] = controlledServers[p[1]]
    PROVE  FlagHasOwner'
BY DEF FlagHasOwner, ServerOf

LEMMA OwnerInductive ==
    TypeOK /\ PushesAwaited /\ FlagHasOwner /\ [Next]_vars => FlagHasOwner'
<1> SUFFICES ASSUME TypeOK, PushesAwaited, FlagHasOwner, [Next]_vars
             PROVE  FlagHasOwner'
    OBVIOUS
<1>1. /\ controlledServers \in [Updates -> ControlledLists \cup {<<>>}]
      /\ step \in [Pushes -> Steps]
      /\ serversUpdating \in [Servers -> BOOLEAN]
    BY DEF TypeOK
<1>2. \A p \in Pushes : step[p] \in FlaggedSteps => pc[p[1]] = "wait"
    BY DEF PushesAwaited, FlaggedSteps
<1>3. ASSUME NEW u \in Updates, pc[u] # "wait", UNCHANGED <<serversUpdating, step>>,
             NEW l, controlledServers' = [controlledServers EXCEPT ![u] = l]
      PROVE  FlagHasOwner'
    <2>1. \A p \in Pushes : step[p] \in FlaggedSteps =>
             controlledServers'[p[1]] = controlledServers[p[1]]
        BY <1>1, <1>2, <1>3 DEF Pushes
    <2> QED
        BY <2>1, <1>3, OwnersKept
<1>4. CASE UNCHANGED <<serversUpdating, step, controlledServers>>
    BY <1>4, OwnersKept
<1>5. ASSUME NEW u \in Updates, Spawn(u) PROVE FlagHasOwner'
    <2>1. \A p \in Pushes : step[p] \in FlaggedSteps => step'[p] = step[p]
        BY <1>1, <1>2, <1>5 DEF Spawn
    <2> QED
        BY <2>1, <1>5, OwnersKept DEF Spawn, maps, locals
<1>6. ASSUME NEW u \in Updates, Wait(u) PROVE FlagHasOwner'
    <2>1. \A p \in Pushes : p[1] = u => step[p] = "none"
        BY <1>6 DEF Wait, Pushes
    <2>2. \A p \in Pushes : step[p] \in FlaggedSteps =>
             controlledServers'[p[1]] = controlledServers[p[1]]
        BY <1>1, <1>6, <2>1 DEF Wait, Leave, Pushes, FlaggedSteps
    <2> QED
        BY <2>2, <1>6, OwnersKept DEF Wait, maps, pushing
<1>7. ASSUME NEW p \in Pushes, SetUpdating(p) PROVE FlagHasOwner'
    <2>1. /\ controlledServers' = controlledServers
          /\ serversUpdating' = [serversUpdating EXCEPT ![ServerOf(p)] = TRUE]
          /\ step' = [step EXCEPT ![p] = "version"]
        BY <1>7 DEF SetUpdating, GotoStep, locals
    <2>2. step'[p] \in FlaggedSteps /\ ServerOf(p)' = ServerOf(p)
        BY <1>1, <2>1 DEF FlaggedSteps, ServerOf
    <2>3. ASSUME NEW s \in Servers, s # ServerOf(p), serversUpdating'[s]
          PROVE  \E q \in Pushes : step'[q] \in FlaggedSteps /\ ServerOf(q)' = s
        <3>1. serversUpdating[s]
            BY <1>1, <2>1, <2>3
        <3>2. PICK q \in Pushes : step[q] \in FlaggedSteps /\ ServerOf(q) = s
            BY <3>1 DEF FlagHasOwner
        <3> QED
            BY <1>1, <2>1, <2>2, <3>2 DEF ServerOf
    <2> QED
        BY <2>2, <2>3 DEF FlagHasOwner
<1>8. ASSUME NEW p \in Pushes, ClearUpdating(p) PROVE FlagHasOwner'
    <2>1. /\ controlledServers' = controlledServers
          /\ serversUpdating' = [serversUpdating EXCEPT ![ServerOf(p)] = FALSE]
          /\ step' = [step EXCEPT ![p] = "none"]
        BY <1>8 DEF ClearUpdating, locals
    <2>2. ASSUME NEW s \in Servers, serversUpdating'[s]
          PROVE  \E q \in Pushes : step'[q] \in FlaggedSteps /\ ServerOf(q)' = s
        <3>1. serversUpdating[s] /\ s # ServerOf(p)
            BY <1>1, <2>1, <2>2
        <3>2. PICK q \in Pushes : step[q] \in FlaggedSteps /\ ServerOf(q) = s
            BY <3>1 DEF FlagHasOwner
        <3> QED
            BY <1>1, <2>1, <3>1, <3>2 DEF ServerOf
    <2> QED
        BY <2>2 DEF FlagHasOwner
<1>9. ASSUME NEW p \in Pushes, NEW x, step' = [step EXCEPT ![p] = x],
             x \in FlaggedSteps \/ step[p] \notin FlaggedSteps,
             UNCHANGED <<serversUpdating, controlledServers>>
      PROVE  FlagHasOwner'
    <2>1. \A q \in Pushes : step[q] \in FlaggedSteps => step'[q] \in FlaggedSteps
        BY <1>1, <1>9
    <2> QED
        BY <2>1, <1>9, OwnersKept
<1>10. ASSUME NEW u \in Updates, Fire(u) \/ Run(u) PROVE FlagHasOwner'
    BY <1>10, <1>3, <1>4, <1>5, <1>6
    DEF Run, Fire, Generate, Compare, Remember, AdaptFails, AdaptSucceeds,
        LoadVersion, IncrementVersion, Leave, pushing, maps, locals
<1>11. ASSUME NEW p \in Pushes, Push(p) PROVE FlagHasOwner'
    <2>1. CASE CheckUpdating(p)
        BY <2>1, <1>9 DEF CheckUpdating, GotoStep, FlaggedSteps, maps, locals
    <2>2. ASSUME NEW x \in FlaggedSteps, step' = [step EXCEPT ![p] = x],
                 UNCHANGED <<serversUpdating, controlledServers>>
          PROVE  FlagHasOwner'
        BY <2>2, <1>9
    <2>3. CASE ReadVersion(p) \/ SendFails(p) \/ ReplyLost(p) \/ Apply(p)
        BY <2>3, <2>2 DEF ReadVersion, SendFails, ReplyLost, Apply, GotoStep,
                          FlaggedSteps, maps, locals
    <2>4. CASE CompareVersion(p) \/ ReadConfig(p)
        BY <2>4, <2>2 DEF CompareVersion, ReadConfig, GotoStep, FlaggedSteps,
                          maps, locals
    <2>5. CASE RecordVersion(p) \/ MaybePublish(p)
        BY <2>5, <2>2 DEF RecordVersion, MaybePublish, GotoStep, FlaggedSteps,
                          maps, locals
    <2> QED
        BY <1>11, <1>7, <1>8, <2>1, <2>3, <2>4, <2>5 DEF Push, Deliver
<1> QED
    BY <1>4, <1>10, <1>11
    DEF Next, Environment, ChangeDocker, Delay, Restart, vars, maps, locals, pushing

\* No server stays marked as being updated without a goroutine that removes
\* the mark: skipping a marked server never excludes it for good.
THEOREM FlagsHaveOwners == Spec => []FlagHasOwner
<1> DEFINE IInv == Typed /\ PushesAwaited /\ FlagHasOwner
<1>1. Init => IInv
    BY InitTyped DEF Init, PushesAwaited, FlagHasOwner
<1>2. IInv /\ [Next]_vars => IInv'
    BY TypedInductive, AwaitedInductive, OwnerInductive DEF Typed
<1>3. IInv => FlagHasOwner
    OBVIOUS
<1> QED
    BY <1>1, <1>2, <1>3, PTL DEF Spec

-----------------------------------------------------------------------------
(* Versions: lastVersion never runs ahead of the writes of lastJSONConfig. *)

\* The updates that have written lastJSONConfig and not yet lastVersion.
Pending == {u \in Updates : pc[u] \in {"load", "increment"}}

\* Every pending update leaves room for its increment, so that lastVersion++
\* of two updates may lose one but never add one.
VersionsBehind ==
    /\ lastVersion + Cardinality(Pending) <= commits
    /\ \A u \in Updates :
          pc[u] = "increment" => loaded[u] + Cardinality(Pending) <= commits

Committed ==
    /\ lastJSONConfig.commit = commits
    /\ lastJSONConfig = NoConfig \/ lastJSONConfig.config \in Configs

LEMMA PendingFinite == IsFiniteSet(Pending) /\ Cardinality(Pending) \in Nat
BY UpdatesAssumption, FS_Subset, FS_CardinalityType DEF Pending

LEMMA VersionsInductive ==
    Typed /\ VersionsBehind /\ [Next]_vars => VersionsBehind'
<1> SUFFICES ASSUME Typed, VersionsBehind, [Next]_vars PROVE VersionsBehind'
    OBVIOUS
<1>1. /\ pc \in [Updates -> Phases] /\ loaded \in [Updates -> Nat]
      /\ lastVersion \in Nat /\ commits \in Nat
    BY DEF Typed, TypeOK
<1>2. ASSUME NEW u \in Updates, AdaptSucceeds(u) PROVE VersionsBehind'
    <2>1. pc[u] = "adapt" /\ pc' = [pc EXCEPT ![u] = "load"]
          /\ commits' = commits + 1 /\ UNCHANGED <<lastVersion, loaded>>
        BY <1>2 DEF AdaptSucceeds, Goto, locals
    <2>2. u \notin Pending /\ Pending' = Pending \cup {u}
        BY <1>1, <2>1 DEF Pending
    <2>3. Cardinality(Pending') = Cardinality(Pending) + 1
        BY <2>2, PendingFinite, FS_AddElement
    <2> QED
        BY <1>1, <2>1, <2>3, PendingFinite DEF VersionsBehind
<1>3. ASSUME NEW u \in Updates, LoadVersion(u) PROVE VersionsBehind'
    <2>1. pc[u] = "load" /\ pc' = [pc EXCEPT ![u] = "increment"]
          /\ loaded' = [loaded EXCEPT ![u] = lastVersion]
          /\ UNCHANGED <<lastVersion, commits>>
        BY <1>3 DEF LoadVersion, Goto, shared
    <2>2. Pending' = Pending
        BY <1>1, <2>1 DEF Pending
    <2> QED
        BY <1>1, <2>1, <2>2, PendingFinite DEF VersionsBehind
<1>4. ASSUME NEW u \in Updates, IncrementVersion(u) PROVE VersionsBehind'
    <2>1. pc[u] = "increment" /\ pc' = [pc EXCEPT ![u] = "spawn"]
          /\ lastVersion' = loaded[u] + 1 /\ UNCHANGED <<loaded, commits>>
        BY <1>4 DEF IncrementVersion, Goto, locals
    <2>2. u \in Pending /\ Pending' = Pending \ {u}
        BY <1>1, <2>1 DEF Pending
    <2>3. Cardinality(Pending') = Cardinality(Pending) - 1
        BY <2>2, PendingFinite, FS_RemoveElement
    <2> QED
        BY <1>1, <2>1, <2>3, PendingFinite DEF VersionsBehind
<1>5. ASSUME NEW u \in Updates, pc[u] \notin {"load", "increment"},
             NEW x, x \notin {"load", "increment"}, pc' = [pc EXCEPT ![u] = x],
             UNCHANGED <<lastVersion, commits>>,
             \A w \in Updates \ {u} : loaded'[w] = loaded[w]
      PROVE  VersionsBehind'
    <2>1. Pending' = Pending
        BY <1>1, <1>5 DEF Pending
    <2>2. \A w \in Updates : pc'[w] = "increment" =>
             pc[w] = "increment" /\ loaded'[w] = loaded[w]
        BY <1>1, <1>5
    <2> QED
        BY <1>5, <2>1, <2>2 DEF VersionsBehind
<1>6. CASE UNCHANGED <<pc, lastVersion, commits, loaded>>
    BY <1>6 DEF VersionsBehind, Pending
<1>7. ASSUME NEW u \in Updates, Fire(u) \/ Run(u) PROVE VersionsBehind'
    <2>1. CASE Fire(u) \/ Generate(u) \/ Compare(u)
        BY <2>1, <1>5 DEF Fire, Generate, Compare, Goto, shared, locals
    <2>2. CASE Remember(u) \/ Spawn(u)
        BY <2>2, <1>5 DEF Remember, Spawn, Goto, shared, locals
    <2>3. CASE AdaptFails(u) \/ Wait(u)
        <3>1. \A w \in Updates \ {u} : loaded'[w] = loaded[w]
            BY <1>1, <2>3 DEF AdaptFails, Wait, Leave
        <3> QED
            BY <2>3, <3>1, <1>5 DEF AdaptFails, Wait, Leave, Goto, shared
    <2> QED
        BY <1>7, <1>2, <1>3, <1>4, <2>1, <2>2, <2>3 DEF Run
<1>8. ASSUME NEW p \in Pushes, Push(p) PROVE VersionsBehind'
    BY <1>8, <1>6
    DEF Push, Deliver, CheckUpdating, SetUpdating, ReadVersion, CompareVersion,
        ReadConfig, Apply, SendFails, ReplyLost, RecordVersion, MaybePublish,
        ClearUpdating, shared, locals
<1> QED
    BY <1>6, <1>7, <1>8 DEF Next, Environment, ChangeDocker, Delay, Restart, vars, shared, locals

LEMMA CommittedInductive ==
    Typed /\ Committed /\ [Next]_vars => Committed'
<1> SUFFICES ASSUME Typed, Committed, [Next]_vars PROVE Committed'
    OBVIOUS
<1>1. ASSUME NEW u \in Updates, AdaptSucceeds(u) PROVE Committed'
    <2>1. caddyfile[u] \in Caddyfiles
        BY <1>1 DEF AdaptSucceeds, Typed, Scanned
    <2>2. Adapt[caddyfile[u]] \in Configs
        BY <1>1, <2>1, AdaptAssumption DEF AdaptSucceeds
    <2> QED
        BY <1>1, <2>2 DEF AdaptSucceeds, Committed
<1>2. CASE UNCHANGED <<lastJSONConfig, commits>>
    BY <1>2 DEF Committed
<1>3. ASSUME NEW u \in Updates, Fire(u) \/ Run(u) PROVE Committed'
    BY <1>3, <1>1, <1>2
    DEF Run, Fire, Generate, Compare, Remember, AdaptFails, LoadVersion,
        IncrementVersion, Spawn, Wait, shared
<1>4. ASSUME NEW p \in Pushes, Push(p) PROVE Committed'
    BY <1>4, <1>2
    DEF Push, Deliver, CheckUpdating, SetUpdating, ReadVersion, CompareVersion,
        ReadConfig, Apply, SendFails, ReplyLost, RecordVersion, MaybePublish,
        ClearUpdating, shared
<1> QED
    BY <1>2, <1>3, <1>4 DEF Next, Environment, ChangeDocker, Delay, Restart, vars, shared

\* What a push has read is no newer than the writes made so far.
VersionsRead == \A p \in Pushes : version[p] <= commits

LEMMA BodyInductive ==
    /\ Typed /\ VersionsBehind /\ Committed /\ VersionsRead
    /\ BodyAsNewAsVersion /\ [Next]_vars
    => VersionsRead' /\ BodyAsNewAsVersion'
<1> SUFFICES ASSUME Typed, VersionsBehind, Committed, VersionsRead,
                    BodyAsNewAsVersion, [Next]_vars
             PROVE  VersionsRead' /\ BodyAsNewAsVersion'
    OBVIOUS
<1>1. /\ step \in [Pushes -> Steps] /\ version \in [Pushes -> Nat]
      /\ postBody \in [Pushes -> Numbered] /\ lastJSONConfig \in Numbered
      /\ lastVersion \in Nat /\ commits \in Nat
    BY DEF Typed, TypeOK
<1>2. lastVersion <= commits
    BY <1>1, PendingFinite DEF VersionsBehind
<1>3. ASSUME commits' >= commits, commits' \in Nat, UNCHANGED <<version, postBody>>,
             \A p \in Pushes : step'[p] \in {"sent", "applied"} =>
                 step[p] \in {"sent", "applied"}
      PROVE  VersionsRead' /\ BodyAsNewAsVersion'
    BY <1>1, <1>3 DEF VersionsRead, BodyAsNewAsVersion
<1>4. ASSUME NEW p \in Pushes, NEW x, step' = [step EXCEPT ![p] = x],
             x \in {"sent", "applied"} => step[p] \in {"sent", "applied"},
             UNCHANGED <<commits, version, postBody>>
      PROVE  VersionsRead' /\ BodyAsNewAsVersion'
    <2>1. \A q \in Pushes : step'[q] \in {"sent", "applied"} =>
             step[q] \in {"sent", "applied"}
        BY <1>1, <1>4
    <2> QED
        BY <1>1, <1>3, <1>4, <2>1
<1>5. ASSUME NEW p \in Pushes, ReadVersion(p) PROVE VersionsRead' /\ BodyAsNewAsVersion'
    <2>1. /\ version' = [version EXCEPT ![p] = lastVersion]
          /\ step' = [step EXCEPT ![p] = "compare"]
          /\ UNCHANGED <<commits, postBody>>
        BY <1>5 DEF ReadVersion, GotoStep, shared
    <2> QED
        BY <1>1, <1>2, <2>1 DEF VersionsRead, BodyAsNewAsVersion
<1>6. ASSUME NEW p \in Pushes, ReadConfig(p) PROVE VersionsRead' /\ BodyAsNewAsVersion'
    <2>1. /\ postBody' = [postBody EXCEPT ![p] = lastJSONConfig]
          /\ step' = [step EXCEPT ![p] = IF lastJSONConfig = NoConfig
                                         THEN "unflag" ELSE "sent"]
          /\ UNCHANGED <<commits, version>>
        BY <1>6 DEF ReadConfig, GotoStep, shared
    <2>2. VersionsRead'
        BY <2>1 DEF VersionsRead
    <2>3. step'[p] \in {"sent", "applied"} =>
             postBody'[p].commit >= version'[p] /\ postBody'[p].config \in Configs
        BY <1>1, <2>1 DEF VersionsRead, Committed
    <2>4. \A q \in Pushes \ {p} : step'[q] = step[q] /\ postBody'[q] = postBody[q]
        BY <1>1, <2>1
    <2> QED
        BY <2>1, <2>2, <2>3, <2>4 DEF BodyAsNewAsVersion
<1>7. ASSUME NEW p \in Pushes, ClearUpdating(p) PROVE VersionsRead' /\ BodyAsNewAsVersion'
    <2>1. /\ version' = [version EXCEPT ![p] = 0]
          /\ postBody' = [postBody EXCEPT ![p] = NoConfig]
          /\ step' = [step EXCEPT ![p] = "none"]
          /\ commits' = commits
        BY <1>7 DEF ClearUpdating, shared
    <2> QED
        BY <1>1, <2>1 DEF VersionsRead, BodyAsNewAsVersion
<1>8. ASSUME NEW u \in Updates, Fire(u) \/ Run(u) PROVE VersionsRead' /\ BodyAsNewAsVersion'
    <2>1. CASE Spawn(u)
        <3>1. \A q \in Pushes : step'[q] \in {"sent", "applied"} =>
                 step[q] \in {"sent", "applied"}
            BY <2>1 DEF Spawn
        <3> QED
            BY <1>1, <1>3, <2>1, <3>1 DEF Spawn, shared
    <2>2. CASE AdaptSucceeds(u)
        BY <1>1, <1>3, <2>2 DEF AdaptSucceeds, pushing
    <2> QED
        BY <1>1, <1>3, <1>8, <2>1, <2>2
        DEF Run, Fire, Generate, Compare, Remember, AdaptFails, LoadVersion,
            IncrementVersion, Wait, shared, pushing
<1>9. ASSUME NEW p \in Pushes, Push(p) PROVE VersionsRead' /\ BodyAsNewAsVersion'
    <2>1. CASE CheckUpdating(p) \/ SetUpdating(p) \/ CompareVersion(p)
        BY <1>4, <2>1 DEF CheckUpdating, SetUpdating, CompareVersion, GotoStep, shared
    <2>2. CASE Apply(p) \/ SendFails(p) \/ ReplyLost(p)
        BY <1>4, <2>2 DEF Apply, SendFails, ReplyLost, GotoStep, shared
    <2>3. CASE RecordVersion(p) \/ MaybePublish(p)
        BY <1>4, <2>3 DEF RecordVersion, MaybePublish, GotoStep, shared
    <2> QED
        BY <1>9, <1>5, <1>6, <1>7, <2>1, <2>2, <2>3 DEF Push, Deliver
<1> QED
    BY <1>1, <1>3, <1>8, <1>9
    DEF Next, Environment, ChangeDocker, Delay, Restart, vars, shared, pushing

LEMMA InitBodies ==
    Init => VersionsBehind /\ Committed /\ VersionsRead /\ BodyAsNewAsVersion
<1> SUFFICES ASSUME Init
             PROVE  VersionsBehind /\ Committed /\ VersionsRead /\ BodyAsNewAsVersion
    OBVIOUS
<1>1. Pending = {}
    BY DEF Init, Pending
<1>2. VersionsBehind
    BY <1>1, FS_EmptySet DEF Init, VersionsBehind
<1>3. Committed /\ VersionsRead /\ BodyAsNewAsVersion
    BY DEF Init, Committed, NoConfig, VersionsRead, BodyAsNewAsVersion
<1> QED
    BY <1>2, <1>3

\* Under every schedule, lost increments included, the configuration sent to
\* a server is valid and at least as new as the version recorded for it.
THEOREM BodiesAreAsNew == Spec => []BodyAsNewAsVersion
<1> DEFINE IInv == /\ Typed /\ VersionsBehind /\ Committed /\ VersionsRead
                   /\ BodyAsNewAsVersion
<1>1. Init => IInv
    BY InitTyped, InitBodies
<1>2. IInv /\ [Next]_vars => IInv'
    BY TypedInductive, VersionsInductive, CommittedInductive, BodyInductive
<1>3. IInv => BodyAsNewAsVersion
    OBVIOUS
<1> QED
    BY <1>1, <1>2, <1>3, PTL DEF Spec

-----------------------------------------------------------------------------
(***************************************************************************)
(* Schedules without overlap, for every set of servers and updates and any *)
(* number of late requests.                                                *)
(***************************************************************************)

\* What the timer gives as long as every update is shorter than a poll, but
\* for late requests; servers do not restart.  A list must not repeat a server:
\* both of its goroutines can find it unmarked, and if one request is late the
\* other records its version before the late configuration arrives.
Sequential ==
    /\ OverlapPhases = {}
    /\ MaxRestarts = 0
    /\ \A l \in ControlledLists :
           \A i, j \in 1 .. Len(l) : l[i] = l[j] => i = j

-----------------------------------------------------------------------------
(* Whose turn it is.                                                       *)

\* Pushes exist for the servers of the update's list only.
Slotted ==
    \A p \in Pushes : step[p] # "none" => p[2] \in 1 .. Len(controlledServers[p[1]])

\* A late request has been sent, and its push has not ended.
LateFlagged ==
    \A p \in late : step[p] \in {"sent", "applied", "publish", "unflag"}

\* An update of which only late requests are left.
Quiet(u) ==
    /\ pc[u] = "wait"
    /\ \A p \in Pushes : p[1] = u => step[p] = "none" \/ p \in late

\* At most one update runs, not counting those that wait for late requests.
Exclusive ==
    \A u, w \in Updates :
        u # w => pc[u] = "idle" \/ pc[w] = "idle" \/ Quiet(u) \/ Quiet(w)

\* A push that has seen its server unmarked is the only one that goes to it.
OnePerServer ==
    \A p, q \in Pushes :
        /\ step[p] \in FlaggedSteps
        /\ step[q] \in FlaggedSteps \cup {"flag"}
        /\ p # q
        => ServerOf(p) # ServerOf(q)

\* The push that goes to a server has marked it.
Marked ==
    \A p \in Pushes : step[p] \in FlaggedSteps => serversUpdating[ServerOf(p)]

Turns == /\ Typed /\ PushesAwaited /\ Slotted /\ LateFlagged
         /\ Exclusive /\ OnePerServer /\ Marked

LEMMA SlottedInductive == Typed /\ PushesAwaited /\ Slotted /\ [Next]_vars => Slotted'
<1> SUFFICES ASSUME Typed, PushesAwaited, Slotted, [Next]_vars PROVE Slotted'
    OBVIOUS
<1>1. /\ controlledServers \in [Updates -> ControlledLists \cup {<<>>}]
      /\ step \in [Pushes -> Steps]
    BY DEF Typed, TypeOK
<1>2. ASSUME NEW u \in Updates, Generate(u) PROVE Slotted'
    <2>1. \A p \in Pushes : step[p] # "none" => p[1] # u
        BY <1>2 DEF Generate, PushesAwaited
    <2> QED
        BY <1>1, <1>2, <2>1 DEF Generate, Slotted, Pushes, pushing
<1>3. ASSUME NEW u \in Updates, Spawn(u) PROVE Slotted'
    <2>1. ASSUME NEW p \in Pushes, step'[p] # "none"
          PROVE  p[2] \in 1 .. Len(controlledServers[p[1]])
        <3>1. CASE p[1] = u /\ p[2] <= Len(controlledServers[u])
            <4>1. p[2] \in 1 .. NumSlots
                BY DEF Pushes
            <4>2. controlledServers[u] \in ControlledLists \cup {<<>>}
                BY <1>1
            <4>3. <<>> \in Seq(Servers)
                OBVIOUS
            <4>4. Len(controlledServers[u]) \in Nat
                BY <4>2, <4>3, ListsAssumption
            <4> QED
                BY <3>1, <4>1, <4>4, ListsAssumption
        <3>2. CASE ~(p[1] = u /\ p[2] <= Len(controlledServers[u]))
            BY <1>3, <2>1, <3>2 DEF Spawn, Slotted
        <3> QED
            BY <3>1, <3>2
    <2> QED
        BY <1>3, <2>1 DEF Spawn, Slotted, locals
<1>4. ASSUME controlledServers' = controlledServers,
             \A p \in Pushes : step'[p] # "none" => step[p] # "none"
      PROVE  Slotted'
    BY <1>4 DEF Slotted
<1>5. ASSUME NEW u \in Updates, Fire(u) \/ Run(u) PROVE Slotted'
    BY <1>5, <1>2, <1>3, <1>4
    DEF Fire, Run, Compare, Remember, AdaptFails, AdaptSucceeds, LoadVersion,
        IncrementVersion, Wait, Leave, locals, pushing
<1>6. ASSUME NEW p \in Pushes, step[p] # "none", NEW x,
             step' = [step EXCEPT ![p] = x], UNCHANGED controlledServers
      PROVE  Slotted'
    BY <1>1, <1>6 DEF Slotted
<1>7. ASSUME NEW p \in Pushes, Push(p) PROVE Slotted'
    BY <1>7, <1>6
    DEF Push, Deliver, CheckUpdating, SetUpdating, ReadVersion, CompareVersion,
        ReadConfig, Apply, SendFails, ReplyLost, RecordVersion, MaybePublish,
        ClearUpdating, GotoStep, locals
<1> QED
    BY <1>4, <1>5, <1>7
    DEF Next, Environment, ChangeDocker, Delay, Restart, vars, locals, pushing

LEMMA GoesToServer ==
    ASSUME Typed, Slotted, NEW p \in Pushes, step[p] # "none"
    PROVE  ServerOf(p) \in Servers
<1>1. p[1] \in Updates /\ p[2] \in 1 .. Len(controlledServers[p[1]])
    BY DEF Slotted, Pushes
<1>2. controlledServers[p[1]] \in ControlledLists \cup {<<>>}
    BY <1>1 DEF Typed, TypeOK
<1>3. <<>> \in Seq(Servers)
    OBVIOUS
<1> QED
    BY <1>1, <1>2, <1>3, ListsAssumption DEF ServerOf

LEMMA LateInductive == Typed /\ PushesAwaited /\ LateFlagged /\ [Next]_vars => LateFlagged'
<1> SUFFICES ASSUME Typed, PushesAwaited, LateFlagged, [Next]_vars PROVE LateFlagged'
    OBVIOUS
<1>1. late \subseteq Pushes /\ step \in [Pushes -> Steps]
    BY DEF Typed, TypeOK
<1>2. CASE UNCHANGED <<late, step>>
    BY <1>2 DEF LateFlagged
<1>3. ASSUME NEW u \in Updates, Spawn(u) PROVE LateFlagged'
    <2>1. \A p \in late : p[1] # u
        BY <1>1, <1>3 DEF Spawn, LateFlagged, PushesAwaited
    <2> QED
        BY <1>1, <1>3, <2>1 DEF Spawn, LateFlagged, hosts
<1>4. ASSUME NEW u \in Updates, Fire(u) \/ Run(u) PROVE LateFlagged'
    BY <1>4, <1>2, <1>3
    DEF Fire, Run, Generate, Compare, Remember, AdaptFails, AdaptSucceeds,
        LoadVersion, IncrementVersion, Wait, hosts, pushing
<1>5. ASSUME NEW p \in Pushes, NEW x, step' = [step EXCEPT ![p] = x], late' = late,
             \/ step[p] \notin {"sent", "applied", "publish", "unflag"}
             \/ x \in {"sent", "applied", "publish", "unflag"}
      PROVE  LateFlagged'
    BY <1>1, <1>5 DEF LateFlagged
<1>6. ASSUME NEW p \in Pushes, Push(p) PROVE LateFlagged'
    <2>1. CASE CheckUpdating(p) \/ SetUpdating(p) \/ ReadVersion(p)
        BY <1>5, <2>1 DEF CheckUpdating, SetUpdating, ReadVersion, GotoStep, hosts
    <2>2. CASE CompareVersion(p) \/ ReadConfig(p) \/ Apply(p) \/ SendFails(p)
        BY <1>5, <2>2 DEF CompareVersion, ReadConfig, Apply, SendFails, GotoStep, hosts
    <2>3. CASE ReplyLost(p) \/ RecordVersion(p) \/ MaybePublish(p)
        BY <1>5, <2>3 DEF ReplyLost, RecordVersion, MaybePublish, GotoStep, hosts
    <2>4. CASE ClearUpdating(p)
        BY <1>1, <2>4 DEF ClearUpdating, LateFlagged
    <2> QED
        BY <1>6, <2>1, <2>2, <2>3, <2>4 DEF Push, Deliver
<1>7. ASSUME NEW p \in Pushes, Delay(p) PROVE LateFlagged'
    BY <1>7 DEF Delay, LateFlagged, pushing
<1> QED
    BY <1>2, <1>4, <1>6, <1>7
    DEF Next, Environment, ChangeDocker, Restart, vars, hosts, pushing

LEMMA ExclusiveInductive ==
    ASSUME Sequential, Typed, PushesAwaited, LateFlagged, Exclusive, [Next]_vars
    PROVE  Exclusive'
<1>1. /\ pc \in [Updates -> Phases] /\ step \in [Pushes -> Steps]
      /\ late \subseteq Pushes
    BY DEF Typed, TypeOK
<1>2. ASSUME pc' = pc, \A u \in Updates : Quiet(u) => Quiet(u)'
      PROVE  Exclusive'
    BY <1>2 DEF Exclusive
<1>3. ASSUME UNCHANGED <<pc, step>>, late \subseteq late'
      PROVE  Exclusive'
    BY <1>2, <1>3 DEF Quiet
<1>4. ASSUME NEW u \in Updates, NEW w \in Updates, u # w, Fire(u) \/ Run(u)
      PROVE  pc'[w] = pc[w] /\ (Quiet(w) => Quiet(w)')
    <2>1. pc'[w] = pc[w] /\ late' = late
        BY <1>1, <1>4
        DEF Fire, Run, Generate, Compare, Remember, AdaptFails, AdaptSucceeds,
            LoadVersion, IncrementVersion, Spawn, Wait, Leave, Goto, hosts
    <2>2. \A p \in Pushes : p[1] = w => step'[p] = step[p]
        BY <1>4
        DEF Fire, Run, Generate, Compare, Remember, AdaptFails, AdaptSucceeds,
            LoadVersion, IncrementVersion, Spawn, Wait, pushing
    <2> QED
        BY <2>1, <2>2 DEF Quiet
<1>5. ASSUME NEW u \in Updates, Fire(u) PROVE Exclusive'
    <2>1. \A w \in Updates \ {u} : pc'[w] = "idle" \/ Quiet(w)'
        <3>1. ASSUME NEW w \in Updates, Stuck(w) PROVE Quiet(w)
            BY <3>1 DEF Stuck, Quiet, Pushes
        <3> QED
            BY <3>1, <1>4, <1>5 DEF Fire, Sequential
    <2> QED
        BY <2>1 DEF Exclusive
<1>6. ASSUME NEW u \in Updates, Run(u) PROVE Exclusive'
    <2>1. pc[u] # "idle"
        BY <1>6 DEF Run, Generate, Compare, Remember, AdaptFails, AdaptSucceeds,
                    LoadVersion, IncrementVersion, Spawn, Wait
    <2>2. Quiet(u) => pc'[u] = "idle"
        BY <1>1, <1>6
        DEF Quiet, Run, Generate, Compare, Remember, AdaptFails, AdaptSucceeds,
            LoadVersion, IncrementVersion, Spawn, Wait, Leave, Goto
    <2>3. \A w \in Updates \ {u} :
             pc'[u] = "idle" \/ pc'[w] = "idle" \/ Quiet(w)'
        BY <2>1, <2>2, <1>4, <1>6 DEF Exclusive
    <2>4. \A v, w \in Updates \ {u} :
             v # w => pc'[v] = "idle" \/ pc'[w] = "idle" \/ Quiet(v)' \/ Quiet(w)'
        BY <1>4, <1>6 DEF Exclusive
    <2> QED
        BY <2>3, <2>4 DEF Exclusive
<1>7. ASSUME NEW p \in Pushes, step[p] # "none", NEW x, step' = [step EXCEPT ![p] = x],
             pc' = pc, late' = late \/ (late' = late \ {p} /\ x = "none")
      PROVE  Exclusive'
    <2>1. ASSUME NEW u \in Updates, Quiet(u) PROVE Quiet(u)'
        <3>1. ASSUME NEW q \in Pushes, q[1] = u
              PROVE  step'[q] = "none" \/ q \in late'
            BY <1>1, <1>7, <2>1, <3>1 DEF Quiet
        <3> QED
            BY <1>7, <2>1, <3>1 DEF Quiet
    <2> QED
        BY <1>2, <1>7, <2>1
<1>8. ASSUME NEW p \in Pushes, Push(p) PROVE Exclusive'
    BY <1>8, <1>7
    DEF Push, Deliver, CheckUpdating, SetUpdating, ReadVersion, CompareVersion,
        ReadConfig, Apply, SendFails, ReplyLost, RecordVersion, MaybePublish,
        ClearUpdating, GotoStep, hosts
<1> QED
    BY <1>3, <1>5, <1>6, <1>8
    DEF Next, Environment, ChangeDocker, Delay, Restart, vars, hosts, pushing

\* A push that is not late has its update to itself.
LEMMA Alone ==
    ASSUME PushesAwaited, Exclusive,
           NEW p \in Pushes, step[p] # "none", p \notin late
    PROVE  \A w \in Updates : w # p[1] => pc[w] = "idle" \/ Quiet(w)
<1>1. p[1] \in Updates
    BY DEF Pushes
<1>2. pc[p[1]] # "idle" /\ ~Quiet(p[1])
    BY DEF PushesAwaited, Quiet
<1> QED
    BY <1>1, <1>2 DEF Exclusive

\* No two pushes are about to mark one server.
LEMMA FlagsApart ==
    ASSUME Sequential, Typed, PushesAwaited, Slotted, LateFlagged, Exclusive,
           NEW p \in Pushes, NEW q \in Pushes, p # q,
           step[p] = "flag", step[q] = "flag"
    PROVE  ServerOf(p) # ServerOf(q)
<1>1. p \notin late /\ q \notin late
    BY DEF LateFlagged
<1>2. CASE p[1] # q[1]
    <2>1. q[1] \in Updates
        BY DEF Pushes
    <2>2. pc[q[1]] # "idle" /\ ~Quiet(q[1])
        BY <1>1 DEF PushesAwaited, Quiet
    <2> QED
        BY <1>1, <1>2, <2>1, <2>2, Alone
<1>3. CASE p[1] = q[1]
    <2> DEFINE l == controlledServers[p[1]]
    <2>1. p[2] # q[2] /\ p[1] \in Updates
        BY <1>3 DEF Pushes
    <2>2. p[2] \in 1 .. Len(l) /\ q[2] \in 1 .. Len(l)
        BY <1>3 DEF Slotted
    <2>3. l \in ControlledLists
        <3>1. l \in ControlledLists \cup {<<>>}
            BY <2>1 DEF Typed, TypeOK
        <3>2. l # <<>>
            BY <2>2
        <3> QED
            BY <3>1, <3>2
    <2> QED
        BY <1>3, <2>1, <2>2, <2>3 DEF Sequential, ServerOf
<1> QED
    BY <1>2, <1>3

LEMMA MarksInductive ==
    ASSUME Sequential, Turns, [Next]_vars
    PROVE  OnePerServer' /\ Marked'
<1> USE DEF Turns
<1>1. /\ controlledServers \in [Updates -> ControlledLists \cup {<<>>}]
      /\ step \in [Pushes -> Steps]
      /\ serversUpdating \in [Servers -> BOOLEAN]
    BY DEF Typed, TypeOK
<1>2. ASSUME serversUpdating' = serversUpdating,
             \A p \in Pushes :
                 /\ step'[p] \in FlaggedSteps => step[p] \in FlaggedSteps
                 /\ step'[p] = "flag" => step[p] = "flag"
                 /\ step'[p] \in FlaggedSteps \cup {"flag"} =>
                        controlledServers'[p[1]] = controlledServers[p[1]]
      PROVE  OnePerServer' /\ Marked'
    BY <1>2 DEF OnePerServer, Marked, ServerOf
<1>3. ASSUME NEW u \in Updates, Generate(u) PROVE OnePerServer' /\ Marked'
    <2>1. \A p \in Pushes : step[p] # "none" => p[1] # u
        BY <1>3 DEF Generate, PushesAwaited
    <2>2. \A p \in Pushes : step[p] # "none" =>
             controlledServers'[p[1]] = controlledServers[p[1]]
        BY <1>1, <1>3, <2>1 DEF Generate, Pushes
    <2> QED
        BY <1>2, <1>3, <2>2 DEF Generate, maps, pushing, FlaggedSteps
<1>4. ASSUME NEW u \in Updates, Spawn(u) PROVE OnePerServer' /\ Marked'
    BY <1>2, <1>4 DEF Spawn, maps, locals, FlaggedSteps
<1>5. ASSUME NEW u \in Updates, Fire(u) \/ Run(u) PROVE OnePerServer' /\ Marked'
    BY <1>2, <1>3, <1>4, <1>5
    DEF Fire, Run, Compare, Remember, AdaptFails, AdaptSucceeds, LoadVersion,
        IncrementVersion, Wait, Leave, locals, maps, pushing
<1>6. ASSUME NEW p \in Pushes, NEW x, step' = [step EXCEPT ![p] = x],
             x \in FlaggedSteps => step[p] \in FlaggedSteps, x # "flag",
             UNCHANGED <<serversUpdating, controlledServers>>
      PROVE  OnePerServer' /\ Marked'
    BY <1>1, <1>2, <1>6
<1>7. ASSUME NEW p \in Pushes, CheckUpdating(p) PROVE OnePerServer' /\ Marked'
    <2>1. UNCHANGED <<serversUpdating, controlledServers>>
        BY <1>7 DEF CheckUpdating, maps, locals
    <2>2. CASE serversUpdating[ServerOf(p)]
        BY <1>6, <1>7, <2>1, <2>2 DEF CheckUpdating, GotoStep, FlaggedSteps
    <2>3. CASE ~serversUpdating[ServerOf(p)]
        <3>1. step' = [step EXCEPT ![p] = "flag"] /\ "flag" \notin FlaggedSteps
            BY <1>7, <2>3 DEF CheckUpdating, GotoStep, FlaggedSteps
        <3>2. \A q \in Pushes : step'[q] \in FlaggedSteps =>
                 step[q] \in FlaggedSteps /\ q # p
            BY <1>1, <3>1
        <3>3. \A q \in Pushes : step[q] \in FlaggedSteps => ServerOf(q) # ServerOf(p)
            BY <2>3 DEF Marked
        <3>4. \A q \in Pushes : ServerOf(q)' = ServerOf(q)
            BY <2>1 DEF ServerOf
        <3>5. \A q \in Pushes : q # p => step'[q] = step[q]
            BY <1>1, <3>1
        <3> QED
            BY <2>1, <3>2, <3>3, <3>4, <3>5 DEF OnePerServer, Marked
    <2> QED
        BY <2>2, <2>3
<1>8. ASSUME NEW p \in Pushes, SetUpdating(p) PROVE OnePerServer' /\ Marked'
    <2>1. /\ step[p] = "flag" /\ step' = [step EXCEPT ![p] = "version"]
          /\ serversUpdating' = [serversUpdating EXCEPT ![ServerOf(p)] = TRUE]
        BY <1>8 DEF SetUpdating, GotoStep
    <2>2. \A q \in Pushes : ServerOf(q)' = ServerOf(q)
        BY <1>8 DEF SetUpdating, locals, ServerOf
    <2>3. \A q \in Pushes : q # p => step'[q] = step[q]
        BY <1>1, <2>1
    <2>4. ASSUME NEW q \in Pushes, q # p, step[q] \in FlaggedSteps \cup {"flag"}
          PROVE  ServerOf(q) # ServerOf(p)
        BY <2>1, <2>4, FlagsApart DEF OnePerServer
    <2>5. OnePerServer'
        BY <2>2, <2>3, <2>4 DEF OnePerServer
    <2>6. ServerOf(p) \in Servers
        BY <2>1, GoesToServer
    <2>7. Marked'
        BY <1>1, <2>1, <2>2, <2>3, <2>4, <2>6 DEF Marked
    <2> QED
        BY <2>5, <2>7
<1>9. ASSUME NEW p \in Pushes, ClearUpdating(p) PROVE OnePerServer' /\ Marked'
    <2>1. /\ step[p] \in FlaggedSteps /\ step' = [step EXCEPT ![p] = "none"]
          /\ serversUpdating' = [serversUpdating EXCEPT ![ServerOf(p)] = FALSE]
        BY <1>9 DEF ClearUpdating, FlaggedSteps
    <2>2. \A q \in Pushes : ServerOf(q)' = ServerOf(q)
        BY <1>9 DEF ClearUpdating, locals, ServerOf
    <2>3. \A q \in Pushes : step'[q] \in FlaggedSteps \cup {"flag"} =>
             q # p /\ step'[q] = step[q]
        BY <1>1, <2>1 DEF FlaggedSteps
    <2>4. OnePerServer'
        BY <2>2, <2>3 DEF OnePerServer
    <2>5. Marked'
        BY <1>1, <2>1, <2>2, <2>3 DEF OnePerServer, Marked
    <2> QED
        BY <2>4, <2>5
<1>10. ASSUME NEW p \in Pushes, Push(p) PROVE OnePerServer' /\ Marked'
    <2>1. CASE ReadVersion(p) \/ CompareVersion(p) \/ ReadConfig(p) \/ Apply(p)
        BY <1>6, <2>1 DEF ReadVersion, CompareVersion, ReadConfig, Apply, GotoStep,
                          FlaggedSteps, maps, locals
    <2>2. CASE SendFails(p) \/ ReplyLost(p) \/ RecordVersion(p) \/ MaybePublish(p)
        BY <1>6, <2>2 DEF SendFails, ReplyLost, RecordVersion, MaybePublish, GotoStep,
                          FlaggedSteps, maps, locals
    <2> QED
        BY <1>10, <1>7, <1>8, <1>9, <2>1, <2>2 DEF Push, Deliver
<1> QED
    BY <1>2, <1>5, <1>10
    DEF Next, Environment, ChangeDocker, Delay, Restart, vars, maps, locals, pushing

LEMMA InitTurns == Init => Turns
<1> SUFFICES ASSUME Init PROVE Turns
    OBVIOUS
<1>1. \A p \in Pushes : step[p] = "none"
    BY DEF Init
<1>2. PushesAwaited /\ Slotted /\ OnePerServer /\ Marked
    BY <1>1 DEF PushesAwaited, Slotted, OnePerServer, Marked, FlaggedSteps
<1>3. LateFlagged /\ Exclusive
    BY DEF Init, LateFlagged, Exclusive
<1> QED
    BY <1>2, <1>3, InitTyped DEF Turns

LEMMA TurnsInductive == Sequential /\ Turns /\ [Next]_vars => Turns'
BY TypedInductive, AwaitedInductive, SlottedInductive, LateInductive,
   ExclusiveInductive, MarksInductive DEF Turns, Typed

-----------------------------------------------------------------------------
(* What a push carries, compared with what its server has.                 *)

\* Versions grow: the one in flight is newer than the one recorded.
Newer ==
    \A p \in Pushes :
        step[p] \in {"body", "sent", "applied"} =>
            version[p] > serversVersions[ServerOf(p)]

\* Configurations in flight and in use are writes of lastJSONConfig, ...
Written ==
    /\ \A p \in Pushes : postBody[p].commit <= commits
    /\ \A s \in Servers : running[s].commit <= commits

\* the one in flight is not older than the one in use, and it is the newest if
\* its number says so, ...
Forward ==
    \A p \in Pushes :
        step[p] = "sent" =>
            /\ postBody[p].commit >= running[ServerOf(p)].commit
            /\ postBody[p].commit = commits => postBody[p] = lastJSONConfig

\* and between its arrival and the end of the push it is the one in use.
Served ==
    \A p \in Pushes :
        step[p] \in {"applied", "publish"} => running[ServerOf(p)] = postBody[p]

Carried == /\ Turns /\ VersionsBehind /\ Committed /\ VersionsRead /\ BodyAsNewAsVersion
           /\ Newer /\ Written /\ Forward /\ Served /\ RecordedIsRunning

\* What a step of anything but a push leaves alone.
LEMMA OtherSteps ==
    ASSUME Sequential, Turns, [Next]_vars, \A p \in Pushes : ~Push(p)
    PROVE  /\ UNCHANGED <<running, serversVersions, handed, version, postBody>>
           /\ late \subseteq late'
           /\ \A p \in Pushes : step[p] # "none" =>
                 step'[p] = step[p] /\ ServerOf(p)' = ServerOf(p)
           /\ \A p \in Pushes : step'[p] \in FlaggedSteps => step'[p] = step[p]
           /\ \/ UNCHANGED <<lastJSONConfig, commits>>
              \/ \E u \in Updates : AdaptSucceeds(u)
<1> DEFINE Kept == \A p \in Pushes : step[p] # "none" =>
                       step'[p] = step[p] /\ ServerOf(p)' = ServerOf(p)
           Old  == \A p \in Pushes : step'[p] \in FlaggedSteps => step'[p] = step[p]
<1>1. ASSUME UNCHANGED <<step, controlledServers>> PROVE Kept /\ Old
    BY <1>1 DEF ServerOf
<1>2. ASSUME NEW u \in Updates, Generate(u) PROVE Kept /\ Old
    <2>1. \A p \in Pushes : step[p] # "none" => p[1] # u
        BY <1>2 DEF Generate, Turns, PushesAwaited
    <2> QED
        BY <1>2, <2>1 DEF Generate, pushing, Turns, Typed, TypeOK, Pushes, ServerOf
<1>3. ASSUME NEW u \in Updates, Spawn(u) PROVE Kept /\ Old
    <2>1. \A p \in Pushes : step[p] # "none" => p[1] # u
        BY <1>3 DEF Spawn, Turns, PushesAwaited
    <2> QED
        BY <1>3, <2>1 DEF Spawn, locals, ServerOf, FlaggedSteps
<1>4. ASSUME NEW u \in Updates, Fire(u) \/ Run(u)
      PROVE  /\ UNCHANGED <<running, serversVersions, handed, version, postBody, late>>
             /\ Kept /\ Old
             /\ UNCHANGED <<lastJSONConfig, commits>> \/ AdaptSucceeds(u)
    <2>1. Kept /\ Old
        BY <1>1, <1>2, <1>3, <1>4
        DEF Fire, Run, Compare, Remember, AdaptFails, AdaptSucceeds, LoadVersion,
            IncrementVersion, Wait, Leave, locals, pushing
    <2>2. UNCHANGED <<running, serversVersions, handed, version, postBody, late>>
        BY <1>4
        DEF Fire, Run, Generate, Compare, Remember, AdaptFails, AdaptSucceeds,
            LoadVersion, IncrementVersion, Spawn, Wait, hosts, maps, pushing
    <2>3. UNCHANGED <<lastJSONConfig, commits>> \/ AdaptSucceeds(u)
        BY <1>4
        DEF Fire, Run, Generate, Compare, Remember, AdaptFails,
            LoadVersion, IncrementVersion, Spawn, Wait, shared
    <2> QED
        BY <2>1, <2>2, <2>3
<1>5. ASSUME NEW s \in Servers PROVE ~Restart(s)
    BY DEF Sequential, Restart, Turns, Typed, TypeOK
<1>6. CASE ChangeDocker \/ UNCHANGED vars
    BY <1>1, <1>6 DEF ChangeDocker, vars, hosts, shared, maps, locals, pushing
<1>7. ASSUME NEW p \in Pushes, Delay(p)
      PROVE  /\ UNCHANGED <<running, serversVersions, handed, version, postBody>>
             /\ late \subseteq late' /\ Kept /\ Old
             /\ UNCHANGED <<lastJSONConfig, commits>>
    BY <1>1, <1>7 DEF Delay, shared, maps, locals, pushing
<1> QED
    BY <1>4, <1>5, <1>6, <1>7 DEF Next, Environment

\* What a step of a push leaves alone.
LEMMA PushSteps ==
    ASSUME Turns, NEW p \in Pushes, Push(p)
    PROVE  /\ step[p] # "none"
           /\ UNCHANGED <<shared, pc, locals>>
           /\ \A q \in Pushes : ServerOf(q)' = ServerOf(q)
           /\ \A q \in Pushes \ {p} :
                 UNCHANGED <<step[q], version[q], postBody[q]>> /\ (q \in late <=> q \in late')
<1>1. /\ step \in [Pushes -> Steps] /\ version \in [Pushes -> Nat]
      /\ postBody \in [Pushes -> Numbered]
    BY DEF Turns, Typed, TypeOK
<1>2. step[p] # "none" /\ UNCHANGED <<shared, pc, locals>>
    BY DEF Push, Deliver, CheckUpdating, SetUpdating, ReadVersion, CompareVersion,
           ReadConfig, Apply, SendFails, ReplyLost, RecordVersion, MaybePublish,
           ClearUpdating
<1>3. \A q \in Pushes \ {p} : step'[q] = step[q]
    BY <1>1 DEF Push, Deliver, CheckUpdating, SetUpdating, ReadVersion, CompareVersion,
           ReadConfig, Apply, SendFails, ReplyLost, RecordVersion, MaybePublish,
           ClearUpdating, GotoStep
<1>4. \A q \in Pushes \ {p} : UNCHANGED <<version[q], postBody[q]>>
    BY <1>1 DEF Push, Deliver, CheckUpdating, SetUpdating, ReadVersion, CompareVersion,
           ReadConfig, Apply, SendFails, ReplyLost, RecordVersion, MaybePublish,
           ClearUpdating
<1>5. late' = late \/ late' = late \ {p}
    BY DEF Push, Deliver, CheckUpdating, SetUpdating, ReadVersion, CompareVersion,
           ReadConfig, Apply, SendFails, ReplyLost, RecordVersion, MaybePublish,
           ClearUpdating, hosts
<1> QED
    BY <1>2, <1>3, <1>4, <1>5 DEF ServerOf, locals

LEMMA NewerInductive ==
    ASSUME Sequential, Turns, Newer, [Next]_vars
    PROVE  Newer'
<1>1. /\ step \in [Pushes -> Steps] /\ version \in [Pushes -> Nat]
      /\ serversVersions \in [Servers -> Nat]
    BY DEF Turns, Typed, TypeOK
<1>2. CASE \A p \in Pushes : ~Push(p)
    <2>1. ASSUME NEW p \in Pushes, step'[p] \in {"body", "sent", "applied"}
          PROVE  version'[p] > serversVersions'[ServerOf(p)']
        BY <1>2, <2>1, OtherSteps DEF Newer, FlaggedSteps
    <2> QED
        BY <2>1 DEF Newer
<1>3. ASSUME NEW p \in Pushes, Push(p) PROVE Newer'
    <2>1. ASSUME NEW q \in Pushes \ {p}, step'[q] \in {"body", "sent", "applied"}
          PROVE  version'[q] > serversVersions'[ServerOf(q)']
        <3>1. CASE serversVersions' = serversVersions
            BY <1>3, <2>1, <3>1, PushSteps DEF Newer
        <3>2. CASE RecordVersion(p)
            <4>1. ServerOf(q) # ServerOf(p)
                BY <1>3, <2>1, <3>2, PushSteps DEF Turns, OnePerServer, FlaggedSteps, RecordVersion
            <4>2. serversVersions'[ServerOf(q)] = serversVersions[ServerOf(q)]
                BY <1>1, <3>2, <4>1 DEF RecordVersion
            <4> QED
                BY <1>3, <2>1, <4>2, PushSteps DEF Newer
        <3> QED
            BY <1>3, <3>1, <3>2
            DEF Push, Deliver, CheckUpdating, SetUpdating, ReadVersion, CompareVersion,
                ReadConfig, Apply, SendFails, ReplyLost, MaybePublish, ClearUpdating, maps
    <2>2. ASSUME step'[p] \in {"body", "sent", "applied"}
          PROVE  version'[p] > serversVersions'[ServerOf(p)']
        <3>1. ServerOf(p) \in Servers /\ ServerOf(p)' = ServerOf(p)
            BY <1>3, PushSteps, GoesToServer DEF Turns
        <3>2. CASE CompareVersion(p)
            BY <1>1, <2>2, <3>1, <3>2 DEF CompareVersion, GotoStep, maps
        <3>3. CASE ReadConfig(p) \/ Apply(p)
            BY <1>1, <2>2, <3>1, <3>3 DEF ReadConfig, Apply, maps, Newer
        <3> QED
            BY <1>1, <1>3, <2>2, <3>2, <3>3
            DEF Push, Deliver, CheckUpdating, SetUpdating, ReadVersion, SendFails,
                ReplyLost, RecordVersion, MaybePublish, ClearUpdating, GotoStep
    <2> QED
        BY <2>1, <2>2 DEF Newer
<1> QED
    BY <1>2, <1>3

LEMMA WrittenInductive ==
    ASSUME Sequential, Turns, Committed, Written, [Next]_vars
    PROVE  Written'
<1>1. /\ running \in [Servers -> Numbered] /\ postBody \in [Pushes -> Numbered]
      /\ step \in [Pushes -> Steps] /\ commits \in Nat
    BY DEF Turns, Typed, TypeOK
<1>2. CASE \A p \in Pushes : ~Push(p)
    <2>1. UNCHANGED <<running, postBody>>
        BY <1>2, OtherSteps
    <2>2. commits' \in Nat /\ commits' >= commits
        BY <1>1, <1>2, OtherSteps DEF AdaptSucceeds
    <2> QED
        BY <1>1, <2>1, <2>2 DEF Written, Numbered
<1>3. ASSUME NEW p \in Pushes, Push(p) PROVE Written'
    <2>1. commits' = commits /\ lastJSONConfig' = lastJSONConfig
        BY <1>3, PushSteps DEF shared
    <2>2. CASE ReadConfig(p)
        BY <1>1, <2>1, <2>2 DEF ReadConfig, Written, Committed, hosts
    <2>3. CASE Apply(p)
        <3>1. ServerOf(p) \in Servers
            BY <1>3, PushSteps, GoesToServer DEF Turns
        <3> QED
            BY <1>1, <2>1, <2>3, <3>1 DEF Apply, Written
    <2>4. CASE ClearUpdating(p)
        BY <1>1, <2>1, <2>4 DEF ClearUpdating, Written, NoConfig
    <2>5. CASE UNCHANGED <<running, postBody>>
        BY <2>1, <2>5 DEF Written
    <2> QED
        BY <1>3, <2>2, <2>3, <2>4, <2>5
        DEF Push, Deliver, CheckUpdating, SetUpdating, ReadVersion, CompareVersion,
            SendFails, ReplyLost, RecordVersion, MaybePublish, hosts
<1> QED
    BY <1>2, <1>3

LEMMA ForwardInductive ==
    ASSUME Sequential, Turns, Committed, Written, Forward, [Next]_vars
    PROVE  Forward'
<1>1. /\ running \in [Servers -> Numbered] /\ postBody \in [Pushes -> Numbered]
      /\ step \in [Pushes -> Steps] /\ commits \in Nat
    BY DEF Turns, Typed, TypeOK
<1>2. CASE \A p \in Pushes : ~Push(p)
    <2>1. ASSUME NEW p \in Pushes, step'[p] = "sent"
          PROVE  /\ postBody'[p].commit >= running'[ServerOf(p)'].commit
                 /\ postBody'[p].commit = commits' => postBody'[p] = lastJSONConfig'
        <3>1. /\ step[p] = "sent" /\ ServerOf(p)' = ServerOf(p)
              /\ UNCHANGED <<running, postBody>>
            BY <1>2, <2>1, OtherSteps DEF FlaggedSteps
        <3>2. postBody[p].commit <= commits /\ postBody[p].commit \in Nat
            BY <1>1 DEF Written, Numbered
        <3>3. CASE UNCHANGED <<lastJSONConfig, commits>>
            BY <3>1, <3>3 DEF Forward
        <3>4. ASSUME NEW u \in Updates, AdaptSucceeds(u)
              PROVE  postBody[p].commit # commits'
            BY <1>1, <3>2, <3>4 DEF AdaptSucceeds
        <3> QED
            BY <1>2, <3>1, <3>3, <3>4, OtherSteps DEF Forward
    <2> QED
        BY <2>1 DEF Forward
<1>3. ASSUME NEW p \in Pushes, Push(p) PROVE Forward'
    <2>1. commits' = commits /\ lastJSONConfig' = lastJSONConfig
        BY <1>3, PushSteps DEF shared
    <2>2. ServerOf(p) \in Servers /\ ServerOf(p)' = ServerOf(p)
        BY <1>3, PushSteps, GoesToServer DEF Turns
    <2>3. ASSUME NEW q \in Pushes \ {p}, step'[q] = "sent"
          PROVE  /\ postBody'[q].commit >= running'[ServerOf(q)'].commit
                 /\ postBody'[q].commit = commits' => postBody'[q] = lastJSONConfig'
        <3>1. /\ step[q] = "sent" /\ ServerOf(q)' = ServerOf(q)
              /\ postBody'[q] = postBody[q]
            BY <1>3, <2>3, PushSteps
        <3>2. running'[ServerOf(q)] = running[ServerOf(q)]
            <4>1. CASE Apply(p)
                <5>1. ServerOf(q) # ServerOf(p)
                    BY <3>1, <4>1, <2>3 DEF Turns, OnePerServer, FlaggedSteps, Apply
                <5> QED
                    BY <1>1, <4>1, <5>1 DEF Apply
            <4> QED
                BY <1>3, <4>1
                DEF Push, Deliver, CheckUpdating, SetUpdating, ReadVersion, CompareVersion,
                    ReadConfig, SendFails, ReplyLost, RecordVersion, MaybePublish,
                    ClearUpdating, hosts
        <3> QED
            BY <2>1, <3>1, <3>2 DEF Forward
    <2>4. ASSUME step'[p] = "sent"
          PROVE  /\ postBody'[p].commit >= running'[ServerOf(p)'].commit
                 /\ postBody'[p].commit = commits' => postBody'[p] = lastJSONConfig'
        <3>1. ReadConfig(p)
            BY <1>1, <1>3, <2>4
            DEF Push, Deliver, CheckUpdating, SetUpdating, ReadVersion, CompareVersion,
                Apply, SendFails, ReplyLost, RecordVersion, MaybePublish,
                ClearUpdating, GotoStep
        <3>2. postBody'[p] = lastJSONConfig /\ running' = running
            BY <1>1, <3>1 DEF ReadConfig, hosts
        <3> QED
            BY <2>1, <2>2, <3>2 DEF Committed, Written
    <2> QED
        BY <2>3, <2>4 DEF Forward
<1> QED
    BY <1>2, <1>3

LEMMA ServedInductive ==
    ASSUME Sequential, Turns, Served, [Next]_vars
    PROVE  Served'
<1>1. /\ running \in [Servers -> Numbered] /\ postBody \in [Pushes -> Numbered]
      /\ step \in [Pushes -> Steps]
    BY DEF Turns, Typed, TypeOK
<1>2. CASE \A p \in Pushes : ~Push(p)
    <2>1. ASSUME NEW p \in Pushes, step'[p] \in {"applied", "publish"}
          PROVE  running'[ServerOf(p)'] = postBody'[p]
        BY <1>2, <2>1, OtherSteps DEF Served, FlaggedSteps
    <2> QED
        BY <2>1 DEF Served
<1>3. ASSUME NEW p \in Pushes, Push(p) PROVE Served'
    <2>1. ServerOf(p) \in Servers /\ ServerOf(p)' = ServerOf(p)
        BY <1>3, PushSteps, GoesToServer DEF Turns
    <2>2. CASE Apply(p)
        <3>1. running' = [running EXCEPT ![ServerOf(p)] = postBody[p]]
              /\ postBody' = postBody /\ step[p] = "sent"
            BY <2>2 DEF Apply
        <3>2. running'[ServerOf(p)'] = postBody'[p]
            BY <1>1, <2>1, <3>1
        <3>3. ASSUME NEW q \in Pushes \ {p}, step'[q] \in {"applied", "publish"}
              PROVE  running'[ServerOf(q)'] = postBody'[q]
            <4>1. step[q] \in {"applied", "publish"} /\ ServerOf(q)' = ServerOf(q)
                BY <1>3, <3>3, PushSteps
            <4>2. ServerOf(q) # ServerOf(p)
                BY <3>1, <3>3, <4>1 DEF Turns, OnePerServer, FlaggedSteps
            <4> QED
                BY <1>1, <3>1, <4>1, <4>2 DEF Served
        <3> QED
            BY <3>2, <3>3 DEF Served
    <2>3. CASE ~Apply(p)
        <3>1. running' = running
            BY <1>3, <2>3
            DEF Push, Deliver, CheckUpdating, SetUpdating, ReadVersion, CompareVersion,
                ReadConfig, SendFails, ReplyLost, RecordVersion, MaybePublish,
                ClearUpdating, hosts
        <3>2. step'[p] \in {"applied", "publish"} =>
                 step[p] = "applied" /\ postBody' = postBody
            BY <1>1, <1>3, <2>3
            DEF Push, Deliver, CheckUpdating, SetUpdating, ReadVersion, CompareVersion,
                ReadConfig, SendFails, ReplyLost, RecordVersion, MaybePublish,
                ClearUpdating, GotoStep
        <3>3. ASSUME NEW q \in Pushes, step'[q] \in {"applied", "publish"}
              PROVE  running'[ServerOf(q)'] = postBody'[q]
            BY <1>3, <2>1, <3>1, <3>2, <3>3, PushSteps DEF Served
        <3> QED
            BY <3>3 DEF Served
    <2> QED
        BY <2>2, <2>3
<1> QED
    BY <1>2, <1>3

LEMMA RecordedInductive ==
    ASSUME Sequential, Turns, BodyAsNewAsVersion, Newer, Served,
           RecordedIsRunning, [Next]_vars
    PROVE  RecordedIsRunning'
<1>1. /\ running \in [Servers -> Numbered] /\ postBody \in [Pushes -> Numbered]
      /\ serversVersions \in [Servers -> Nat] /\ version \in [Pushes -> Nat]
    BY DEF Turns, Typed, TypeOK
<1>2. CASE UNCHANGED <<running, serversVersions>>
    BY <1>2 DEF RecordedIsRunning
<1>3. ASSUME NEW p \in Pushes, Apply(p) PROVE RecordedIsRunning'
    <2>1. step[p] = "sent" /\ serversVersions' = serversVersions
          /\ running' = [running EXCEPT ![ServerOf(p)] = postBody[p]]
        BY <1>3 DEF Apply, maps
    <2>2. ServerOf(p) \in Servers
        BY <2>1, GoesToServer DEF Turns
    <2>3. postBody[p].commit \in Nat /\ version[p] \in Nat
          /\ serversVersions[ServerOf(p)] \in Nat
        BY <1>1, <2>2 DEF Numbered
    <2>4. postBody[p].commit >= serversVersions[ServerOf(p)]
        BY <2>1, <2>3 DEF BodyAsNewAsVersion, Newer
    <2> QED
        BY <1>1, <2>1, <2>4 DEF RecordedIsRunning
<1>4. ASSUME NEW p \in Pushes, RecordVersion(p) PROVE RecordedIsRunning'
    <2>1. step[p] = "applied" /\ running' = running
          /\ serversVersions' = [serversVersions EXCEPT ![ServerOf(p)] = version[p]]
        BY <1>4 DEF RecordVersion, hosts
    <2>2. running[ServerOf(p)].commit >= version[p]
        BY <2>1 DEF Served, BodyAsNewAsVersion
    <2> QED
        BY <1>1, <2>1, <2>2 DEF RecordedIsRunning
<1>5. ASSUME NEW p \in Pushes, Push(p) PROVE RecordedIsRunning'
    BY <1>5, <1>2, <1>3, <1>4
    DEF Push, Deliver, CheckUpdating, SetUpdating, ReadVersion, CompareVersion,
        ReadConfig, SendFails, ReplyLost, MaybePublish, ClearUpdating, hosts, maps
<1> QED
    BY <1>2, <1>5, OtherSteps

LEMMA InitCarried == Init => Carried
<1> SUFFICES ASSUME Init PROVE Carried
    OBVIOUS
<1>1. \A p \in Pushes : step[p] = "none"
    BY DEF Init
<1>2. Newer /\ Forward /\ Served
    BY <1>1 DEF Newer, Forward, Served
<1>3. Written /\ RecordedIsRunning
    BY DEF Init, NoConfig, Written, RecordedIsRunning
<1> QED
    BY <1>2, <1>3, InitTurns, InitBodies DEF Carried

LEMMA CarriedInductive == Sequential /\ Carried /\ [Next]_vars => Carried'
BY TurnsInductive, VersionsInductive, CommittedInductive, BodyInductive,
   NewerInductive, WrittenInductive, ForwardInductive, ServedInductive,
   RecordedInductive DEF Carried, Turns

\* Without overlap and restarts, the version recorded for a server is never
\* ahead of the configuration that it runs, however late requests arrive: the
\* comparison in updateServer skips a server only when it is up to date.
THEOREM RecordedVersionsAreRunning ==
    ASSUME Sequential
    PROVE  Spec => []RecordedIsRunning
<1>1. Init => Carried
    BY InitCarried
<1>2. Carried /\ [Next]_vars => Carried'
    BY CarriedInductive
<1>3. Carried => RecordedIsRunning
    BY DEF Carried
<1> QED
    BY <1>1, <1>2, <1>3, PTL DEF Spec

-----------------------------------------------------------------------------
(* Which Caddyfile the configuration comes from.                           *)

\* An update that has compared holds lastCaddyfile, or will write it.
Remembered ==
    /\ \A u \in Updates :
          /\ pc[u] = "remember" /\ ~caddyfileChanged[u] => lastCaddyfile = caddyfile[u]
          /\ pc[u] = "adapt" => lastCaddyfile = caddyfile[u]
          /\ pc[u] \in {"adapt", "load", "increment", "spawn", "wait"} =>
                 lastCaddyfile \in Caddyfiles

\* lastJSONConfig is the conversion of lastCaddyfile, if that is valid, except
\* while an update is converting.
Converted ==
    /\ lastCaddyfile \in Caddyfiles
    /\ Adapt[lastCaddyfile] # Invalid
    /\ \A u \in Updates : pc[u] # "adapt"
    => lastJSONConfig.config = Adapt[lastCaddyfile]

\* A push that is not late carries lastJSONConfig.
Current ==
    \A p \in Pushes \ late :
        step[p] \in {"sent", "applied", "publish"} => postBody[p] = lastJSONConfig

Traced == Carried /\ Remembered /\ Converted /\ Current

LEMMA RememberedInductive ==
    ASSUME Sequential, Turns, Remembered, [Next]_vars
    PROVE  Remembered'
<1>1. /\ pc \in [Updates -> Phases]
      /\ caddyfile \in [Updates -> Caddyfiles \cup {Nothing}]
      /\ caddyfileChanged \in [Updates -> BOOLEAN]
    BY DEF Turns, Typed, TypeOK
<1>2. ASSUME NEW u \in Updates, Remember(u) PROVE Remembered'
    <2>1. /\ pc[u] = "remember" /\ lastCaddyfile' = caddyfile[u]
          /\ UNCHANGED <<caddyfile, caddyfileChanged>>
          /\ pc' = [pc EXCEPT ![u] = IF caddyfileChanged[u] THEN "adapt" ELSE "spawn"]
        BY <1>2 DEF Remember, Goto, locals
    <2>2. caddyfile[u] \in Caddyfiles
        BY <2>1 DEF Turns, Typed, Scanned
    <2>3. ASSUME NEW w \in Updates \ {u}
          PROVE  pc'[w] = pc[w] /\ pc[w] \in {"idle", "wait"}
        BY <1>1, <2>1 DEF Turns, Exclusive, Quiet
    <2>4. pc'[u] \in {"adapt", "spawn"}
        BY <1>1, <2>1
    <2> QED
        BY <2>1, <2>2, <2>3, <2>4 DEF Remembered
<1>3. ASSUME NEW u \in Updates, Compare(u) PROVE Remembered'
    <2>1. /\ pc' = [pc EXCEPT ![u] = "remember"]
          /\ caddyfileChanged' = [caddyfileChanged EXCEPT ![u] = lastCaddyfile # caddyfile[u]]
          /\ UNCHANGED <<lastCaddyfile, caddyfile>>
        BY <1>3 DEF Compare, Goto, shared
    <2>2. pc'[u] = "remember" /\ (~caddyfileChanged'[u] => lastCaddyfile' = caddyfile'[u])
        BY <1>1, <2>1
    <2>3. \A w \in Updates \ {u} : /\ pc'[w] = pc[w]
                                   /\ caddyfileChanged'[w] = caddyfileChanged[w]
        BY <1>1, <2>1
    <2> QED
        BY <2>1, <2>2, <2>3 DEF Remembered
<1>4. ASSUME NEW u \in Updates, NEW x, pc' = [pc EXCEPT ![u] = x],
             \/ x \in {"idle", "generate", "compare"}
             \/ /\ x \in {"load", "increment", "spawn", "wait"}
                /\ pc[u] \in {"adapt", "load", "increment", "spawn"},
             \A w \in Updates \ {u} : UNCHANGED <<caddyfile[w], caddyfileChanged[w]>>,
             lastCaddyfile' = lastCaddyfile
      PROVE  Remembered'
    <2>1. \A w \in Updates \ {u} : pc'[w] = pc[w]
        BY <1>1, <1>4
    <2>2. pc'[u] = x /\ x \notin {"remember", "adapt"}
        BY <1>1, <1>4
    <2>3. x \in {"load", "increment", "spawn", "wait"} => lastCaddyfile \in Caddyfiles
        BY <1>4 DEF Remembered
    <2>4. \A w \in Updates \ {u} :
             UNCHANGED <<pc[w], caddyfile[w], caddyfileChanged[w]>>
        BY <1>4, <2>1
    <2> QED
        BY <1>4, <2>2, <2>3, <2>4 DEF Remembered
<1>5. CASE UNCHANGED <<pc, lastCaddyfile, caddyfile, caddyfileChanged>>
    BY <1>5 DEF Remembered
<1>6. ASSUME NEW u \in Updates, Fire(u) \/ Run(u) PROVE Remembered'
    <2>1. CASE Fire(u) \/ Spawn(u)
        <3>1. UNCHANGED <<lastCaddyfile, caddyfile, caddyfileChanged>>
            BY <2>1 DEF Fire, Spawn, locals, shared
        <3>2. \/ pc' = [pc EXCEPT ![u] = "generate"]
              \/ pc' = [pc EXCEPT ![u] = "wait"] /\ pc[u] = "spawn"
            BY <2>1 DEF Fire, Spawn, Goto
        <3> QED
            BY <1>4, <3>1, <3>2
    <2>2. CASE Generate(u) \/ AdaptFails(u) \/ Wait(u)
        <3>1. \A w \in Updates \ {u} : UNCHANGED <<caddyfile[w], caddyfileChanged[w]>>
            BY <1>1, <2>2 DEF Generate, AdaptFails, Wait, Leave
        <3> QED
            BY <1>4, <2>2, <3>1 DEF Generate, AdaptFails, Wait, Leave, Goto, shared
    <2>3. CASE AdaptSucceeds(u) \/ LoadVersion(u) \/ IncrementVersion(u)
        BY <1>4, <2>3 DEF AdaptSucceeds, LoadVersion, IncrementVersion, Goto, locals, shared
    <2> QED
        BY <1>6, <1>2, <1>3, <2>1, <2>2, <2>3 DEF Run
<1>7. ASSUME NEW p \in Pushes, Push(p) PROVE Remembered'
    BY <1>5, <1>7, PushSteps DEF shared, locals
<1> QED
    BY <1>5, <1>6, <1>7
    DEF Next, Environment, ChangeDocker, Delay, Restart, vars, shared, locals

LEMMA ConvertedInductive ==
    ASSUME Sequential, Turns, Remembered, Converted, [Next]_vars
    PROVE  Converted'
<1>1. /\ pc \in [Updates -> Phases] /\ caddyfileChanged \in [Updates -> BOOLEAN]
    BY DEF Turns, Typed, TypeOK
<1>2. ASSUME NEW u \in Updates, Remember(u) PROVE Converted'
    <2>1. /\ pc[u] = "remember" /\ lastCaddyfile' = caddyfile[u]
          /\ lastJSONConfig' = lastJSONConfig
          /\ pc' = [pc EXCEPT ![u] = IF caddyfileChanged[u] THEN "adapt" ELSE "spawn"]
        BY <1>2 DEF Remember, Goto
    <2>2. CASE caddyfileChanged[u]
        BY <1>1, <2>1, <2>2 DEF Converted
    <2>3. CASE ~caddyfileChanged[u]
        <3>1. lastCaddyfile' = lastCaddyfile
            BY <2>1, <2>3 DEF Remembered
        <3>2. \A w \in Updates : pc'[w] # "adapt" => pc[w] # "adapt"
            BY <1>1, <2>1
        <3> QED
            BY <2>1, <3>1, <3>2 DEF Converted
    <2> QED
        BY <2>2, <2>3
<1>3. ASSUME NEW u \in Updates, AdaptFails(u) PROVE Converted'
    BY <1>3 DEF AdaptFails, Remembered, Converted, shared
<1>4. ASSUME NEW u \in Updates, AdaptSucceeds(u) PROVE Converted'
    BY <1>4 DEF AdaptSucceeds, Remembered, Converted
<1>5. ASSUME UNCHANGED <<lastCaddyfile, lastJSONConfig>>,
             \A w \in Updates : pc[w] = "adapt" => pc'[w] = "adapt"
      PROVE  Converted'
    BY <1>5 DEF Converted
<1>6. ASSUME NEW u \in Updates, pc[u] # "adapt", NEW x, pc' = [pc EXCEPT ![u] = x],
             UNCHANGED <<lastCaddyfile, lastJSONConfig>>
      PROVE  Converted'
    BY <1>1, <1>5, <1>6
<1>7. ASSUME NEW u \in Updates, Fire(u) \/ Run(u) PROVE Converted'
    <2>1. CASE Fire(u) \/ Generate(u) \/ Compare(u)
        BY <1>6, <2>1 DEF Fire, Generate, Compare, Goto, shared
    <2>2. CASE LoadVersion(u) \/ IncrementVersion(u) \/ Spawn(u) \/ Wait(u)
        BY <1>6, <2>2 DEF LoadVersion, IncrementVersion, Spawn, Wait, Leave, Goto, shared
    <2> QED
        BY <1>7, <1>2, <1>3, <1>4, <2>1, <2>2 DEF Run
<1>8. ASSUME NEW p \in Pushes, Push(p) PROVE Converted'
    BY <1>5, <1>8, PushSteps DEF shared
<1> QED
    BY <1>5, <1>7, <1>8
    DEF Next, Environment, ChangeDocker, Delay, Restart, vars, shared

LEMMA CurrentInductive ==
    ASSUME Sequential, Turns, Current, [Next]_vars
    PROVE  Current'
<1>1. /\ step \in [Pushes -> Steps] /\ postBody \in [Pushes -> Numbered]
      /\ late \subseteq Pushes
    BY DEF Turns, Typed, TypeOK
<1>2. CASE \A p \in Pushes : ~Push(p)
    <2>1. ASSUME NEW p \in Pushes \ late', step'[p] \in {"sent", "applied", "publish"}
          PROVE  postBody'[p] = lastJSONConfig'
        <3>1. p \notin late /\ step[p] = step'[p] /\ postBody' = postBody
            BY <1>2, <2>1, OtherSteps DEF FlaggedSteps
        <3>2. ASSUME NEW u \in Updates, AdaptSucceeds(u) PROVE FALSE
            <4>1. pc[p[1]] = "wait" /\ pc[u] = "adapt"
                BY <2>1, <3>1, <3>2 DEF AdaptSucceeds, Turns, PushesAwaited
            <4> QED
                BY <2>1, <3>1, <4>1, Alone DEF Turns, Quiet
        <3> QED
            BY <1>2, <2>1, <3>1, <3>2, OtherSteps DEF Current
    <2> QED
        BY <2>1 DEF Current
<1>3. ASSUME NEW p \in Pushes, Push(p) PROVE Current'
    <2>1. lastJSONConfig' = lastJSONConfig
        BY <1>3, PushSteps DEF shared
    <2>2. ASSUME NEW q \in Pushes \ late', q # p, step'[q] \in {"sent", "applied", "publish"}
          PROVE  postBody'[q] = lastJSONConfig'
        BY <1>3, <2>1, <2>2, PushSteps DEF Current
    <2>3. ASSUME p \notin late', step'[p] \in {"sent", "applied", "publish"}
          PROVE  postBody'[p] = lastJSONConfig'
        <3>1. CASE ReadConfig(p)
            BY <1>1, <2>1, <3>1 DEF ReadConfig
        <3>2. CASE Apply(p) \/ RecordVersion(p)
            BY <2>1, <2>3, <3>2 DEF Apply, RecordVersion, Current, hosts
        <3> QED
            BY <1>1, <1>3, <2>3, <3>1, <3>2
            DEF Push, Deliver, CheckUpdating, SetUpdating, ReadVersion, CompareVersion,
                SendFails, ReplyLost, MaybePublish, ClearUpdating, GotoStep
    <2> QED
        BY <2>2, <2>3 DEF Current
<1> QED
    BY <1>2, <1>3

LEMMA InitTraced == Init => Traced
<1> SUFFICES ASSUME Init PROVE Traced
    OBVIOUS
<1>1. Remembered /\ Current
    BY DEF Init, Remembered, Current
<1>2. Converted
    BY AdaptAssumption DEF Init, Converted
<1> QED
    BY <1>1, <1>2, InitCarried DEF Traced

LEMMA TracedInductive == Sequential /\ Traced /\ [Next]_vars => Traced'
BY CarriedInductive, RememberedInductive, ConvertedInductive, CurrentInductive
DEF Traced, Carried

\* Without overlap and restarts, names of a valid Caddyfile reach the name
\* publisher only when a server runs its configuration, unless an answer is
\* late: MaybePublish reads lastCaddyfile long after the configuration was
\* sent, and no other update has replaced it.
THEOREM PublishedNamesAreServed ==
    ASSUME Sequential
    PROVE  Spec => PublishedIsRunningIfValid
<1> DEFINE Honest ==
        handed' # handed /\ Adapt[handed'.caddyfile] # Invalid /\ late = {} =>
            \E s \in Servers : running[s].config = Adapt[handed'.caddyfile]
<1>1. Traced /\ [Next]_vars => [Honest]_vars
    <2> SUFFICES ASSUME Traced, [Next]_vars, handed' # handed,
                        Adapt[handed'.caddyfile] # Invalid, late = {}
                 PROVE  \E s \in Servers : running[s].config = Adapt[handed'.caddyfile]
        OBVIOUS
    <2> USE DEF Traced, Carried, Turns
    <2>1. PICK p \in Pushes : MaybePublish(p)
        <3>1. ASSUME NEW p \in Pushes, Push(p), ~MaybePublish(p) PROVE handed' = handed
            BY <3>1
            DEF Push, Deliver, CheckUpdating, SetUpdating, ReadVersion, CompareVersion,
                ReadConfig, Apply, SendFails, ReplyLost, RecordVersion, ClearUpdating
        <3> QED
            BY <3>1, OtherSteps
    <2>2. step[p] = "publish" /\ handed'.caddyfile = lastCaddyfile
        BY <2>1 DEF MaybePublish
    <2>3. pc[p[1]] = "wait" /\ p[1] \in Updates
        BY <2>2 DEF PushesAwaited, Pushes
    <2>4. lastCaddyfile \in Caddyfiles
        BY <2>3 DEF Remembered
    <2>5. \A w \in Updates : pc[w] # "adapt"
        BY <2>2, <2>3, Alone DEF Quiet
    <2>6. lastJSONConfig.config = Adapt[lastCaddyfile]
        BY <2>2, <2>4, <2>5 DEF Converted
    <2>7. running[ServerOf(p)] = lastJSONConfig
        BY <2>2 DEF Served, Current
    <2>8. ServerOf(p) \in Servers
        BY <2>2, GoesToServer
    <2> QED
        BY <2>2, <2>6, <2>7, <2>8
<1> QED
    BY <1>1, InitTraced, TracedInductive, PTL DEF Spec, PublishedIsRunningIfValid

-----------------------------------------------------------------------------
(* The refinement.                                                         *)

LEMMA StepRefines ==
    ASSUME Sequential, Carried, [Next]_vars
    PROVE  [Promise!Next]_(Promise!vars)
<1> DEFINE silent == {s \in Servers : \E p \in late : ServerOf(p) = s}
<1> USE DEF Carried, Turns
<1>1. CASE UNCHANGED <<lastJSONConfig, running>>
    <2>1. silent' \subseteq Servers
        OBVIOUS
    <2>2. Promise!Silence
        BY <1>1, <2>1 DEF Promise!Silence
    <2> QED
        BY <2>2 DEF Promise!Next
<1>2. ASSUME NEW u \in Updates, AdaptSucceeds(u) PROVE Promise!Generated
    <2>1. caddyfile[u] \in Caddyfiles
        BY <1>2 DEF AdaptSucceeds, Typed, Scanned
    <2>2. Adapt[caddyfile[u]] \in Configs
        BY <1>2, <2>1, AdaptAssumption DEF AdaptSucceeds
    <2>3. lastJSONConfig' = [config |-> Adapt[caddyfile[u]],
                             commit |-> lastJSONConfig.commit + 1]
        BY <1>2 DEF AdaptSucceeds, Committed
    <2>4. UNCHANGED <<running, silent>>
        BY <1>2 DEF AdaptSucceeds, hosts, locals, ServerOf
    <2> QED
        BY <2>2, <2>3, <2>4 DEF Promise!Generated
<1>3. ASSUME NEW p \in Pushes, Apply(p) PROVE \E s \in Servers : Promise!Load(s)
    <2>1. /\ step[p] = "sent"
          /\ running' = [running EXCEPT ![ServerOf(p)] = postBody[p]]
        BY <1>3 DEF Apply
    <2>2. ServerOf(p) \in Servers
        BY <2>1, GoesToServer
    <2>3. /\ running \in [Servers -> Numbered] /\ postBody[p] \in Numbered
          /\ commits \in Nat
        BY DEF Typed, TypeOK
    <2>4. running'[ServerOf(p)] = postBody[p]
        BY <2>1, <2>2, <2>3
    <2>5. postBody[p].commit \in running[ServerOf(p)].commit .. lastJSONConfig.commit
        BY <2>1, <2>2, <2>3 DEF Forward, Written, Committed, Numbered
    <2>6. /\ postBody[p].config \in Configs
          /\ postBody[p].commit = lastJSONConfig.commit => postBody[p] = lastJSONConfig
        BY <2>1 DEF BodyAsNewAsVersion, Forward, Committed
    <2>7. UNCHANGED <<lastJSONConfig, silent>>
        BY <1>3 DEF Apply, shared, locals, ServerOf
    <2>8. Promise!Load(ServerOf(p))
        BY <2>1, <2>4, <2>5, <2>6, <2>7 DEF Promise!Load
    <2> QED
        BY <2>2, <2>8
<1>4. ASSUME NEW p \in Pushes, Push(p), ~Apply(p)
      PROVE  UNCHANGED <<lastJSONConfig, running>>
    BY <1>4
    DEF Push, Deliver, CheckUpdating, SetUpdating, ReadVersion, CompareVersion,
        ReadConfig, SendFails, ReplyLost, RecordVersion, MaybePublish,
        ClearUpdating, hosts, shared
<1> QED
    BY <1>1, <1>2, <1>3, <1>4, OtherSteps DEF Promise!Next

\* Without overlap and restarts, the loader implements the rollout: every
\* server goes from one generated configuration to a newer one and never back,
\* whatever requests and answers are lost or late.
THEOREM LoaderImplementsRollout ==
    ASSUME Sequential
    PROVE  Spec => ImplementsRollout
<1>1. Init => Promise!Init
    BY DEF Init, NoConfig, Promise!Init
<1>2. Carried /\ [Next]_vars => [Promise!Next]_(Promise!vars)
    BY StepRefines
<1> QED
    BY <1>1, <1>2, InitCarried, CarriedInductive, PTL
    DEF Spec, ImplementsRollout, Promise!Spec

-----------------------------------------------------------------------------
(***************************************************************************)
(* The loader together with the manager of name publication, for every     *)
(* schedule and every number of publications.                              *)
(***************************************************************************)

\* A server is behind the version it is sent, so that version is never the
\* zero of a controller that has generated nothing yet.
VersionsCounted ==
    \A p \in Pushes :
        step[p] \in {"body", "sent", "applied", "publish"} => version[p] \in Nat \ {0}

\* What the goroutines of publish() are started with.
Started == [version : Nat \ {0},
            names   : {Manager!NamesOf(c) : c \in Caddyfiles \cup {Nothing}} \ {{}},
            called  : 0 .. Len(Manager!BuildPublishers)]

\* What the manager remembers: the newest of them.
NewestOf(list) == IF list = <<>> THEN [version |-> 0, names |-> {}]
                  ELSE [version |-> list[Len(list)].version,
                        names   |-> list[Len(list)].names]

ManagerInv ==
    /\ publications \in Seq(Started)
    /\ remembered = NewestOf(publications)
    /\ Manager!BuildPublishers # BadOptions

LEMMA PublishersCounted ==
    Manager!BuildPublishers # BadOptions => Len(Manager!BuildPublishers) \in Nat
<1> SUFFICES ASSUME Manager!BuildPublishers # BadOptions
             PROVE  Len(Manager!BuildPublishers) \in Nat
    OBVIOUS
<1> DEFINE first  == IF Options.technitium = "on" THEN <<"technitium">> ELSE <<>>
           second == IF Options.avahi THEN <<"avahi">> ELSE <<>>
<1>1. first \in Seq({"technitium", "avahi"}) /\ second \in Seq({"technitium", "avahi"})
    <2>1. <<>> \in Seq({"technitium", "avahi"})
        OBVIOUS
    <2>2. /\ <<"technitium">> \in Seq({"technitium", "avahi"})
          /\ <<"avahi">> \in Seq({"technitium", "avahi"})
        OBVIOUS
    <2> QED
        BY <2>1, <2>2, Zenon
<1>2. first \o second \in Seq({"technitium", "avahi"})
    BY <1>1
<1>3. Manager!BuildPublishers \in {<<>>, first \o second}
    BY DEF Manager!BuildPublishers
<1> HIDE DEF first, second
<1> QED
    BY <1>2, <1>3

-----------------------------------------------------------------------------
(* The loader's part.                                                      *)

LEMMA VersionsCountedInductive ==
    Typed /\ Slotted /\ VersionsCounted /\ [Next]_vars => VersionsCounted'
<1> SUFFICES ASSUME Typed, Slotted, VersionsCounted, [Next]_vars
             PROVE  VersionsCounted'
    OBVIOUS
<1> DEFINE Behind == {"body", "sent", "applied", "publish"}
<1>1. /\ step \in [Pushes -> Steps] /\ version \in [Pushes -> Nat]
      /\ serversVersions \in [Servers -> Nat]
    BY DEF Typed, TypeOK
<1>2. ASSUME version' = version,
             \A p \in Pushes : step'[p] \in Behind => step[p] \in Behind
      PROVE  VersionsCounted'
    BY <1>2 DEF VersionsCounted
<1>3. ASSUME NEW p \in Pushes, NEW x, step' = [step EXCEPT ![p] = x],
             x \in Behind => step[p] \in Behind, version' = version
      PROVE  VersionsCounted'
    <2>1. \A q \in Pushes : step'[q] \in Behind => step[q] \in Behind
        BY <1>1, <1>3
    <2> QED
        BY <1>2, <1>3, <2>1
<1>4. ASSUME NEW p \in Pushes, NEW x, step' = [step EXCEPT ![p] = x], x \notin Behind,
             \A q \in Pushes \ {p} : version'[q] = version[q]
      PROVE  VersionsCounted'
    BY <1>1, <1>4 DEF VersionsCounted
<1>5. ASSUME NEW p \in Pushes, CompareVersion(p) PROVE VersionsCounted'
    <2>1. ServerOf(p) \in Servers
        BY <1>5, GoesToServer DEF CompareVersion
    <2>2. serversVersions[ServerOf(p)] \in Nat /\ version[p] \in Nat
        BY <1>1, <2>1
    <2>3. serversVersions[ServerOf(p)] >= version[p] \/ version[p] \in Nat \ {0}
        BY <2>2
    <2> QED
        BY <1>1, <1>5, <2>3 DEF CompareVersion, GotoStep, pushing, VersionsCounted
<1>6. ASSUME NEW u \in Updates, Fire(u) \/ Run(u) PROVE VersionsCounted'
    BY <1>2, <1>6
    DEF Fire, Run, Generate, Compare, Remember, AdaptFails, AdaptSucceeds,
        LoadVersion, IncrementVersion, Spawn, Wait, pushing
<1>7. ASSUME NEW p \in Pushes, Push(p) PROVE VersionsCounted'
    <2>1. CASE CheckUpdating(p) \/ SetUpdating(p) \/ ReadConfig(p)
        BY <1>3, <2>1 DEF CheckUpdating, SetUpdating, ReadConfig, GotoStep
    <2>2. CASE Apply(p) \/ SendFails(p) \/ ReplyLost(p)
        BY <1>3, <2>2 DEF Apply, SendFails, ReplyLost, GotoStep
    <2>3. CASE RecordVersion(p) \/ MaybePublish(p)
        BY <1>3, <2>3 DEF RecordVersion, MaybePublish, GotoStep
    <2>4. CASE ReadVersion(p) \/ ClearUpdating(p)
        <3>1. \A q \in Pushes \ {p} : version'[q] = version[q]
            BY <1>1, <2>4 DEF ReadVersion, ClearUpdating
        <3> QED
            BY <1>4, <2>4, <3>1 DEF ReadVersion, ClearUpdating, GotoStep
    <2> QED
        BY <1>5, <1>7, <2>1, <2>2, <2>3, <2>4 DEF Push, Deliver
<1> QED
    BY <1>2, <1>6, <1>7
    DEF Next, Environment, ChangeDocker, Delay, Restart, vars, pushing

\* With the manager, the loader takes the steps it takes alone.
LEMMA LoaderSteps == [PublicationNext]_allVars => [Next]_vars
    BY DEF PublicationNext, Publish, Continue, Next, Push, allVars

LoaderInv == Typed /\ PushesAwaited /\ Slotted /\ VersionsCounted

LEMMA LoaderInvInductive == LoaderInv /\ [PublicationNext]_allVars => LoaderInv'
    BY LoaderSteps, TypedInductive, AwaitedInductive, SlottedInductive,
       VersionsCountedInductive DEF LoaderInv, Typed

-----------------------------------------------------------------------------
(* The manager's part.                                                     *)

\* MaybePublish starts a publication for the version and Caddyfile it is given.
LEMMA StartedByCall ==
    ASSUME ManagerInv, NEW v \in Nat \ {0}, NEW c \in Caddyfiles \cup {Nothing},
           Manager!MaybePublish(v, c)
    PROVE  ManagerInv'
<1> DEFINE new == [version |-> v, names |-> Manager!NamesOf(c), called |-> 0]
<1>1. CASE UNCHANGED <<remembered, publications>>
    BY <1>1 DEF ManagerInv
<1>2. CASE /\ Manager!NamesOf(c) # {}
           /\ remembered' = [version |-> v, names |-> Manager!NamesOf(c)]
           /\ publications' = Append(publications, new)
    <2>1. 0 \in 0 .. Len(Manager!BuildPublishers)
        BY PublishersCounted DEF ManagerInv
    <2>2. new \in Started
        BY <1>2, <2>1 DEF Started
    <2>3. publications \in Seq(Started)
        BY DEF ManagerInv
    <2> HIDE DEF new
    <2>4. /\ publications' \in Seq(Started) /\ publications' # <<>>
          /\ publications'[Len(publications')] = new
        BY <1>2, <2>2, <2>3
    <2>5. remembered' = NewestOf(publications')
        BY <1>2, <2>4 DEF NewestOf, new
    <2> QED
        BY <2>4, <2>5 DEF ManagerInv, Manager!BuildPublishers
<1> QED
    BY <1>1, <1>2 DEF Manager!MaybePublish

\* A publication that goes on calls the next publisher, if there is one.
LEMMA ContinuedByPublish ==
    ASSUME ManagerInv, NEW k \in DOMAIN publications, Manager!Publish(k)
    PROVE  ManagerInv'
<1>1. /\ publications \in Seq(Started) /\ k \in 1 .. Len(publications)
      /\ publications[k].called < Len(Manager!BuildPublishers)
      /\ publications' = [publications EXCEPT ![k].called = @ + 1]
      /\ remembered' = remembered
    BY DEF ManagerInv, Manager!Publish
<1>2. publications[k] \in Started
    BY <1>1
<1>3. Len(Manager!BuildPublishers) \in Nat
    BY PublishersCounted DEF ManagerInv
<1>4. publications[k].called + 1 \in 0 .. Len(Manager!BuildPublishers)
    <2>1. publications[k].called \in 0 .. Len(Manager!BuildPublishers)
        BY <1>2 DEF Started
    <2> QED
        BY <1>1, <1>3, <2>1
<1>5. [publications[k] EXCEPT !.called = @ + 1] \in Started
    BY <1>2, <1>4 DEF Started
<1>6. publications' = [publications EXCEPT ![k] =
                           [publications[k] EXCEPT !.called = @ + 1]]
    BY <1>1
<1>7. /\ publications' \in Seq(Started)
      /\ Len(publications') = Len(publications)
    BY <1>1, <1>5, <1>6
<1>8. \A i \in DOMAIN publications : /\ publications'[i].version = publications[i].version
                                     /\ publications'[i].names = publications[i].names
    BY <1>1, <1>2, <1>6 DEF Started
<1>9. NewestOf(publications') = NewestOf(publications)
    <2>1. publications # <<>> /\ publications' # <<>>
        BY <1>1, <1>7
    <2>2. Len(publications) \in DOMAIN publications
        BY <1>1
    <2> QED
        BY <1>7, <1>8, <2>1, <2>2 DEF NewestOf
<1> QED
    BY <1>1, <1>7, <1>9 DEF ManagerInv, Manager!BuildPublishers

\* In every schedule the manager starts publications only for versions that
\* have been generated and for names that there are, remembers the newest one,
\* and calls each publisher once for each (Manager.MaybePublish, publish).
THEOREM ManagerRemembersNewest == PublicationSpec => []ManagerTypeOK
<1> DEFINE IInv == LoaderInv /\ ManagerInv
<1>1. PublicationInit => IInv
    <2> SUFFICES ASSUME PublicationInit PROVE IInv
        OBVIOUS
    <2>1. Init
        BY DEF PublicationInit
    <2>2. Typed /\ PushesAwaited /\ Slotted /\ VersionsCounted
        BY <2>1, InitTyped DEF Init, PushesAwaited, Slotted, VersionsCounted
    <2>3. ManagerInv
        BY DEF PublicationInit, Manager!Init, ManagerInv, NewestOf
    <2> QED
        BY <2>2, <2>3 DEF LoaderInv
<1>2. IInv /\ [PublicationNext]_allVars => IInv'
    <2> SUFFICES ASSUME LoaderInv, ManagerInv, [PublicationNext]_allVars
                 PROVE  LoaderInv' /\ ManagerInv'
        OBVIOUS
    <2>1. LoaderInv'
        BY LoaderInvInductive
    <2>2. ASSUME NEW p \in Pushes, Publish(p) PROVE ManagerInv'
        <3>1. version[p] \in Nat \ {0} /\ lastCaddyfile \in Caddyfiles \cup {Nothing}
            BY <2>2 DEF Publish, MaybePublish, LoaderInv, VersionsCounted, Typed, TypeOK
        <3> QED
            BY <2>2, <3>1, StartedByCall DEF Publish
    <2>3. ASSUME NEW k \in DOMAIN publications, Continue(k) PROVE ManagerInv'
        BY <2>3, ContinuedByPublish DEF Continue
    <2>4. ASSUME UNCHANGED manager PROVE ManagerInv'
        BY <2>4 DEF manager, ManagerInv, Manager!BuildPublishers
    <2>5. \/ \E p \in Pushes : Publish(p)
          \/ \E k \in DOMAIN publications : Continue(k)
          \/ UNCHANGED manager
        BY DEF PublicationNext, allVars
    <2>6. ManagerInv'
        BY <2>2, <2>3, <2>4, <2>5
    <2> QED
        BY <2>1, <2>6
<1>3. IInv => ManagerTypeOK
    <2> SUFFICES ASSUME ManagerInv PROVE ManagerTypeOK
        OBVIOUS
    <2>1. \A k \in DOMAIN publications : publications[k] \in Started
        BY DEF ManagerInv
    <2>2. ASSUME NEW k \in DOMAIN publications
          PROVE  /\ publications[k].version \in Nat \ {0}
                 /\ publications[k].names # {}
                 /\ publications[k].called \in 0 .. Len(Manager!BuildPublishers)
        BY <2>1 DEF Started
    <2> QED
        BY <2>2 DEF ManagerInv, ManagerTypeOK, NewestOf
<1> QED
    BY <1>1, <1>2, <1>3, PTL DEF PublicationSpec
=============================================================================
