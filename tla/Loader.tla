------------------------------- MODULE Loader -------------------------------
(***************************************************************************)
(* How the DockerLoader turns a scan of Docker into the configuration of   *)
(* the controlled Caddy servers (update and updateServer of loader.go).    *)
(*                                                                         *)
(* Every expiry of the timer runs update() in a goroutine of its own, and  *)
(* each update starts one updateServer() goroutine per controlled server   *)
(* and waits for them.  They share lastCaddyfile, lastJSONConfig and       *)
(* lastVersion without a lock, and the two concurrent maps serversVersions *)
(* and serversUpdating, whose Get, Set and Delete are atomic one by one.   *)
(* Each access to one of these is a step of its own here.                  *)
(*                                                                         *)
(* When the timer expires is the subject of module DockerEvents, the file  *)
(* the Caddyfile is saved to that of module Autosave.  Docker and the      *)
(* servers are external: Docker is the Caddyfile that a scan of it would   *)
(* generate, a server is the configuration it runs.                        *)
(***************************************************************************)
EXTENDS Integers, Sequences, FiniteSets

CONSTANTS
    Servers,          \* addresses of controlled servers
    Updates,          \* goroutines that can run update()
    Caddyfiles,       \* what GenerateCaddyfile can return
    Configs,          \* JSON configurations
    Invalid,          \* the Caddyfile adapter's error
    Nothing,          \* a nil lastCaddyfile or lastJSONConfig
    Adapt,            \* what the Caddyfile adapter returns for a Caddyfile
    ControlledLists,  \* the lists of servers that a scan can find
    NumSlots,         \* bound: length of these lists
    OverlapPhases,    \* phases in which an update may be when another starts
    MaxChanges,       \* bound: changes of Docker
    MaxRestarts,      \* bound: restarts of servers
    MaxLate           \* bound: late requests at one time

\* Two sockets of one swarm report each server twice, so lists have repetitions.
ASSUME ListsAssumption ==
    /\ NumSlots \in Nat
    /\ \A l \in ControlledLists : /\ l \in Seq(Servers)
                                  /\ Len(l) <= NumSlots
ASSUME AdaptAssumption ==
    /\ Adapt \in [Caddyfiles -> Configs \cup {Invalid}]
    /\ Invalid \notin Configs
    /\ Nothing \notin Configs \cup Caddyfiles
ASSUME UpdatesAssumption == IsFiniteSet(Updates)
ASSUME BoundsAssumption ==
    /\ MaxChanges \in Nat
    /\ MaxRestarts \in Nat
    /\ MaxLate \in Nat

VARIABLES
    desired,            \* external: the Caddyfile a scan of Docker generates
    changes,            \* how often desired has changed
    running,            \* external: the configuration of each server
    restarts,           \* how often a server has restarted
    late,               \* requests that a server keeps longer than a poll
    lastCaddyfile,      \* dockerLoader.lastCaddyfile
    lastJSONConfig,     \* dockerLoader.lastJSONConfig, numbered (see commits)
    lastVersion,        \* dockerLoader.lastVersion
    commits,            \* ghost: how often lastJSONConfig has been written
    serversVersions,    \* dockerLoader.serversVersions
    serversUpdating,    \* dockerLoader.serversUpdating
    handed,             \* arguments of the newest call of MaybePublish
    pc,                 \* where each update() goroutine is
    caddyfile,          \* its local variables: caddyfile,
    controlledServers,  \*     controlledServers,
    caddyfileChanged,   \*     caddyfileChanged,
    loaded,             \*     and the operand of lastVersion++
    step,               \* where each updateServer() goroutine is
    version,            \* its local variables: version
    postBody            \*     and postBody

docker  == <<desired, changes>>
hosts   == <<running, restarts, late>>
shared  == <<lastCaddyfile, lastJSONConfig, lastVersion, commits>>
maps    == <<serversVersions, serversUpdating>>
locals  == <<caddyfile, controlledServers, caddyfileChanged, loaded>>
pushing == <<step, version, postBody>>
vars    == <<docker, hosts, shared, maps, handed, pc, locals, pushing>>

\* An updateServer() goroutine is known by its update and its place in the
\* list of servers of that update.
Pushes      == Updates \X (1 .. NumSlots)
ServerOf(p) == controlledServers[p[1]][p[2]]

\* A configuration with the number of the write that made it the current one.
NoConfig     == [config |-> Nothing, commit |-> 0]
Numbered     == [config : Configs \cup {Nothing}, commit : Nat]

Phases == {"idle", "generate", "compare", "remember", "adapt", "load",
           "increment", "spawn", "wait"}

\* The steps of updateServer() after it has set serversUpdating.
FlaggedSteps == {"version", "compare", "body", "sent", "applied", "publish",
                 "unflag"}
Steps        == {"none", "check", "flag"} \cup FlaggedSteps

TypeOK ==
    /\ desired \in Caddyfiles
    /\ changes \in Nat
    /\ running \in [Servers -> Numbered]
    /\ restarts \in Nat
    /\ late \subseteq Pushes
    /\ lastCaddyfile \in Caddyfiles \cup {Nothing}
    /\ lastJSONConfig \in Numbered
    /\ lastVersion \in Nat
    /\ commits \in Nat
    /\ serversVersions \in [Servers -> Nat]
    /\ serversUpdating \in [Servers -> BOOLEAN]
    /\ handed \in [version : Nat, caddyfile : Caddyfiles \cup {Nothing}]
    /\ pc \in [Updates -> Phases]
    /\ caddyfile \in [Updates -> Caddyfiles \cup {Nothing}]
    /\ controlledServers \in [Updates -> ControlledLists \cup {<<>>}]
    /\ caddyfileChanged \in [Updates -> BOOLEAN]
    /\ loaded \in [Updates -> Nat]
    /\ step \in [Pushes -> Steps]
    /\ version \in [Pushes -> Nat]
    /\ postBody \in [Pushes -> Numbered]

\* A controller that has just started, and servers that have no configuration.
Init ==
    /\ desired \in Caddyfiles
    /\ changes = 0
    /\ running = [s \in Servers |-> NoConfig]
    /\ restarts = 0
    /\ late = {}
    /\ lastCaddyfile = Nothing
    /\ lastJSONConfig = NoConfig
    /\ lastVersion = 0
    /\ commits = 0
    /\ serversVersions = [s \in Servers |-> 0]
    /\ serversUpdating = [s \in Servers |-> FALSE]
    /\ handed = [version |-> 0, caddyfile |-> Nothing]
    /\ pc = [u \in Updates |-> "idle"]
    /\ caddyfile = [u \in Updates |-> Nothing]
    /\ controlledServers = [u \in Updates |-> <<>>]
    /\ caddyfileChanged = [u \in Updates |-> FALSE]
    /\ loaded = [u \in Updates |-> 0]
    /\ step = [p \in Pushes |-> "none"]
    /\ version = [p \in Pushes |-> 0]
    /\ postBody = [p \in Pushes |-> NoConfig]

-----------------------------------------------------------------------------
(* update()                                                                *)

Goto(u, phase) == pc' = [pc EXCEPT ![u] = phase]

\* An update that waits for late requests only.
Stuck(u) ==
    /\ pc[u] = "wait"
    /\ \E k \in 1 .. NumSlots : <<u, k>> \in late
    /\ \A k \in 1 .. NumSlots : step[<<u, k>>] = "none" \/ <<u, k>> \in late

\* A mutant of Fire: the timer is armed again when update returns.
FireAfterUpdate(u) ==
    /\ pc[u] = "idle"
    /\ \A w \in Updates : pc[w] \in OverlapPhases \cup {"idle"}
    /\ Goto(u, "generate")
    /\ UNCHANGED <<docker, hosts, shared, maps, handed, locals, pushing>>

\* The timer, which update() arms first of all, expires.  OverlapPhases says
\* how far the other updates must be; the timer does not wait for late requests.
Fire(u) ==
    /\ pc[u] = "idle"
    /\ \A w \in Updates : pc[w] \in OverlapPhases \cup {"idle"} \/ Stuck(w)
    /\ Goto(u, "generate")
    /\ UNCHANGED <<docker, hosts, shared, maps, handed, locals, pushing>>

\* GenerateCaddyfile(log)
Generate(u) ==
    /\ pc[u] = "generate"
    /\ caddyfile' = [caddyfile EXCEPT ![u] = desired]
    /\ \E l \in ControlledLists :
           controlledServers' = [controlledServers EXCEPT ![u] = l]
    /\ Goto(u, "compare")
    /\ UNCHANGED <<docker, hosts, shared, maps, handed, caddyfileChanged,
                   loaded, pushing>>

\* caddyfileChanged := !bytes.Equal(lastCaddyfile, caddyfile)
Compare(u) ==
    /\ pc[u] = "compare"
    /\ caddyfileChanged' =
           [caddyfileChanged EXCEPT ![u] = lastCaddyfile # caddyfile[u]]
    /\ Goto(u, "remember")
    /\ UNCHANGED <<docker, hosts, shared, maps, handed, caddyfile,
                   controlledServers, loaded, pushing>>

\* lastCaddyfile = caddyfile, before it is known to be valid.
Remember(u) ==
    /\ pc[u] = "remember"
    /\ lastCaddyfile' = caddyfile[u]
    /\ Goto(u, IF caddyfileChanged[u] THEN "adapt" ELSE "spawn")
    /\ UNCHANGED <<docker, hosts, lastJSONConfig, lastVersion, commits, maps,
                   handed, locals, pushing>>

\* Back to the timer, with the local variables gone (but for the list of
\* servers, by which its goroutines are known).
Leave(u) ==
    /\ Goto(u, "idle")
    /\ caddyfile' = [caddyfile EXCEPT ![u] = Nothing]
    /\ caddyfileChanged' = [caddyfileChanged EXCEPT ![u] = FALSE]
    /\ loaded' = [loaded EXCEPT ![u] = 0]
    /\ UNCHANGED controlledServers

\* adapter.Adapt fails: update returns false, the servers are not visited.
AdaptFails(u) ==
    /\ pc[u] = "adapt"
    /\ Adapt[caddyfile[u]] = Invalid
    /\ Leave(u)
    /\ UNCHANGED <<docker, hosts, shared, maps, handed, pushing>>

\* A mutant of AdaptSucceeds (and what follows): the version is raised first.
AdaptAfterIncrement(u) ==
    /\ pc[u] = "adapt"
    /\ Adapt[caddyfile[u]] # Invalid
    /\ IF loaded[u] = 0
       THEN /\ lastVersion' = lastVersion + 1
            /\ loaded' = [loaded EXCEPT ![u] = lastVersion + 1]
            /\ UNCHANGED <<lastJSONConfig, commits, pc>>
       ELSE /\ lastJSONConfig' = [config |-> Adapt[caddyfile[u]],
                                  commit |-> commits + 1]
            /\ commits' = commits + 1
            /\ Goto(u, "spawn")
            /\ UNCHANGED <<lastVersion, loaded>>
    /\ UNCHANGED <<docker, hosts, lastCaddyfile, maps, handed, caddyfile,
                   controlledServers, caddyfileChanged, pushing>>

\* adapter.Adapt succeeds: lastJSONConfig = configJSON
AdaptSucceeds(u) ==
    /\ pc[u] = "adapt"
    /\ Adapt[caddyfile[u]] # Invalid
    /\ commits' = commits + 1
    /\ lastJSONConfig' = [config |-> Adapt[caddyfile[u]], commit |-> commits']
    /\ Goto(u, "load")
    /\ UNCHANGED <<docker, hosts, lastCaddyfile, lastVersion, maps, handed,
                   locals, pushing>>

\* A mutant of LoadVersion: off by one.
LoadVersionLow(u) ==
    /\ pc[u] = "load"
    /\ loaded' = [loaded EXCEPT ![u] = lastVersion - 1]
    /\ Goto(u, "increment")
    /\ UNCHANGED <<docker, hosts, shared, maps, handed, caddyfile,
                   controlledServers, caddyfileChanged, pushing>>

\* lastVersion++ is a load and a store, and nothing orders those of two updates.
LoadVersion(u) ==
    /\ pc[u] = "load"
    /\ loaded' = [loaded EXCEPT ![u] = lastVersion]
    /\ Goto(u, "increment")
    /\ UNCHANGED <<docker, hosts, shared, maps, handed, caddyfile,
                   controlledServers, caddyfileChanged, pushing>>

IncrementVersion(u) ==
    /\ pc[u] = "increment"
    /\ lastVersion' = loaded[u] + 1
    /\ Goto(u, "spawn")
    /\ UNCHANGED <<docker, hosts, lastCaddyfile, lastJSONConfig, commits, maps,
                   handed, locals, pushing>>

\* A mutant of Spawn: servers are not visited while the Caddyfile is invalid.
SpawnIfValid(u) ==
    /\ pc[u] = "spawn"
    /\ step' = [p \in Pushes |->
                  IF /\ p[1] = u /\ p[2] <= Len(controlledServers[u])
                     /\ Adapt[caddyfile[u]] # Invalid
                  THEN "check" ELSE step[p]]
    /\ Goto(u, "wait")
    /\ UNCHANGED <<docker, hosts, shared, maps, handed, locals, version,
                   postBody>>

\* go dockerLoader.updateServer(&wg, server), for every controlled server.
Spawn(u) ==
    /\ pc[u] = "spawn"
    /\ step' = [p \in Pushes |->
                  IF p[1] = u /\ p[2] <= Len(controlledServers[u])
                  THEN "check" ELSE step[p]]
    /\ Goto(u, "wait")
    /\ UNCHANGED <<docker, hosts, shared, maps, handed, locals, version,
                   postBody>>

\* A mutant of Wait: update does not wait for its goroutines.
WaitNot(u) ==
    /\ pc[u] = "wait"
    /\ Goto(u, "idle")
    /\ UNCHANGED <<docker, hosts, shared, maps, handed, locals, pushing>>

\* wg.Wait()
Wait(u) ==
    /\ pc[u] = "wait"
    /\ \A k \in 1 .. NumSlots : step[<<u, k>>] = "none"
    /\ Leave(u)
    /\ UNCHANGED <<docker, hosts, shared, maps, handed, pushing>>

-----------------------------------------------------------------------------
(* updateServer()                                                          *)

GotoStep(p, s) == step' = [step EXCEPT ![p] = s]

\* if serversUpdating.Get(server) { return }
CheckUpdating(p) ==
    /\ step[p] = "check"
    /\ GotoStep(p, IF serversUpdating[ServerOf(p)] THEN "none" ELSE "flag")
    /\ UNCHANGED <<docker, hosts, shared, maps, handed, pc, locals, version,
                   postBody>>

\* serversUpdating.Set(server, true)
SetUpdating(p) ==
    /\ step[p] = "flag"
    /\ serversUpdating' = [serversUpdating EXCEPT ![ServerOf(p)] = TRUE]
    /\ GotoStep(p, "version")
    /\ UNCHANGED <<docker, hosts, shared, serversVersions, handed, pc, locals,
                   version, postBody>>

\* version := dockerLoader.lastVersion
ReadVersion(p) ==
    /\ step[p] = "version"
    /\ version' = [version EXCEPT ![p] = lastVersion]
    /\ GotoStep(p, "compare")
    /\ UNCHANGED <<docker, hosts, shared, maps, handed, pc, locals, postBody>>

\* if serversVersions.Get(server) >= version { return }
CompareVersion(p) ==
    /\ step[p] = "compare"
    /\ GotoStep(p, IF serversVersions[ServerOf(p)] >= version[p]
                   THEN "unflag" ELSE "body")
    /\ UNCHANGED <<docker, hosts, shared, maps, handed, pc, locals, version,
                   postBody>>

\* addAdminListen(lastJSONConfig, ...), which fails when there is none yet, and
\* the request that carries the result.
ReadConfig(p) ==
    /\ step[p] = "body"
    /\ postBody' = [postBody EXCEPT ![p] = lastJSONConfig]
    /\ GotoStep(p, IF lastJSONConfig = NoConfig THEN "unflag" ELSE "sent")
    /\ UNCHANGED <<docker, hosts, shared, maps, handed, pc, locals, version>>

\* The server loads the configuration.
Apply(p) ==
    /\ step[p] = "sent"
    /\ running' = [running EXCEPT ![ServerOf(p)] = postBody[p]]
    /\ GotoStep(p, "applied")
    /\ UNCHANGED <<docker, restarts, late, shared, maps, handed, pc, locals,
                   version, postBody>>

\* A mutant of SendFails: the version is recorded in spite of the error.
SendFailsRecorded(p) ==
    /\ step[p] = "sent"
    /\ serversVersions' = [serversVersions EXCEPT ![ServerOf(p)] = version[p]]
    /\ GotoStep(p, "unflag")
    /\ UNCHANGED <<docker, hosts, shared, serversUpdating, handed, pc, locals,
                   version, postBody>>

\* A mutant of SendFails: the error path returns without the deferred Delete.
SendFailsFlagged(p) ==
    /\ step[p] = "sent"
    /\ GotoStep(p, "none")
    /\ UNCHANGED <<docker, hosts, shared, maps, handed, pc, locals, version,
                   postBody>>

\* A mutant of SendFails: names are published in spite of the error.
SendFailsPublished(p) ==
    /\ step[p] = "sent"
    /\ GotoStep(p, "publish")
    /\ UNCHANGED <<docker, hosts, shared, maps, handed, pc, locals, version,
                   postBody>>

\* The request does not reach the server, or the server refuses the
\* configuration (StatusCode != 200).
SendFails(p) ==
    /\ step[p] = "sent"
    /\ GotoStep(p, "unflag")
    /\ UNCHANGED <<docker, hosts, shared, maps, handed, pc, locals, version,
                   postBody>>

\* The response is lost after the server has loaded the configuration.
ReplyLost(p) ==
    /\ step[p] = "applied"
    /\ GotoStep(p, "unflag")
    /\ UNCHANGED <<docker, hosts, shared, maps, handed, pc, locals, version,
                   postBody>>

\* serversVersions.Set(server, version)
RecordVersion(p) ==
    /\ step[p] = "applied"
    /\ serversVersions' = [serversVersions EXCEPT ![ServerOf(p)] = version[p]]
    /\ GotoStep(p, "publish")
    /\ UNCHANGED <<docker, hosts, shared, serversUpdating, handed, pc, locals,
                   version, postBody>>

\* namePublishMgr.MaybePublish(version, lastCaddyfile)
MaybePublish(p) ==
    /\ step[p] = "publish"
    /\ handed' = [version |-> version[p], caddyfile |-> lastCaddyfile]
    /\ GotoStep(p, "unflag")
    /\ UNCHANGED <<docker, hosts, shared, maps, pc, locals, version, postBody>>

\* The deferred serversUpdating.Delete(server) and wg.Done().
ClearUpdating(p) ==
    /\ step[p] = "unflag"
    /\ serversUpdating' = [serversUpdating EXCEPT ![ServerOf(p)] = FALSE]
    /\ step' = [step EXCEPT ![p] = "none"]
    /\ version' = [version EXCEPT ![p] = 0]
    /\ postBody' = [postBody EXCEPT ![p] = NoConfig]
    /\ late' = late \ {p}
    /\ UNCHANGED <<docker, running, restarts, shared, serversVersions, handed,
                   pc, locals>>

-----------------------------------------------------------------------------
(* The environment.                                                        *)

\* Docker changes, so that a scan generates another Caddyfile.
ChangeDocker ==
    /\ changes < MaxChanges
    /\ changes' = changes + 1
    /\ \E c \in Caddyfiles \ {desired} : desired' = c
    /\ UNCHANGED <<hosts, shared, maps, handed, pc, locals, pushing>>

\* A server takes longer than a poll to load a configuration or to answer, or
\* does not answer at all: http.DefaultClient has no timeout.
Delay(p) ==
    /\ step[p] \in {"sent", "applied"}
    /\ Cardinality(late) < MaxLate
    /\ late' = late \cup {p}
    /\ UNCHANGED <<docker, running, restarts, shared, maps, handed, pc, locals,
                   pushing>>

\* A server restarts at the same address; it starts without configuration.
Restart(s) ==
    /\ restarts < MaxRestarts
    /\ restarts' = restarts + 1
    /\ running' = [running EXCEPT ![s] = NoConfig]
    /\ UNCHANGED <<docker, late, shared, maps, handed, pc, locals, pushing>>

-----------------------------------------------------------------------------
Run(u) == \/ Generate(u) \/ Compare(u) \/ Remember(u)
          \/ AdaptFails(u) \/ AdaptSucceeds(u)
          \/ LoadVersion(u) \/ IncrementVersion(u)
          \/ Spawn(u) \/ Wait(u)

\* All of updateServer() but the call of the name publisher.
Deliver(p) == \/ CheckUpdating(p) \/ SetUpdating(p) \/ ReadVersion(p)
              \/ CompareVersion(p) \/ ReadConfig(p)
              \/ Apply(p) \/ SendFails(p) \/ ReplyLost(p)
              \/ RecordVersion(p) \/ ClearUpdating(p)

Push(p) == Deliver(p) \/ MaybePublish(p)

Environment == \/ ChangeDocker
               \/ \E p \in Pushes : Delay(p)
               \/ \E s \in Servers : Restart(s)

Next == \/ \E u \in Updates : Fire(u) \/ Run(u)
        \/ \E p \in Pushes : Push(p)
        \/ Environment

Spec == Init /\ [][Next]_vars

\* The timer keeps firing (DockerEvents!ChangeEventuallyRead), goroutines that
\* can run do run, every request that is not late is answered or fails, and a
\* server that is sent a configuration again and again, without keeping the
\* request for ever, loads it and answers in the end.  Nothing is required of a
\* late request: it may never be loaded, or loaded and never answered.
Fairness ==
    /\ WF_vars(\E u \in Updates : Fire(u))
    /\ \A u \in Updates : WF_vars(Run(u))
    /\ \A p \in Pushes : WF_vars(p \notin late /\ Push(p))
    /\ \A s \in Servers :
         /\ SF_vars(\E p \in Pushes \ late :
                       step[p] # "none" /\ ServerOf(p) = s /\ Apply(p))
         /\ SF_vars(\E p \in Pushes \ late :
                       step[p] # "none" /\ ServerOf(p) = s /\ RecordVersion(p))

FairSpec == Spec /\ Fairness

-----------------------------------------------------------------------------
(* Properties of every schedule.                                           *)

\* The configuration in flight to a server is at least as new as the version
\* that will be recorded for it, although the two are read in separate steps
\* from variables that updates write without a lock; in particular no server
\* is sent the empty configuration of a controller that has none yet.
BodyAsNewAsVersion ==
    \A p \in Pushes :
        step[p] \in {"sent", "applied"} => /\ postBody[p].commit >= version[p]
                                           /\ postBody[p].config \in Configs

\* A server marked as being updated has a goroutine that removes the mark when
\* its request ends, so no server is skipped for good for another reason.
FlagHasOwner ==
    \A s \in Servers :
        serversUpdating[s] =>
            \E p \in Pushes : step[p] \in FlaggedSteps /\ ServerOf(p) = s

(* Properties of schedules without overlap (OverlapPhases = {}).           *)

\* The version recorded for a server that does not restart is never ahead of
\* the configuration it runs: a server is skipped only when it is up to date.
RecordedIsRunning ==
    \A s \in Servers : running[s].commit >= serversVersions[s]

\* What the rollout promises: no server goes back to an older configuration,
\* or to another one with the same number,
Promise == INSTANCE Rollout WITH
               newest <- lastJSONConfig,
               silent <- {s \in Servers : \E p \in late : ServerOf(p) = s}
ImplementsRollout == Promise!Spec

\* and every server that does not keep a request for ever reaches the newest one:
\* also after requests that failed or came late, and also when the Caddyfile has
\* changed since to one that is not valid.
ReachesNewest == Promise!Reached

\* Valid names are handed to the name publisher only when a server runs the
\* configuration of the Caddyfile they come from, unless an answer is late.
PublishedIsRunningIfValid ==
    [][handed' # handed /\ Adapt[handed'.caddyfile] # Invalid /\ late = {} =>
         \E s \in Servers : running[s].config = Adapt[handed'.caddyfile]]_vars

\* When Docker stops changing and its Caddyfile is valid, every controlled
\* server ends up running it: a server that keeps a request for ever keeps
\* only itself from being configured.
Convergence ==
    <>[](Adapt[desired] # Invalid =>
             \A s \in Servers : \/ running[s].config = Adapt[desired]
                                \/ \E p \in late : ServerOf(p) = s)

(* What the comments and the documentation say.                            *)

\* "publishes the site names from the generated Caddyfile [...] after a
\* successful config apply": names are handed to the name publisher only when
\* a server runs the configuration of the Caddyfile they come from.
PublishedIsRunning ==
    [][handed' # handed =>
         \E s \in Servers : running[s].config = Adapt[handed'.caddyfile]]_vars

\* The controller configures every server it finds, so a server that starts
\* without configuration does not stay without one.
ServersAreConfigured ==
    \A s \in Servers : []<>(running[s] # NoConfig)
=============================================================================
