------------------------------ MODULE Generator ------------------------------
(***************************************************************************)
(* The generator (package generator): each update reads all Docker hosts,  *)
(* one API call after another, and makes one Caddyfile of what it found.   *)
(*                                                                         *)
(* Any call can fail and the scan goes on without it.  Two things outlive  *)
(* a scan: the ingress networks, kept when they cannot be read again, and  *)
(* for each host whether it is a swarm, asked again when the answer is     *)
(* older than a minute.  Updates overlap and share both without a lock.    *)
(* Docker is external: it can change between two calls.  What is merged,   *)
(* and how, is module Caddyfile.                                           *)
(***************************************************************************)
EXTENDS Caddyfile

CONSTANTS
    Updates,        \* goroutines that run update
    NumClients,     \* docker clients, in the order of --docker-sockets
    OwnClients,     \* clients that know the controller's own container
    Networks,       \* Docker networks
    Ingress,        \* those that are ingress networks
    ControllerNets, \* those within --controller-network
    Objects,        \* identities of containers and services
    Setups,         \* settings of the controller, what Docker may hold with
                    \* them, and which updates may run: one is chosen
    CacheInterval,  \* swarmAvailabilityCacheInterval, in polling intervals
    MaxFaults,      \* bound: calls that fail
    MaxChanges      \* bound: changes in Docker

Clients == 1 .. NumClients

ASSUME ClientsAssumption == NumClients \in Nat \ {0} /\ OwnClients \subseteq Clients
ASSUME NetworksAssumption == Ingress \subseteq Networks /\ ControllerNets \subseteq Networks
\* Objects have identities and labels.  Their addresses, "to", come from the
\* template function upstreams alone.  An object has no blocks when none of its
\* labels are for Caddy, and when a template in them fails, which it does in
\* every scan: it may be a controlled server all the same.
ASSUME SetupsAssumption ==
    \A s \in Setups : \A w \in s.worlds :
        LET addressed(blocks) == \E b \in blocks : \E d \in b.body : d[1] = "to"
        IN  /\ IsContainer(w.file) /\ ~addressed(Range(w.file))
            /\ \A c \in Clients :
                 /\ w.configs[c] \in Seq(Range(w.configs[c]))
                 /\ \A f \in Range(w.configs[c]) :
                       IsContainer(f) /\ ~addressed(Range(f))
                 /\ w.containers[c] \in Seq(Range(w.containers[c]))
                 /\ w.services[c] \in Seq(Range(w.services[c]))
                 /\ \A o \in Range(w.containers[c]) \cup Range(w.services[c]) :
                      /\ o.id \in Objects
                      /\ o.networks \subseteq Networks
                      /\ IsFiniteSet(o.blocks)
                      /\ \A b \in o.blocks : IsBlock(b)
                      /\ ~addressed(o.blocks)
ASSUME BoundsAssumption == /\ CacheInterval \in Nat
                           /\ MaxFaults \in Nat
                           /\ MaxChanges \in Nat

VARIABLES
    setup,             \* the setup chosen
    world,             \* external: Docker and the Caddyfile at CaddyfilePath
    faults, changes,   \* how many calls have failed, how often Docker changed
    age,               \* time since swarmIsAvailableTime
    ingressNetworks,   \* the networks of g.ingressNetworks
    swarmIsAvailable,  \* for each client
    pc,                \* where each update is
    at,                \* the client its loop is at
    container,         \* its caddyfileBlock
    servers,           \* its controlledServers
    scan,              \* ghost: the blocks it merged, the objects it read, and
                       \* those whose address the result had when it began
    generated          \* the result of the last update that finished

shared == <<age, ingressNetworks, swarmIsAvailable>>
local  == <<container, servers, scan>>
vars   == <<setup, world, faults, changes, shared, pc, at, local, generated>>

options == setup.options  \* config.Options

Addresses == Objects \X Networks
Localhost == <<"localhost">>
Phases == {"idle", "networks", "cache", "swarm", "stamp", "file", "configs",
           "containers", "services", "finish"}

TypeOK ==
    /\ setup \in Setups
    /\ world \in setup.worlds
    /\ faults \in 0 .. MaxFaults
    /\ changes \in 0 .. MaxChanges
    /\ age \in 0 .. CacheInterval + 1
    /\ ingressNetworks \subseteq Networks
    /\ swarmIsAvailable \in [Clients -> BOOLEAN]
    /\ pc \in [Updates -> Phases]
    /\ at \in [Updates -> Clients]
    /\ \A u \in Updates : IsContainer(container[u])
    /\ servers \in [Updates -> SUBSET (Addresses \cup {Localhost})]
    /\ IsContainer(generated.caddyfile)

NoScan   == [inputs |-> {}, read |-> {}, before |-> {}]
NoResult == [caddyfile |-> <<>>, servers |-> {}, scan |-> NoScan]

\* swarmIsAvailableTime is zero: older than any interval.
Init ==
    /\ setup \in Setups
    /\ world \in setup.worlds
    /\ faults = 0
    /\ changes = 0
    /\ age = CacheInterval + 1
    /\ ingressNetworks = {}
    /\ swarmIsAvailable = [c \in Clients |-> FALSE]
    /\ pc = [u \in Updates |-> "idle"]
    /\ at = [u \in Updates |-> 1]
    /\ container = [u \in Updates |-> <<>>]
    /\ servers = [u \in Updates |-> {}]
    /\ scan = [u \in Updates |-> NoScan]
    /\ generated = NoResult

Goto(u, phase) == pc' = [pc EXCEPT ![u] = phase]

\* A call to Docker or to the file system succeeds, or fails.
Ok    == UNCHANGED faults
Fault == faults < MaxFaults /\ faults' = faults + 1

-----------------------------------------------------------------------------
(* Labels.                                                                 *)

HasDirective(b, name) == \E d \in b.body : d[1] = name

\* applyDefaultImport
ApplyDefaultImport(b) ==
    IF /\ options.defaultImport # {}
       /\ IsSiteBlock(b)
       /\ ~HasDirective(b, "import") /\ ~HasDirective(b, "tls")
    THEN [b EXCEPT !.body = @ \cup {Import(s) : s \in options.defaultImport}]
    ELSE b

\* The template function upstreams, in the body of a block.
Evaluate(b, targets) ==
    [b EXCEPT !.body = IF Upstreams \in @ THEN (@ \ {Upstreams}) \cup targets
                       ELSE @]

\* labelsToCaddyfile.  FromLabels ranges over a map: the blocks of an object
\* come in any order.
Labelled(o, targets) == {ApplyDefaultImport(Evaluate(b, targets)) : b \in o.blocks}
LabelsToCaddyfile(o, targets) == SetToSeqs(Labelled(o, targets))

\* getContainerIPAddresses and the addresses of getServiceTasksIps, with
\* onlyIngressIps: the label caddy_ingress_network overrides the networks known.
TargetIPs(o, known) ==
    LET nets == IF o.override = {} THEN o.networks \cap known
                ELSE o.networks \cap o.override
    IN  {<<"to", o.id, n>> : n \in nets}

\* getServiceProxyTargets
ServiceTargets(o, known) ==
    IF options.tasks THEN TargetIPs(o, known) ELSE {<<"to", o.id>>}

\* The addresses of controlled servers within ControllerNetwork.
ControlledServers(objects) ==
    UNION {{o.id} \X (o.networks \cap ControllerNets) :
           o \in {x \in objects : x.controlled}}

-----------------------------------------------------------------------------
(* What one listing adds to a container: the containers it can become.     *)

MergeInto(bases, readings) ==
    {MergeCaddyfile(base, r, options.mergeSites) : base \in bases, r \in readings}

\* Caddyfiles merged in turn, each of which may have been read in several ways.
MergeEach(base, readings) == FoldLeft(MergeInto, {base}, readings)

\* The configs of client c, but for those at the indices lost.
Configs(c, lost) ==
    [i \in DOMAIN world.configs[c] |->
        IF i \in lost THEN {<<>>} ELSE {world.configs[c][i]}]

ContainerLabels(c, known) ==
    [i \in DOMAIN world.containers[c] |->
        LET o == world.containers[c][i] IN LabelsToCaddyfile(o, TargetIPs(o, known))]

\* A service for which TaskList fails gives nothing at all.
ServiceLabels(c, lost, known) ==
    [i \in DOMAIN world.services[c] |->
        LET o == world.services[c][i]
        IN  IF o.id \in lost THEN {<<>>}
            ELSE LabelsToCaddyfile(o, ServiceTargets(o, known))]

\* getServiceTasksIps asks all clients, swarm or not, for the tasks of a
\* service; Docker refuses where it is not a swarm.
TasksAreRefused == world.swarm # Clients

UsesUpstreams(o) == \E b \in o.blocks : Upstreams \in b.body

\* The services whose Caddyfile needs a list of tasks.
NeedTasks(c) ==
    {o.id : o \in {x \in Range(world.services[c]) : options.tasks /\ UsesUpstreams(x)}}

-----------------------------------------------------------------------------
(* The steps of GenerateCaddyfile.                                         *)

\* The blocks of objects, as they are merged.
BlocksOf(objects, Targets(_)) ==
    UNION {Labelled(o, Targets(o)) : o \in objects}

\* The objects whose address a Caddyfile was made with.
Proxied(blocks) ==
    {o \in Objects : \E b \in blocks : \E d \in b.body : d[1] = "to" /\ d[2] = o}

Start(u) ==
    /\ pc[u] = "idle"
    /\ u \in setup.updates
    /\ Goto(u, "networks")
    /\ scan' = [scan EXCEPT ![u].before = Proxied(generated.scan.inputs)]
    /\ UNCHANGED <<setup, world, faults, changes, shared, at, container,
                   servers, generated>>

\* Without --ingress-networks, every client is asked for the controller's own
\* container, and one that does not know it is an error.
NetworksAreFound == options.named \/ OwnClients = Clients

\* A mutant of GetIngressNetworks: an error clears what is known.
GetIngressNetworksOrNone(u) ==
    /\ pc[u] = "networks"
    /\ \/ NetworksAreFound /\ Ok /\ ingressNetworks' = Ingress
       \/ ~NetworksAreFound /\ Ok /\ ingressNetworks' = {}
       \/ Fault /\ ingressNetworks' = {}
    /\ Goto(u, "cache")
    /\ UNCHANGED <<setup, world, changes, age, swarmIsAvailable, at, local,
                   generated>>

\* getIngressNetworks, whose result counts only when no call has failed.
GetIngressNetworks(u) ==
    /\ pc[u] = "networks"
    /\ \/ NetworksAreFound /\ Ok /\ ingressNetworks' = Ingress
       \/ ~NetworksAreFound /\ Ok /\ UNCHANGED ingressNetworks
       \/ Fault /\ UNCHANGED ingressNetworks
    /\ Goto(u, "cache")
    /\ UNCHANGED <<setup, world, changes, age, swarmIsAvailable, at, local,
                   generated>>

\* A mutant of CheckCache: once a swarm is known, nobody is asked again.
CheckCacheUnlessSwarm(u) ==
    /\ pc[u] = "cache"
    /\ Goto(u, IF age > CacheInterval /\ \A c \in Clients : ~swarmIsAvailable[c]
               THEN "swarm" ELSE "file")
    /\ UNCHANGED <<setup, world, faults, changes, shared, at, local, generated>>

CheckCache(u) ==
    /\ pc[u] = "cache"
    /\ Goto(u, IF age > CacheInterval THEN "swarm" ELSE "file")
    /\ UNCHANGED <<setup, world, faults, changes, shared, at, local, generated>>

\* The loop over the clients goes to the next one, or ends.
NextClient(u, again, done) ==
    IF at[u] = NumClients
    THEN Goto(u, done) /\ at' = [at EXCEPT ![u] = 1]
    ELSE Goto(u, again) /\ at' = [at EXCEPT ![u] = @ + 1]

\* checkSwarmAvailability
CheckSwarm(u) ==
    /\ pc[u] = "swarm"
    /\ \/ Ok /\ swarmIsAvailable' = [swarmIsAvailable EXCEPT
                                        ![at[u]] = at[u] \in world.swarm]
       \/ Fault /\ swarmIsAvailable' = [swarmIsAvailable EXCEPT ![at[u]] = FALSE]
    /\ NextClient(u, "swarm", "stamp")
    /\ UNCHANGED <<setup, world, changes, age, ingressNetworks, local, generated>>

StampCache(u) ==
    /\ pc[u] = "stamp"
    /\ age' = 0
    /\ Goto(u, "file")
    /\ UNCHANGED <<setup, world, faults, changes, ingressNetworks,
                   swarmIsAvailable, at, local, generated>>

\* The ghost of a scan that has merged the blocks of objects.
Note(u, blocks, objects) ==
    scan' = [scan EXCEPT ![u] = [inputs |-> @.inputs \cup blocks,
                                 read   |-> @.read \cup {o.id : o \in objects},
                                 before |-> @.before]]

ReadFile(u) ==
    /\ pc[u] = "file"
    /\ \/ /\ Ok
          /\ container' = [container EXCEPT ![u] = Merge(@, world.file)]
          /\ Note(u, Range(world.file), {})
       \/ Fault /\ UNCHANGED <<container, scan>>
    /\ Goto(u, "configs")
    /\ UNCHANGED <<setup, world, changes, shared, at, servers, generated>>

\* ConfigList, and ConfigInspectWithRaw for every config: each can fail.
ListConfigs(u) ==
    LET c == at[u] IN
    /\ pc[u] = "configs"
    /\ IF ~swarmIsAvailable[c]
       THEN Ok /\ UNCHANGED <<container, scan>>
       ELSE \E lost \in SUBSET DOMAIN world.configs[c] :
               /\ IF lost = {} THEN Ok ELSE Fault
               /\ \E after \in MergeEach(container[u], Configs(c, lost)) :
                     container' = [container EXCEPT ![u] = after]
               /\ Note(u, UNION {Range(world.configs[c][i]) :
                                 i \in DOMAIN world.configs[c] \ lost}, {})
    /\ Goto(u, "containers")
    /\ UNCHANGED <<setup, world, changes, shared, at, servers, generated>>

\* The error of getContainerCaddyfile for a container can only be that of a
\* template: such a container has no blocks.
ListContainers(u) ==
    LET c    == at[u]
        objs == Range(world.containers[c])
    IN
    /\ pc[u] = "containers"
    /\ \/ /\ Ok
          /\ \E after \in MergeEach(container[u], ContainerLabels(c, ingressNetworks)) :
                container' = [container EXCEPT ![u] = after]
          /\ servers' = [servers EXCEPT ![u] = @ \cup ControlledServers(objs)]
          /\ Note(u, BlocksOf(objs, LAMBDA o : TargetIPs(o, ingressNetworks)), objs)
       \/ Fault /\ UNCHANGED local
    /\ Goto(u, "services")
    /\ UNCHANGED <<setup, world, changes, shared, at, generated>>

\* ServiceList, and TaskList for the addresses of controlled servers and, when
\* tasks are proxied to, for those of upstreams: two calls for each service.
ListServices(u) ==
    LET c    == at[u]
        objs == Range(world.services[c])
    IN
    /\ pc[u] = "services"
    /\ IF ~swarmIsAvailable[c]
       THEN Ok /\ UNCHANGED local
       ELSE \/ \E lost \in SUBSET NeedTasks(c), unknown \in SUBSET objs :
                  /\ IF TasksAreRefused
                     THEN lost = NeedTasks(c) /\ unknown = objs /\ Ok
                     ELSE IF lost = {} /\ unknown = {} THEN Ok ELSE Fault
                  /\ \E after \in MergeEach(container[u],
                                            ServiceLabels(c, lost, ingressNetworks)) :
                        container' = [container EXCEPT ![u] = after]
                  /\ servers' = [servers EXCEPT
                                    ![u] = @ \cup ControlledServers(objs \ unknown)]
                  /\ LET known == {o \in objs : o.id \notin lost}
                     IN  Note(u, BlocksOf(known, LAMBDA o :
                                          ServiceTargets(o, ingressNetworks)), known)
            \/ Fault /\ UNCHANGED local
    /\ NextClient(u, "configs", "finish")
    /\ UNCHANGED <<setup, world, changes, shared, generated>>

\* The global block is written first, and the result processed.
Result(c) == IF options.process THEN Process(Sorted(c)) ELSE Sorted(c)

Finish(u) ==
    /\ pc[u] = "finish"
    /\ generated' = [caddyfile |-> Result(container[u]),
                     servers   |-> servers[u] \cup
                                   (IF options.server THEN {Localhost} ELSE {}),
                     scan      |-> scan[u]]
    /\ Goto(u, "idle")
    /\ container' = [container EXCEPT ![u] = <<>>]
    /\ servers' = [servers EXCEPT ![u] = {}]
    /\ scan' = [scan EXCEPT ![u] = NoScan]
    /\ UNCHANGED <<setup, world, faults, changes, shared, at>>

GenerateCaddyfile(u) ==
    \/ Start(u) \/ GetIngressNetworks(u)
    \/ CheckCache(u) \/ CheckSwarm(u) \/ StampCache(u)
    \/ ReadFile(u) \/ ListConfigs(u) \/ ListContainers(u) \/ ListServices(u)
    \/ Finish(u)

-----------------------------------------------------------------------------
\* A polling interval goes by.
Tick ==
    /\ age <= CacheInterval
    /\ age' = age + 1
    /\ UNCHANGED <<setup, world, faults, changes, ingressNetworks,
                   swarmIsAvailable, pc, at, local, generated>>

ChangeDocker ==
    /\ changes < MaxChanges
    /\ changes' = changes + 1
    /\ world' \in setup.worlds \ {world}
    /\ UNCHANGED <<setup, faults, shared, pc, at, local, generated>>

Next ==
    \/ \E u \in Updates : GenerateCaddyfile(u)
    \/ Tick
    \/ ChangeDocker

Spec == Init /\ [][Next]_vars

\* Time goes by, every call returns, and polling makes updates start again: an
\* update, whose next step is always possible, begins and ends for ever.
FairSpec ==
    /\ Spec
    /\ WF_vars(Tick)
    /\ \A u \in Updates : /\ []<>(pc[u] = "idle")
                          /\ []<>(pc[u] = "finish" \/ u \notin setup.updates)

-----------------------------------------------------------------------------
(* Properties.                                                             *)

\* Whatever labels say, what Process returns is a Caddyfile that Caddy accepts:
\* every block adapts after those before it, and no site is defined twice.
ResultAdapts ==
    LET c       == generated.caddyfile
        kept(i) == SubSeq(c, 1, i - 1)
    IN  options.process =>
            \A i \in DOMAIN c : Adapts(kept(i), c[i]) /\ Ambiguous(kept(i), c[i]) = {}

SitesOf(blocks) == {b \in blocks : IsSiteBlock(b)}

\* A bad block takes no other site with it: the addresses of a sound block,
\* merged with sound blocks only, are all in the result.  Excepted are blocks
\* that share an address which one of them writes otherwise, "a.com," and
\* "a.com": removeBlockKey does not find it, and all addresses go.
SitesSurvive ==
    LET inputs == generated.scan.inputs
    IN  ~options.mergeSites =>
            \A b \in SitesOf(inputs) :
               /\ \A a \in inputs : a.keys = b.keys => Sound(a, inputs)
               /\ IsSpelled(b, inputs)
               => AddressesOf(b) \subseteq
                     UNION {AddressesOf(a) : a \in Range(generated.caddyfile)}

\* With --merge-sites nothing of a sound scan is lost: every site block, with
\* all its addresses and directives, is part of one block of the result.
\* Excepted are scans where an address of two blocks is not the same key of
\* both: sharedKeys does not see that they overlap.
MergedServesAll ==
    LET inputs == generated.scan.inputs
    IN  options.mergeSites /\ (\A b \in inputs : Sound(b, inputs) /\ IsSpelled(b, inputs)) =>
            \A b \in SitesOf(inputs) : \E a \in Range(generated.caddyfile) :
               KeysOf(b) \subseteq KeysOf(a) /\ b.body \subseteq a.body

\* An update that reads the same blocks as the one before makes the same
\* Caddyfile, so that nothing is reloaded: in which order they were read leaves
\* no trace (for the directives of a block this is Labels!OrderIndependent).
\* Excepted are blocks with the same keys at two positions, and --merge-sites,
\* which puts the keys of a block in the order they are read.
SameBlocksSameResult ==
    [][LET inputs     == generated.scan.inputs
           positioned == \A a, b \in inputs : a.keys = b.keys => a.order = b.order
       IN  generated'.scan.inputs = inputs /\ ~options.mergeSites /\ positioned
              => generated'.caddyfile = generated.caddyfile]_vars

\* A container that the result proxied to when an update began is proxied to
\* in the result of that update as well, if the update read the container:
\* failures never make known networks unknown.
UpstreamsKept ==
    generated.scan.before \cap generated.scan.read \subseteq Proxied(generated.scan.inputs)

\* What a scan finds when no call fails.
SwarmObjects(c) == IF c \in world.swarm THEN Range(world.services[c]) ELSE {}

AllBlocks ==
    LET known      == IF NetworksAreFound THEN Ingress ELSE {}
        configs(c) == IF c \in world.swarm
                      THEN UNION {Range(f) : f \in Range(world.configs[c])} ELSE {}
        served(c)  == {o \in SwarmObjects(c) : TasksAreRefused => o.id \notin NeedTasks(c)}
    IN  Range(world.file) \cup UNION
            {configs(c)
               \cup BlocksOf(Range(world.containers[c]), LAMBDA o : TargetIPs(o, known))
               \cup BlocksOf(served(c), LAMBDA o : ServiceTargets(o, known)) :
             c \in Clients}

AllServers ==
    UNION {ControlledServers(Range(world.containers[c])
                             \cup (IF TasksAreRefused THEN {} ELSE SwarmObjects(c))) :
           c \in Clients}
        \cup (IF options.server THEN {Localhost} ELSE {})

\* After failures and changes have ended, every Caddyfile is made of all that
\* Docker holds, and lists all servers: no failure is remembered for good.
Recovers ==
    <>[](/\ generated.scan.inputs = AllBlocks
         /\ generated.servers = AllServers)
=============================================================================
