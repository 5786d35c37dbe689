-------------------------- MODULE GeneratorProofs --------------------------
(***************************************************************************)
(* Proofs about the generator for any number of Docker hosts, of objects,  *)
(* blocks and keys, for updates that overlap in any way, and for any call  *)
(* that fails: first about the networks an update knows, and then, with    *)
(* the facts of CaddyfileProofs, about the Caddyfile that it makes.        *)
(***************************************************************************)
EXTENDS Generator, CaddyfileProofs

\* All that Docker may list with the settings s.
ContainersOf(s) == UNION {Range(x[1].containers[x[2]]) : x \in s.worlds \X Clients}
ServicesOf(s)   == UNION {Range(x[1].services[x[2]])   : x \in s.worlds \X Clients}

\* Objects come and go, but no labels and no networks change: an identity
\* stands for one container or for one service.
Steady ==
    \A s \in Setups :
        /\ \A o, q \in ContainersOf(s) : o.id = q.id => o = q
        /\ \A o, q \in ServicesOf(s) : o.id = q.id => o = q
        /\ \A o \in ContainersOf(s), q \in ServicesOf(s) : o.id # q.id

-----------------------------------------------------------------------------
(* Which objects a Caddyfile proxies to.                                   *)

IsLabelled(o) ==
    /\ o.id \in Objects
    /\ \A b \in o.blocks : IsBlock(b) /\ \A d \in b.body : d[1] # "to"

LEMMA ListedObjects ==
    ASSUME NEW s \in Setups, NEW w \in s.worlds, NEW c \in Clients
    PROVE  /\ Range(w.containers[c]) \subseteq ContainersOf(s)
           /\ Range(w.services[c]) \subseteq ServicesOf(s)
<1>1. <<w, c>> \in s.worlds \X Clients /\ <<w, c>>[1] = w /\ <<w, c>>[2] = c
    OBVIOUS
<1> QED
    BY <1>1 DEF ContainersOf, ServicesOf

LEMMA ObjectsLabelled ==
    ASSUME NEW s \in Setups, NEW o \in ContainersOf(s) \cup ServicesOf(s)
    PROVE  IsLabelled(o)
<1>1. PICK w \in s.worlds, c \in Clients :
         o \in Range(w.containers[c]) \cup Range(w.services[c])
    BY DEF ContainersOf, ServicesOf
<1> QED
    BY <1>1, SetupsAssumption DEF IsLabelled

\* The Caddyfile of an object proxies to that object, if it uses upstreams and
\* they are not empty, and to no other.
LEMMA LabelledProxies ==
    ASSUME NEW o, IsLabelled(o), NEW targets,
           \A t \in targets : t[1] = "to" /\ t[2] = o.id
    PROVE  /\ \A b \in Labelled(o, targets) : \A d \in b.body :
                 d[1] = "to" => d[2] = o.id /\ UsesUpstreams(o) /\ targets # {}
           /\ UsesUpstreams(o) /\ targets # {} =>
                 \E b \in Labelled(o, targets) : \E d \in b.body :
                    d[1] = "to" /\ d[2] = o.id
<1>1. ASSUME NEW b \in o.blocks
      PROVE  /\ Evaluate(b, targets).body = IF Upstreams \in b.body
                                            THEN (b.body \ {Upstreams}) \cup targets
                                            ELSE b.body
             /\ "body" \in DOMAIN Evaluate(b, targets)
    BY <1>1 DEF IsLabelled, IsBlock, Evaluate
<1>2. ASSUME NEW b, "body" \in DOMAIN b
      PROVE  /\ b.body \subseteq ApplyDefaultImport(b).body
             /\ \A d \in ApplyDefaultImport(b).body : d \in b.body \/ d[1] = "import"
    <2>1. CASE ApplyDefaultImport(b) = b
        BY <2>1
    <2>2. CASE ApplyDefaultImport(b) =
                 [b EXCEPT !.body = @ \cup {Import(s) : s \in options.defaultImport}]
        <3>1. ApplyDefaultImport(b).body =
                 b.body \cup {Import(s) : s \in options.defaultImport}
            BY <1>2, <2>2
        <3>2. \A s : Import(s)[1] = "import"
            BY DEF Import
        <3> QED
            BY <3>1, <3>2
    <2> QED
        BY <2>1, <2>2 DEF ApplyDefaultImport
<1>3. \A b \in Labelled(o, targets) : \A d \in b.body :
         d[1] = "to" => d[2] = o.id /\ UsesUpstreams(o) /\ targets # {}
    <2> SUFFICES ASSUME NEW b \in o.blocks,
                        NEW d \in ApplyDefaultImport(Evaluate(b, targets)).body,
                        d[1] = "to"
                 PROVE  d[2] = o.id /\ UsesUpstreams(o) /\ targets # {}
        BY DEF Labelled
    <2>1. d \in Evaluate(b, targets).body
        BY <1>1, <1>2
    <2>2. d \notin b.body
        BY DEF IsLabelled
    <2> QED
        BY <1>1, <2>1, <2>2 DEF UsesUpstreams
<1>4. ASSUME UsesUpstreams(o), targets # {}
      PROVE  \E b \in Labelled(o, targets) : \E d \in b.body :
                d[1] = "to" /\ d[2] = o.id
    <2>1. PICK b \in o.blocks : Upstreams \in b.body
        BY <1>4 DEF UsesUpstreams
    <2>2. PICK t \in targets : TRUE
        BY <1>4
    <2>3. t \in Evaluate(b, targets).body /\ "body" \in DOMAIN Evaluate(b, targets)
        BY <1>1, <2>1, <2>2
    <2>4. t \in ApplyDefaultImport(Evaluate(b, targets)).body
        BY <1>2, <2>3
    <2> QED
        BY <2>2, <2>4 DEF Labelled
<1> QED
    BY <1>3, <1>4

LEMMA TargetsOfObject ==
    ASSUME NEW o, NEW known
    PROVE  /\ \A t \in TargetIPs(o, known) : t[1] = "to" /\ t[2] = o.id
           /\ \A t \in ServiceTargets(o, known) : t[1] = "to" /\ t[2] = o.id
    BY DEF TargetIPs, ServiceTargets

\* The more networks are known, the more targets there are.
LEMMA TargetsGrow ==
    ASSUME NEW o, NEW known, NEW more, known \subseteq more
    PROVE  /\ TargetIPs(o, known) \subseteq TargetIPs(o, more)
           /\ ServiceTargets(o, known) \subseteq ServiceTargets(o, more)
    BY DEF TargetIPs, ServiceTargets

\* The objects that have an address in the networks known.
ReachedContainers(known) ==
    {o \in ContainersOf(setup) : UsesUpstreams(o) /\ TargetIPs(o, known) # {}}
ReachedServices(known) ==
    {o \in ServicesOf(setup) : UsesUpstreams(o) /\ ServiceTargets(o, known) # {}}
Reached(known) ==
    {o.id : o \in ReachedContainers(known) \cup ReachedServices(known)}

LEMMA ContainersProxied ==
    ASSUME setup \in Setups, NEW objs \in SUBSET ContainersOf(setup), NEW known
    PROVE  LET blocks == BlocksOf(objs, LAMBDA o : TargetIPs(o, known))
           IN  Proxied(blocks) = {o.id : o \in objs \cap ReachedContainers(known)}
<1> DEFINE blocks == UNION {Labelled(o, TargetIPs(o, known)) : o \in objs}
<1>1. BlocksOf(objs, LAMBDA o : TargetIPs(o, known)) = blocks
    BY DEF BlocksOf
<1>2. \A o \in objs : IsLabelled(o)
    BY ObjectsLabelled
<1>3. ASSUME NEW p \in Proxied(blocks)
      PROVE  p \in {o.id : o \in objs \cap ReachedContainers(known)}
    <2>1. PICK o \in objs : \E b \in Labelled(o, TargetIPs(o, known)) :
                               \E d \in b.body : d[1] = "to" /\ d[2] = p
        BY <1>3 DEF Proxied
    <2>2. o.id = p /\ UsesUpstreams(o) /\ TargetIPs(o, known) # {}
        BY <1>2, <2>1, LabelledProxies, TargetsOfObject
    <2> QED
        BY <2>2 DEF ReachedContainers
<1>4. ASSUME NEW o \in objs \cap ReachedContainers(known)
      PROVE  o.id \in Proxied(blocks)
    <2>1. \E b \in Labelled(o, TargetIPs(o, known)) : \E d \in b.body :
             d[1] = "to" /\ d[2] = o.id
        BY <1>2, LabelledProxies, TargetsOfObject DEF ReachedContainers
    <2>2. o.id \in Objects
        BY <1>2 DEF IsLabelled
    <2> QED
        BY <2>1, <2>2 DEF Proxied
<1> QED
    BY <1>1, <1>3, <1>4

LEMMA ServicesProxied ==
    ASSUME setup \in Setups, NEW objs \in SUBSET ServicesOf(setup), NEW known
    PROVE  LET blocks == BlocksOf(objs, LAMBDA o : ServiceTargets(o, known))
           IN  Proxied(blocks) = {o.id : o \in objs \cap ReachedServices(known)}
<1> DEFINE blocks == UNION {Labelled(o, ServiceTargets(o, known)) : o \in objs}
<1>1. BlocksOf(objs, LAMBDA o : ServiceTargets(o, known)) = blocks
    BY DEF BlocksOf
<1>2. \A o \in objs : IsLabelled(o)
    BY ObjectsLabelled
<1>3. ASSUME NEW p \in Proxied(blocks)
      PROVE  p \in {o.id : o \in objs \cap ReachedServices(known)}
    <2>1. PICK o \in objs : \E b \in Labelled(o, ServiceTargets(o, known)) :
                               \E d \in b.body : d[1] = "to" /\ d[2] = p
        BY <1>3 DEF Proxied
    <2>2. o.id = p /\ UsesUpstreams(o) /\ ServiceTargets(o, known) # {}
        BY <1>2, <2>1, LabelledProxies, TargetsOfObject
    <2> QED
        BY <2>2 DEF ReachedServices
<1>4. ASSUME NEW o \in objs \cap ReachedServices(known)
      PROVE  o.id \in Proxied(blocks)
    <2>1. \E b \in Labelled(o, ServiceTargets(o, known)) : \E d \in b.body :
             d[1] = "to" /\ d[2] = o.id
        BY <1>2, LabelledProxies, TargetsOfObject DEF ReachedServices
    <2>2. o.id \in Objects
        BY <1>2 DEF IsLabelled
    <2> QED
        BY <2>1, <2>2 DEF Proxied
<1> QED
    BY <1>1, <1>3, <1>4

-----------------------------------------------------------------------------
(* The inductive invariant.                                                *)

IsScan(x) == x = [inputs |-> x.inputs, read |-> x.read, before |-> x.before]

\* Types, but for the blocks.
Shaped ==
    /\ setup \in Setups
    /\ world \in setup.worlds
    /\ pc \in [Updates -> Phases]
    /\ at \in [Updates -> Clients]
    /\ scan = [u \in Updates |-> scan[u]]
    /\ \A u \in Updates : /\ IsScan(scan[u])
                          /\ pc[u] = "idle" => scan[u] = NoScan
    /\ ingressNetworks \subseteq Ingress

\* What a scan proxies to has an address in the networks known now, and so has
\* what the result proxied to when it began: what it has read since it merged
\* with that address.
Kept(x) ==
    /\ Proxied(x.inputs) \subseteq Reached(ingressNetworks)
    /\ x.before \subseteq Reached(ingressNetworks)
    /\ x.before \cap x.read \subseteq Proxied(x.inputs)

KnownInv == Shaped /\ Kept(generated.scan) /\ \A u \in Updates : Kept(scan[u])

\* Networks become known and never unknown.
LEMMA ReachedGrows ==
    ASSUME setup' = setup, ingressNetworks \subseteq ingressNetworks'
    PROVE  Reached(ingressNetworks) \subseteq Reached(ingressNetworks)'
<1>1. \A o : /\ TargetIPs(o, ingressNetworks) # {}
                   => TargetIPs(o, ingressNetworks') # {}
             /\ ServiceTargets(o, ingressNetworks) # {}
                   => ServiceTargets(o, ingressNetworks)' # {}
    BY DEF TargetIPs, ServiceTargets, options
<1>2. ReachedContainers(ingressNetworks) \subseteq ReachedContainers(ingressNetworks)'
    BY <1>1 DEF ReachedContainers
<1>3. ReachedServices(ingressNetworks) \subseteq ReachedServices(ingressNetworks)'
    BY <1>1 DEF ReachedServices
<1> QED
    BY <1>2, <1>3 DEF Reached

LEMMA KeptStays ==
    ASSUME setup' = setup, ingressNetworks \subseteq ingressNetworks',
           NEW x, Kept(x)
    PROVE  /\ Proxied(x.inputs) \subseteq Reached(ingressNetworks)'
           /\ x.before \subseteq Reached(ingressNetworks)'
           /\ x.before \cap x.read \subseteq Proxied(x.inputs)
    BY ReachedGrows DEF Kept

\* Proxied of a union, and of nothing.
LEMMA ProxiedUnion ==
    ASSUME NEW X, NEW Y
    PROVE  Proxied(X \cup Y) = Proxied(X) \cup Proxied(Y)
    BY DEF Proxied

\* A scan that merges the blocks of objects.
LEMMA NoteKeeps ==
    ASSUME NEW x, Kept(x), NEW blocks, NEW objects,
           Proxied(blocks) \subseteq Reached(ingressNetworks),
           \A o \in objects : o.id \in Reached(ingressNetworks)
                                 => o.id \in Proxied(blocks)
    PROVE  Kept([inputs |-> x.inputs \cup blocks,
                 read   |-> x.read \cup {o.id : o \in objects},
                 before |-> x.before])
    BY ProxiedUnion DEF Kept

LEMMA NoScanKept == Kept(NoScan)
    BY DEF Kept, NoScan, Proxied

\* Any step that gives update u a scan that is kept.
LEMMA StepKeeps ==
    ASSUME KnownInv, NEW u \in Updates, NEW x \in Phases, NEW y,
           setup' = setup, world' = world, pc' = [pc EXCEPT ![u] = x],
           at' \in [Updates -> Clients],
           ingressNetworks \subseteq ingressNetworks',
           ingressNetworks' \subseteq Ingress,
           \/ generated' = generated
           \/ generated'.scan = scan[u],
           scan' = [scan EXCEPT ![u] = y], IsScan(y), Kept(y),
           x = "idle" => y = NoScan
    PROVE  KnownInv'
<1>1. pc \in [Updates -> Phases] /\ scan = [w \in Updates |-> scan[w]]
    BY DEF KnownInv, Shaped
<1>2. /\ scan' = [w \in Updates |-> scan'[w]] /\ scan'[u] = y
      /\ \A w \in Updates \ {u} : scan'[w] = scan[w]
    BY <1>1
<1>3. /\ pc' \in [Updates -> Phases] /\ pc'[u] = x
      /\ \A w \in Updates \ {u} : pc'[w] = pc[w]
    BY <1>1
<1>4. \A w \in Updates : /\ IsScan(scan'[w])
                         /\ pc'[w] = "idle" => scan'[w] = NoScan
    BY <1>2, <1>3 DEF KnownInv, Shaped
<1>5. Shaped'
    <2>1. setup \in Setups /\ world \in setup.worlds
        BY DEF KnownInv, Shaped
    <2> QED
        BY <1>2, <1>3, <1>4, <2>1 DEF Shaped, IsScan, NoScan
<1>6. \A w \in Updates : Kept(scan[w])'
    <2> TAKE w \in Updates
    <2>1. Kept(scan'[w])
        BY <1>2 DEF KnownInv
    <2> QED
        BY <2>1, KeptStays DEF Kept, Proxied
<1>7. Kept(generated.scan)'
    <2>1. Kept(generated'.scan)
        BY DEF KnownInv
    <2> QED
        BY <2>1, KeptStays DEF Kept, Proxied
<1> QED
    BY <1>5, <1>6, <1>7 DEF KnownInv

LEMMA ListedContainersKept ==
    ASSUME Steady, setup \in Setups, NEW x, Kept(x),
           NEW objs \in SUBSET ContainersOf(setup)
    PROVE  Kept([inputs |-> x.inputs \cup BlocksOf(objs, LAMBDA o :
                                              TargetIPs(o, ingressNetworks)),
                 read   |-> x.read \cup {o.id : o \in objs},
                 before |-> x.before])
<1> DEFINE blocks == BlocksOf(objs, LAMBDA o : TargetIPs(o, ingressNetworks))
<1>1. Proxied(blocks) = {o.id : o \in objs \cap ReachedContainers(ingressNetworks)}
    BY ContainersProxied
<1> HIDE DEF blocks
<1>2. Proxied(blocks) \subseteq Reached(ingressNetworks)
    BY <1>1 DEF Reached
<1>3. ASSUME NEW o \in objs, o.id \in Reached(ingressNetworks)
      PROVE  o.id \in Proxied(blocks)
    <2>1. PICK q \in ReachedContainers(ingressNetworks)
                        \cup ReachedServices(ingressNetworks) : q.id = o.id
        BY <1>3 DEF Reached
    <2>2. q \in ContainersOf(setup) \/ q \in ServicesOf(setup)
        BY DEF ReachedContainers, ReachedServices
    <2>3. q = o
        BY <2>1, <2>2 DEF Steady
    <2>4. q \notin ServicesOf(setup)
        BY <2>3 DEF Steady
    <2> QED
        BY <1>1, <2>1, <2>3, <2>4 DEF ReachedServices
<1>4. Kept([inputs |-> x.inputs \cup blocks, read |-> x.read \cup {o.id : o \in objs},
            before |-> x.before])
    BY <1>2, <1>3, NoteKeeps
<1> QED
    BY <1>4 DEF blocks

LEMMA ListedServicesKept ==
    ASSUME Steady, setup \in Setups, NEW x, Kept(x),
           NEW objs \in SUBSET ServicesOf(setup)
    PROVE  Kept([inputs |-> x.inputs \cup BlocksOf(objs, LAMBDA o :
                                              ServiceTargets(o, ingressNetworks)),
                 read   |-> x.read \cup {o.id : o \in objs},
                 before |-> x.before])
<1> DEFINE blocks == BlocksOf(objs, LAMBDA o : ServiceTargets(o, ingressNetworks))
<1>1. Proxied(blocks) = {o.id : o \in objs \cap ReachedServices(ingressNetworks)}
    BY ServicesProxied
<1> HIDE DEF blocks
<1>2. Proxied(blocks) \subseteq Reached(ingressNetworks)
    BY <1>1 DEF Reached
<1>3. ASSUME NEW o \in objs, o.id \in Reached(ingressNetworks)
      PROVE  o.id \in Proxied(blocks)
    <2>1. PICK q \in ReachedContainers(ingressNetworks)
                        \cup ReachedServices(ingressNetworks) : q.id = o.id
        BY <1>3 DEF Reached
    <2>2. q \in ContainersOf(setup) \/ q \in ServicesOf(setup)
        BY DEF ReachedContainers, ReachedServices
    <2>3. q = o
        BY <2>1, <2>2 DEF Steady
    <2>4. q \notin ContainersOf(setup)
        BY <2>3 DEF Steady
    <2> QED
        BY <1>1, <2>1, <2>3, <2>4 DEF ReachedContainers
<1>4. Kept([inputs |-> x.inputs \cup blocks, read |-> x.read \cup {o.id : o \in objs},
            before |-> x.before])
    BY <1>2, <1>3, NoteKeeps
<1> QED
    BY <1>4 DEF blocks

\* The Caddyfile at CaddyfilePath and those of configs proxy to no object.
LEMMA UnlabelledKept ==
    ASSUME NEW x, Kept(x), NEW blocks,
           ~ \E b \in blocks : \E d \in b.body : d[1] = "to"
    PROVE  Kept([inputs |-> x.inputs \cup blocks, read |-> x.read \cup {},
                 before |-> x.before])
<1>1. Proxied(blocks) = {}
    BY DEF Proxied
<1> QED
    BY <1>1, ProxiedUnion DEF Kept

\* Every step of a generator keeps the invariant.
LEMMA KnownInvInductive ==
    ASSUME Steady, KnownInv, [Next]_vars
    PROVE  KnownInv'
<1>1. /\ setup \in Setups /\ world \in setup.worlds
      /\ pc \in [Updates -> Phases] /\ at \in [Updates -> Clients]
      /\ scan = [u \in Updates |-> scan[u]]
      /\ \A u \in Updates : IsScan(scan[u]) /\ Kept(scan[u])
      /\ ingressNetworks \subseteq Ingress /\ Kept(generated.scan)
    BY DEF KnownInv, Shaped
<1>2. ASSUME NEW u \in Updates, NEW x \in Phases \ {"idle"}, NEW y,
             setup' = setup, world' = world, pc' = [pc EXCEPT ![u] = x],
             at' \in [Updates -> Clients], ingressNetworks' = ingressNetworks,
             generated' = generated,
             scan' = [scan EXCEPT ![u] = y], IsScan(y), Kept(y)
      PROVE  KnownInv'
    BY <1>1, <1>2, StepKeeps
<1>3. ASSUME NEW u \in Updates, NEW x \in Phases \ {"idle"},
             setup' = setup, world' = world, pc' = [pc EXCEPT ![u] = x],
             at' \in [Updates -> Clients], ingressNetworks' = ingressNetworks,
             UNCHANGED <<generated, scan>>
      PROVE  KnownInv'
    <2>1. scan' = [scan EXCEPT ![u] = scan[u]]
        BY <1>1, <1>3
    <2> QED
        BY <1>1, <1>2, <1>3, <2>1
<1>4. ASSUME NEW u \in Updates, NEW x \in Phases \ {"idle"}, NEW blocks, NEW objects,
             setup' = setup, world' = world, pc' = [pc EXCEPT ![u] = x],
             at' \in [Updates -> Clients], ingressNetworks' = ingressNetworks,
             generated' = generated, Note(u, blocks, objects),
             Kept([inputs |-> scan[u].inputs \cup blocks,
                   read   |-> scan[u].read \cup {o.id : o \in objects},
                   before |-> scan[u].before])
      PROVE  KnownInv'
    <2> DEFINE y == [inputs |-> scan[u].inputs \cup blocks,
                     read   |-> scan[u].read \cup {o.id : o \in objects},
                     before |-> scan[u].before]
    <2>1. scan' = [scan EXCEPT ![u] = y]
        BY <1>1, <1>4 DEF Note
    <2>2. IsScan(y)
        BY DEF IsScan
    <2> QED
        BY <1>2, <1>4, <2>1, <2>2
<1>5. ASSUME NEW u \in Updates, NEW again \in Phases, NEW done \in Phases,
             NextClient(u, again, done)
      PROVE  /\ at' \in [Updates -> Clients]
             /\ \E x \in {again, done} : pc' = [pc EXCEPT ![u] = x]
    <2>1. at[u] \in 1 .. NumClients /\ NumClients \in Nat
        BY <1>1, ClientsAssumption DEF Clients
    <2>2. at[u] # NumClients => at[u] + 1 \in 1 .. NumClients
        BY <2>1
    <2>3. 1 \in 1 .. NumClients
        BY <2>1
    <2> QED
        BY <1>1, <1>5, <2>2, <2>3 DEF NextClient, Goto, Clients
<1>6. ASSUME NEW u \in Updates, Start(u) PROVE KnownInv'
    <2> DEFINE y == [inputs |-> {}, read |-> {}, before |-> Proxied(generated.scan.inputs)]
    <2>1. scan[u] = NoScan
        BY <1>6 DEF Start, KnownInv, Shaped
    <2>2. scan' = [scan EXCEPT ![u] = y]
        <3>1. scan' = [scan EXCEPT ![u] = [scan[u] EXCEPT
                           !.before = Proxied(generated.scan.inputs)]]
            BY <1>1, <1>6 DEF Start
        <3>2. [scan[u] EXCEPT !.before = Proxied(generated.scan.inputs)] = y
            BY <2>1 DEF NoScan
        <3> QED
            BY <3>1, <3>2
    <2>3. IsScan(y) /\ Kept(y)
        BY <1>1 DEF IsScan, Kept, Proxied
    <2>4. /\ pc' = [pc EXCEPT ![u] = "networks"] /\ "networks" \in Phases \ {"idle"}
          /\ UNCHANGED <<setup, world, ingressNetworks, at, generated>>
        BY <1>6 DEF Start, Goto, shared, Phases
    <2> HIDE DEF y
    <2> QED
        BY <1>1, <1>2, <2>2, <2>3, <2>4
<1>7. ASSUME NEW u \in Updates, GetIngressNetworks(u) PROVE KnownInv'
    <2>1. /\ ingressNetworks \subseteq ingressNetworks' /\ ingressNetworks' \subseteq Ingress
          /\ pc' = [pc EXCEPT ![u] = "cache"] /\ "cache" \in Phases
          /\ UNCHANGED <<setup, world, at, scan, generated>>
        BY <1>1, <1>7 DEF GetIngressNetworks, Goto, local, Phases
    <2>2. scan' = [scan EXCEPT ![u] = scan[u]]
        BY <1>1, <2>1
    <2> QED
        BY <1>1, <2>1, <2>2, StepKeeps
<1>8. ASSUME NEW u \in Updates, CheckCache(u) \/ StampCache(u) PROVE KnownInv'
    <2>1. /\ UNCHANGED <<setup, world, at, ingressNetworks, scan, generated>>
          /\ \E x \in {"swarm", "file"} : pc' = [pc EXCEPT ![u] = x]
        BY <1>8 DEF CheckCache, StampCache, Goto, local, shared
    <2>2. {"swarm", "file"} \subseteq Phases \ {"idle"}
        BY DEF Phases
    <2> QED
        BY <1>1, <1>3, <2>1, <2>2
<1>9. ASSUME NEW u \in Updates, CheckSwarm(u) PROVE KnownInv'
    <2>1. {"swarm", "stamp"} \subseteq Phases \ {"idle"}
        BY DEF Phases
    <2>2. /\ UNCHANGED <<setup, world, ingressNetworks, scan, generated>>
          /\ NextClient(u, "swarm", "stamp")
        BY <1>9 DEF CheckSwarm, local
    <2> QED
        BY <1>3, <1>5, <2>1, <2>2
<1>10. ASSUME NEW u \in Updates, ReadFile(u) PROVE KnownInv'
    <2>1. /\ pc' = [pc EXCEPT ![u] = "configs"] /\ "configs" \in Phases \ {"idle"}
          /\ UNCHANGED <<setup, world, at, ingressNetworks, generated>>
          /\ Note(u, Range(world.file), {}) \/ UNCHANGED scan
        BY <1>10 DEF ReadFile, Goto, shared, Phases
    <2>2. ~ \E b \in Range(world.file) : \E d \in b.body : d[1] = "to"
        BY <1>1, SetupsAssumption
    <2>3. Kept([inputs |-> scan[u].inputs \cup Range(world.file),
                read |-> scan[u].read \cup {}, before |-> scan[u].before])
        BY <1>1, <2>2, UnlabelledKept
    <2>4. {o.id : o \in {}} = {}
        OBVIOUS
    <2>5. CASE Note(u, Range(world.file), {})
        BY <1>1, <1>4, <2>1, <2>3, <2>4, <2>5
    <2>6. CASE UNCHANGED scan
        BY <1>1, <1>3, <2>1, <2>6
    <2> QED
        BY <2>1, <2>5, <2>6
<1>11. ASSUME NEW u \in Updates, ListConfigs(u) PROVE KnownInv'
    <2>1. /\ pc' = [pc EXCEPT ![u] = "containers"] /\ "containers" \in Phases \ {"idle"}
          /\ UNCHANGED <<setup, world, at, ingressNetworks, generated>>
        BY <1>11 DEF ListConfigs, Goto, shared, Phases
    <2>2. \/ UNCHANGED scan
          \/ \E lost \in SUBSET DOMAIN world.configs[at[u]] :
                Note(u, UNION {Range(world.configs[at[u]][i]) :
                               i \in DOMAIN world.configs[at[u]] \ lost}, {})
        BY <1>11 DEF ListConfigs
    <2>3. ASSUME NEW lost \in SUBSET DOMAIN world.configs[at[u]],
                 Note(u, UNION {Range(world.configs[at[u]][i]) :
                                i \in DOMAIN world.configs[at[u]] \ lost}, {})
          PROVE  KnownInv'
        <3> DEFINE blocks == UNION {Range(world.configs[at[u]][i]) :
                                    i \in DOMAIN world.configs[at[u]] \ lost}
        <3>1. at[u] \in Clients
            BY <1>1
        <3>2. ~ \E b \in blocks : \E d \in b.body : d[1] = "to"
            BY <1>1, <3>1, SetupsAssumption
        <3>3. Note(u, blocks, {})
            BY <2>3
        <3> HIDE DEF blocks
        <3>4. Kept([inputs |-> scan[u].inputs \cup blocks,
                    read |-> scan[u].read \cup {}, before |-> scan[u].before])
            BY <1>1, <3>2, UnlabelledKept
        <3>5. {o.id : o \in {}} = {}
            OBVIOUS
        <3> QED
            BY <1>1, <1>4, <2>1, <3>3, <3>4, <3>5
    <2>4. CASE UNCHANGED scan
        BY <1>1, <1>3, <2>1, <2>4
    <2> QED
        BY <2>2, <2>3, <2>4
<1>12. ASSUME NEW u \in Updates, ListContainers(u) PROVE KnownInv'
    <2> DEFINE objs == Range(world.containers[at[u]])
               blocks == BlocksOf(objs, LAMBDA o : TargetIPs(o, ingressNetworks))
    <2>1. /\ pc' = [pc EXCEPT ![u] = "services"] /\ "services" \in Phases \ {"idle"}
          /\ UNCHANGED <<setup, world, at, ingressNetworks, generated>>
          /\ Note(u, blocks, objs) \/ UNCHANGED scan
        BY <1>12 DEF ListContainers, Goto, shared, local, Phases
    <2>2. objs \subseteq ContainersOf(setup)
        BY <1>1, ListedObjects
    <2>3. Kept([inputs |-> scan[u].inputs \cup blocks,
                read   |-> scan[u].read \cup {o.id : o \in objs},
                before |-> scan[u].before])
        BY <1>1, <2>2, ListedContainersKept
    <2> HIDE DEF objs, blocks
    <2>4. CASE Note(u, blocks, objs)
        BY <1>1, <1>4, <2>1, <2>3, <2>4
    <2>5. CASE UNCHANGED scan
        BY <1>1, <1>3, <2>1, <2>5
    <2> QED
        BY <2>1, <2>4, <2>5
<1>13. ASSUME NEW u \in Updates, ListServices(u) PROVE KnownInv'
    <2> DEFINE objs(lost) == {o \in Range(world.services[at[u]]) : o.id \notin lost}
               blocks(lost) == BlocksOf(objs(lost), LAMBDA o :
                                        ServiceTargets(o, ingressNetworks))
    <2>1. /\ NextClient(u, "configs", "finish")
          /\ UNCHANGED <<setup, world, ingressNetworks, generated>>
          /\ (\E lost : Note(u, blocks(lost), objs(lost))) \/ UNCHANGED scan
        BY <1>13 DEF ListServices, shared, local
    <2>2. {"configs", "finish"} \subseteq Phases \ {"idle"}
        BY DEF Phases
    <2>3. /\ at' \in [Updates -> Clients]
          /\ \E x \in {"configs", "finish"} : pc' = [pc EXCEPT ![u] = x]
        BY <1>5, <2>1, <2>2
    <2>4. ASSUME NEW lost, Note(u, blocks(lost), objs(lost)) PROVE KnownInv'
        <3>1. objs(lost) \subseteq ServicesOf(setup)
            BY <1>1, ListedObjects
        <3>2. Kept([inputs |-> scan[u].inputs \cup blocks(lost),
                    read   |-> scan[u].read \cup {o.id : o \in objs(lost)},
                    before |-> scan[u].before])
            BY <1>1, <3>1, ListedServicesKept
        <3> HIDE DEF objs, blocks
        <3> QED
            BY <1>4, <2>1, <2>2, <2>3, <2>4, <3>2
    <2>5. CASE UNCHANGED scan
        BY <1>3, <2>1, <2>2, <2>3, <2>5
    <2> QED
        BY <2>1, <2>4, <2>5
<1>14. ASSUME NEW u \in Updates, Finish(u) PROVE KnownInv'
    <2>1. /\ pc' = [pc EXCEPT ![u] = "idle"] /\ "idle" \in Phases
          /\ UNCHANGED <<setup, world, at, ingressNetworks>>
          /\ generated'.scan = scan[u] /\ scan' = [scan EXCEPT ![u] = NoScan]
        BY <1>14 DEF Finish, Goto, shared, Phases
    <2>2. IsScan(NoScan)
        BY DEF IsScan, NoScan
    <2> QED
        BY <1>1, <2>1, <2>2, NoScanKept, StepKeeps
<1>15. ASSUME UNCHANGED <<setup, ingressNetworks, pc, at, scan, generated>>,
              world' \in setup.worlds
       PROVE  KnownInv'
    <2>1. Shaped'
        BY <1>15 DEF KnownInv, Shaped, IsScan, NoScan
    <2>2. \A x : Kept(x) => Kept(x)'
        BY <1>15 DEF Kept, Proxied, Reached, ReachedContainers, ReachedServices,
                     ServiceTargets, options
    <2>3. Kept(generated.scan)' /\ \A u \in Updates : Kept(scan[u])'
        BY <1>1, <1>15, KeptStays DEF Kept, Proxied
    <2> QED
        BY <2>1, <2>3 DEF KnownInv
<1>16. CASE Tick \/ ChangeDocker \/ UNCHANGED vars
    BY <1>1, <1>15, <1>16 DEF Tick, ChangeDocker, vars, shared, local
<1> QED
    BY <1>6, <1>7, <1>8, <1>9, <1>10, <1>11, <1>12, <1>13, <1>14, <1>16
    DEF Next, GenerateCaddyfile

\* While labels and networks of objects stay, no failing call and no overlap
\* of updates makes a container that was proxied to lose its address in an
\* update that reads it: GenerateCaddyfile keeps the ingress networks it knows
\* when getIngressNetworks fails.
THEOREM KnownNetworksAreKept ==
    ASSUME Steady
    PROVE  Spec => []UpstreamsKept
<1>1. Init => KnownInv
    <2> SUFFICES ASSUME Init PROVE KnownInv
        OBVIOUS
    <2>1. 1 \in Clients
        BY ClientsAssumption DEF Clients
    <2>2. Shaped
        BY <2>1 DEF Init, Shaped, Phases, NoScan, IsScan
    <2>3. generated.scan = NoScan /\ \A u \in Updates : scan[u] = NoScan
        BY DEF Init, NoResult
    <2> QED
        BY <2>2, <2>3, NoScanKept DEF KnownInv
<1>2. KnownInv /\ [Next]_vars => KnownInv'
    BY KnownInvInductive
<1>3. KnownInv => UpstreamsKept
    BY DEF KnownInv, Kept, UpstreamsKept
<1> QED
    BY <1>1, <1>2, <1>3, PTL DEF Spec

-----------------------------------------------------------------------------
(* What one listing merges.                                                *)

\* A step of MergeEach; it needs no parameter.
MergeIntoStep(p, bases, readings) == MergeInto(bases, readings)

MergingEach == INSTANCE Folding WITH Step <- MergeIntoStep

LEMMA MergingEachSteps ==
    ASSUME NEW readings, NEW n \in Nat, DOMAIN readings = 1 .. n, NEW base
    PROVE  \E f : /\ f[0] = {base}
                  /\ \A i \in 1 .. n : f[i] = MergeInto(f[i - 1], readings[i])
                  /\ f[n] = MergeEach(base, readings)
<1>1. ASSUME NEW start
      PROVE  MergingEach!Folded({}, start, readings) = FoldLeft(MergeInto, start, readings)
    BY DEF MergeIntoStep, FoldLeft, MapThenFoldSet, Max, MergingEach!Folded, MergingEach!Max
<1>2. ASSUME NEW start
      PROVE  \E f : /\ f[0] = start
                    /\ \A i \in 1 .. n : f[i] = MergeInto(f[i - 1], readings[i])
                    /\ f[n] = MergingEach!Folded({}, start, readings)
    <2>1. \E f : /\ f[0] = start
                 /\ \A i \in 1 .. n : f[i] = MergeIntoStep({}, f[i - 1], readings[i])
                 /\ f[n] = MergingEach!Folded({}, start, readings)
        BY MergingEach!FoldLeftSteps
    <2>2. \A bases, r : MergeIntoStep({}, bases, r) = MergeInto(bases, r)
        BY DEF MergeIntoStep
    <2> QED
        BY <2>1, <2>2
<1> QED
    BY <1>1, <1>2 DEF MergeEach

\* Whatever order the blocks were read in, the container has merged them all.
LEMMA MergeEachBuilds ==
    ASSUME NEW disjoint, NEW base, NEW X,
           Built(options.mergeSites, disjoint, base, X),
           NEW readings, NEW n \in Nat, DOMAIN readings = 1 .. n, NEW blocks,
           \A i \in 1 .. n : \A r \in readings[i] :
              IsContainer(r) /\ Range(r) = blocks[i],
           NEW after \in MergeEach(base, readings),
           NEW Y, \A y : y \in Y <=> \E i \in 1 .. n : y \in blocks[i]
    PROVE  Built(options.mergeSites, disjoint, after, X \cup Y)
<1>1. PICK f : /\ f[0] = {base}
               /\ \A i \in 1 .. n : f[i] = MergeInto(f[i - 1], readings[i])
               /\ f[n] = MergeEach(base, readings)
    BY MergingEachSteps
<1> DEFINE First(i) == X \cup UNION {blocks[j] : j \in 1 .. i}
           P(i) == \A c \in f[i] : Built(options.mergeSites, disjoint, c, First(i))
           I == {i \in 0 .. n : P(i)}
<1>2. First(0) = X
    OBVIOUS
<1>3. \A i \in 0 .. n - 1 : First(i + 1) = First(i) \cup blocks[i + 1]
    <2> TAKE i \in 0 .. n - 1
    <2>1. \A j \in 1 .. i + 1 : j \in 1 .. i \/ j = i + 1
        OBVIOUS
    <2>2. i + 1 \in 1 .. i + 1 /\ \A j \in 1 .. i : j \in 1 .. i + 1
        OBVIOUS
    <2>3. ASSUME NEW x \in UNION {blocks[j] : j \in 1 .. i + 1}
          PROVE  x \in (UNION {blocks[j] : j \in 1 .. i}) \cup blocks[i + 1]
        BY <2>1
    <2>4. ASSUME NEW x \in (UNION {blocks[j] : j \in 1 .. i}) \cup blocks[i + 1]
          PROVE  x \in UNION {blocks[j] : j \in 1 .. i + 1}
        BY <2>2
    <2> QED
        BY <2>3, <2>4
<1> HIDE DEF First
<1>4. P(0)
    BY <1>1, <1>2
<1>5. ASSUME NEW i \in 0 .. n - 1, P(i) PROVE P(i + 1)
    <2>1. i + 1 \in 1 .. n /\ (i + 1) - 1 = i
        OBVIOUS
    <2>2. f[i + 1] = MergeInto(f[i], readings[i + 1])
        BY <1>1, <2>1
    <2>3. \A r \in readings[i + 1] : IsContainer(r) /\ Range(r) = blocks[i + 1]
        BY <2>1
    <2>4. ASSUME NEW c \in f[i], NEW r \in readings[i + 1]
          PROVE  Built(options.mergeSites, disjoint,
                       MergeCaddyfile(c, r, options.mergeSites), First(i + 1))
        <3>1. Built(options.mergeSites, disjoint, c, First(i))
            BY <1>5
        <3>2. Built(options.mergeSites, disjoint,
                    MergeCaddyfile(c, r, options.mergeSites), First(i) \cup Range(r))
            BY <2>3, <3>1, CaddyfileBuilds
        <3> QED
            BY <1>3, <2>3, <3>2
    <2> QED
        BY <2>2, <2>4 DEF MergeInto
<1>6. P(n)
    <2>1. 0 \in I /\ \A i \in 0 .. n - 1 : i \in I => i + 1 \in I
        <3> HIDE DEF P
        <3> QED
            BY <1>4, <1>5
    <2>2. \A i \in 0 .. n : i \in I
        <3> HIDE DEF I
        <3> QED
            BY <2>1, MergingEach!Induction
    <2> HIDE DEF P
    <2> QED
        BY <2>2
<1>7. Built(options.mergeSites, disjoint, after, First(n))
    BY <1>1, <1>6
<1>8. First(n) = X \cup Y
    BY DEF First
<1> QED
    BY <1>7, <1>8

\* Templates and the default import change only bodies.
LEMMA LabelledBlocks ==
    ASSUME NEW o, IsFiniteSet(o.blocks), \A b \in o.blocks : IsBlock(b), NEW targets
    PROVE  /\ IsFiniteSet(Labelled(o, targets))
           /\ \A b \in Labelled(o, targets) : IsBlock(b)
<1>1. ASSUME NEW b, IsBlock(b) PROVE IsBlock(ApplyDefaultImport(b))
    BY <1>1, BodyFacts DEF ApplyDefaultImport
<1>2. ASSUME NEW b, IsBlock(b) PROVE IsBlock(Evaluate(b, targets))
    BY <1>2, BodyFacts DEF Evaluate
<1> DEFINE g == [b \in o.blocks |-> ApplyDefaultImport(Evaluate(b, targets))]
<1>3. g \in Surjection(o.blocks, Labelled(o, targets))
    BY DEF Surjection, Labelled
<1>4. IsFiniteSet(Labelled(o, targets))
    <2> HIDE DEF g
    <2> QED
        BY <1>3, FS_Surjection
<1> QED
    BY <1>1, <1>2, <1>4 DEF Labelled

LEMMA LabelsRead ==
    ASSUME NEW o, IsFiniteSet(o.blocks), \A b \in o.blocks : IsBlock(b), NEW targets,
           NEW r \in LabelsToCaddyfile(o, targets)
    PROVE  IsContainer(r) /\ Range(r) = Labelled(o, targets)
    BY LabelledBlocks, SetToSeqsFacts DEF LabelsToCaddyfile, IsContainer, IsSeq

\* Each action merges the blocks that its scan notes.
LEMMA ConfigsBuild ==
    ASSUME setup \in Setups, world \in setup.worlds, NEW c \in Clients,
           NEW disjoint, NEW base, NEW X, Built(options.mergeSites, disjoint, base, X),
           NEW lost \in SUBSET DOMAIN world.configs[c],
           NEW after \in MergeEach(base, Configs(c, lost))
    PROVE  Built(options.mergeSites, disjoint, after,
                 X \cup UNION {Range(world.configs[c][i]) :
                               i \in DOMAIN world.configs[c] \ lost})
<1> DEFINE s == world.configs[c]
           blocks == [i \in DOMAIN s |-> IF i \in lost THEN {} ELSE Range(s[i])]
<1>1. s \in Seq(Range(s)) /\ \A f \in Range(s) : IsContainer(f)
    BY SetupsAssumption
<1>2. /\ Len(s) \in Nat /\ DOMAIN s = 1 .. Len(s)
      /\ \A i \in 1 .. Len(s) : s[i] \in Range(s)
    BY <1>1, SeqFacts DEF IsSeq
<1>3. /\ DOMAIN Configs(c, lost) = 1 .. Len(s)
      /\ \A i \in 1 .. Len(s) : Configs(c, lost)[i] = IF i \in lost THEN {<<>>} ELSE {s[i]}
    BY <1>2 DEF Configs
<1>4. \A i \in 1 .. Len(s) : blocks[i] = IF i \in lost THEN {} ELSE Range(s[i])
    BY <1>2
<1>5. IsContainer(<<>>) /\ Range(<<>>) = {}
    BY EmptyProper, EmptyFacts DEF Proper
<1> DEFINE Y == UNION {Range(s[i]) : i \in DOMAIN s \ lost}
<1> HIDE DEF blocks, s
<1>6. \A y : y \in Y <=> \E i \in 1 .. Len(s) : y \in blocks[i]
    <2>1. ASSUME NEW i \in DOMAIN s \ lost PROVE Range(s[i]) = blocks[i] /\ i \in 1 .. Len(s)
        BY <1>2, <1>4
    <2>2. ASSUME NEW i \in 1 .. Len(s), NEW x \in blocks[i]
          PROVE  i \in DOMAIN s \ lost /\ x \in Range(s[i])
        BY <1>2, <1>4
    <2> QED
        BY <2>1, <2>2
<1> HIDE DEF Y
<1>7. \A i \in 1 .. Len(s) : \A r \in Configs(c, lost)[i] :
         IsContainer(r) /\ Range(r) = blocks[i]
    BY <1>1, <1>2, <1>3, <1>4, <1>5
<1>8. Built(options.mergeSites, disjoint, after, X \cup Y)
    BY <1>2, <1>3, <1>6, <1>7, MergeEachBuilds
<1> QED
    BY <1>8 DEF Y, s

LEMMA ContainersBuild ==
    ASSUME setup \in Setups, world \in setup.worlds, NEW c \in Clients, NEW known,
           NEW disjoint, NEW base, NEW X, Built(options.mergeSites, disjoint, base, X),
           NEW after \in MergeEach(base, ContainerLabels(c, known)),
           NEW Y, \A b : b \in Y <=> \E o \in Range(world.containers[c]) :
                                         b \in Labelled(o, TargetIPs(o, known))
    PROVE  Built(options.mergeSites, disjoint, after, X \cup Y)
<1> DEFINE s == world.containers[c]
           blocks == [i \in DOMAIN s |-> Labelled(s[i], TargetIPs(s[i], known))]
<1>1. /\ s \in Seq(Range(s))
      /\ \A o \in Range(s) : IsFiniteSet(o.blocks) /\ \A b \in o.blocks : IsBlock(b)
    BY SetupsAssumption
<1>2. /\ Len(s) \in Nat /\ DOMAIN s = 1 .. Len(s)
      /\ \A i \in 1 .. Len(s) : s[i] \in Range(s)
      /\ \A o \in Range(s) : \E i \in 1 .. Len(s) : s[i] = o
    BY <1>1, SeqFacts DEF IsSeq
<1>3. /\ DOMAIN ContainerLabels(c, known) = 1 .. Len(s)
      /\ \A i \in 1 .. Len(s) :
            ContainerLabels(c, known)[i] = LabelsToCaddyfile(s[i], TargetIPs(s[i], known))
    BY <1>2 DEF ContainerLabels
<1>4. \A i \in 1 .. Len(s) : blocks[i] = Labelled(s[i], TargetIPs(s[i], known))
    BY <1>2
<1>5. \A b : b \in Y <=> \E i \in 1 .. Len(s) : b \in blocks[i]
    <2> HIDE DEF blocks
    <2> QED
        BY <1>2, <1>4
<1> HIDE DEF blocks, s
<1>6. \A i \in 1 .. Len(s) : \A r \in ContainerLabels(c, known)[i] :
         IsContainer(r) /\ Range(r) = blocks[i]
    BY <1>1, <1>2, <1>3, <1>4, LabelsRead
<1>7. Built(options.mergeSites, disjoint, after, X \cup Y)
    BY <1>2, <1>3, <1>5, <1>6, MergeEachBuilds
<1> QED
    BY <1>7

LEMMA ServicesBuild ==
    ASSUME setup \in Setups, world \in setup.worlds, NEW c \in Clients, NEW known,
           NEW lost,
           NEW disjoint, NEW base, NEW X, Built(options.mergeSites, disjoint, base, X),
           NEW after \in MergeEach(base, ServiceLabels(c, lost, known)),
           NEW Y, \A b : b \in Y <=> \E o \in Range(world.services[c]) :
                                         /\ o.id \notin lost
                                         /\ b \in Labelled(o, ServiceTargets(o, known))
    PROVE  Built(options.mergeSites, disjoint, after, X \cup Y)
<1> DEFINE s == world.services[c]
           blocks == [i \in DOMAIN s |-> IF s[i].id \in lost THEN {}
                                         ELSE Labelled(s[i], ServiceTargets(s[i], known))]
<1>1. /\ s \in Seq(Range(s))
      /\ \A o \in Range(s) : IsFiniteSet(o.blocks) /\ \A b \in o.blocks : IsBlock(b)
    BY SetupsAssumption
<1>2. /\ Len(s) \in Nat /\ DOMAIN s = 1 .. Len(s)
      /\ \A i \in 1 .. Len(s) : s[i] \in Range(s)
      /\ \A o \in Range(s) : \E i \in 1 .. Len(s) : s[i] = o
    BY <1>1, SeqFacts DEF IsSeq
<1>3. /\ DOMAIN ServiceLabels(c, lost, known) = 1 .. Len(s)
      /\ \A i \in 1 .. Len(s) :
            ServiceLabels(c, lost, known)[i] =
               IF s[i].id \in lost THEN {<<>>}
               ELSE LabelsToCaddyfile(s[i], ServiceTargets(s[i], known))
    BY <1>2 DEF ServiceLabels
<1>4. \A i \in 1 .. Len(s) :
         blocks[i] = IF s[i].id \in lost THEN {}
                     ELSE Labelled(s[i], ServiceTargets(s[i], known))
    BY <1>2
<1>5. \A b : b \in Y <=> \E i \in 1 .. Len(s) : b \in blocks[i]
    <2> HIDE DEF blocks
    <2>1. ASSUME NEW o \in Range(s), o.id \notin lost
          PROVE  \E i \in 1 .. Len(s) : Labelled(o, ServiceTargets(o, known)) = blocks[i]
        BY <1>2, <1>4, <2>1
    <2>2. ASSUME NEW i \in 1 .. Len(s), NEW b \in blocks[i]
          PROVE  \E o \in Range(s) : /\ o.id \notin lost
                                     /\ b \in Labelled(o, ServiceTargets(o, known))
        BY <1>2, <1>4
    <2> QED
        BY <2>1, <2>2
<1>6. IsContainer(<<>>) /\ Range(<<>>) = {}
    BY EmptyProper, EmptyFacts DEF Proper
<1> HIDE DEF blocks, s
<1>7. \A i \in 1 .. Len(s) : \A r \in ServiceLabels(c, lost, known)[i] :
         IsContainer(r) /\ Range(r) = blocks[i]
    <2> TAKE i \in 1 .. Len(s)
    <2> TAKE r \in ServiceLabels(c, lost, known)[i]
    <2>1. CASE s[i].id \in lost
        BY <1>3, <1>4, <1>6, <2>1
    <2>2. CASE s[i].id \notin lost
        <3>1. r \in LabelsToCaddyfile(s[i], ServiceTargets(s[i], known))
            BY <1>3, <2>2
        <3>2. IsContainer(r) /\ Range(r) = Labelled(s[i], ServiceTargets(s[i], known))
            BY <1>1, <1>2, <3>1, LabelsRead
        <3> QED
            BY <1>4, <2>2, <3>2
    <2> QED
        BY <2>1, <2>2
<1>8. Built(options.mergeSites, disjoint, after, X \cup Y)
    BY <1>2, <1>3, <1>5, <1>7, MergeEachBuilds
<1> QED
    BY <1>8

-----------------------------------------------------------------------------
(* The types of everything but containers.                                 *)

Fields ==
    /\ setup \in Setups
    /\ world \in setup.worlds
    /\ faults \in 0 .. MaxFaults
    /\ changes \in 0 .. MaxChanges
    /\ age \in 0 .. CacheInterval + 1
    /\ ingressNetworks \subseteq Networks
    /\ swarmIsAvailable \in [Clients -> BOOLEAN]
    /\ pc \in [Updates -> Phases]
    /\ at \in [Updates -> Clients]
    /\ servers \in [Updates -> SUBSET (Addresses \cup {Localhost})]

LEMMA InitFields == Init => Fields
<1>1. 1 \in Clients
    BY ClientsAssumption DEF Clients
<1>2. CacheInterval + 1 \in 0 .. CacheInterval + 1 /\ 0 \in 0 .. MaxFaults /\ 0 \in 0 .. MaxChanges
    BY BoundsAssumption
<1> QED
    BY <1>1, <1>2 DEF Init, Fields, Phases

LEMMA ServersListed ==
    ASSUME NEW objects, \A o \in objects : o.id \in Objects /\ o.networks \subseteq Networks
    PROVE  ControlledServers(objects) \subseteq Addresses
    BY DEF ControlledServers, Addresses

LEMMA FaultsCounted ==
    ASSUME Fields, Ok \/ Fault
    PROVE  faults' \in 0 .. MaxFaults
    BY BoundsAssumption DEF Fields, Ok, Fault

LEMMA NextClientType ==
    ASSUME Fields, NEW u \in Updates, NEW again \in Phases, NEW done \in Phases,
           NextClient(u, again, done)
    PROVE  /\ at' \in [Updates -> Clients]
           /\ \E x \in {again, done} : pc' = [pc EXCEPT ![u] = x]
<1>1. at[u] \in 1 .. NumClients /\ NumClients \in Nat /\ 1 \in 1 .. NumClients
    BY ClientsAssumption DEF Fields, Clients
<1>2. at[u] # NumClients => at[u] + 1 \in 1 .. NumClients
    BY <1>1
<1> QED
    BY <1>1, <1>2 DEF NextClient, Goto, Clients, Fields

LEMMA FieldsInductive ==
    ASSUME Fields, [Next]_vars
    PROVE  Fields'
<1> USE DEF Fields
<1>1. ASSUME NEW u \in Updates, Start(u) PROVE Fields'
    BY <1>1 DEF Start, Goto, shared, Phases
<1>2. ASSUME NEW u \in Updates, GetIngressNetworks(u) PROVE Fields'
    <2>1. faults' \in 0 .. MaxFaults
        BY <1>2, FaultsCounted DEF GetIngressNetworks
    <2>2. ingressNetworks' \subseteq Networks
        BY <1>2, NetworksAssumption DEF GetIngressNetworks
    <2> QED
        BY <1>2, <2>1, <2>2 DEF GetIngressNetworks, Goto, local, Phases
<1>3. ASSUME NEW u \in Updates, CheckCache(u) PROVE Fields'
    BY <1>3 DEF CheckCache, Goto, shared, local, Phases
<1>4. ASSUME NEW u \in Updates, CheckSwarm(u) PROVE Fields'
    <2>1. faults' \in 0 .. MaxFaults
        BY <1>4, FaultsCounted DEF CheckSwarm
    <2>2. swarmIsAvailable' \in [Clients -> BOOLEAN]
        <3>1. (at[u] \in world.swarm) \in BOOLEAN /\ FALSE \in BOOLEAN
            OBVIOUS
        <3>2. \E v \in BOOLEAN :
                 swarmIsAvailable' = [swarmIsAvailable EXCEPT ![at[u]] = v]
            BY <1>4, <3>1 DEF CheckSwarm
        <3> QED
            BY <3>2
    <2>3. at' \in [Updates -> Clients] /\ pc' \in [Updates -> Phases]
        <3>1. {"swarm", "stamp"} \subseteq Phases
            BY DEF Phases
        <3>2. NextClient(u, "swarm", "stamp")
            BY <1>4 DEF CheckSwarm
        <3>3. /\ at' \in [Updates -> Clients]
              /\ \E x \in {"swarm", "stamp"} : pc' = [pc EXCEPT ![u] = x]
            BY <3>1, <3>2, NextClientType
        <3> QED
            BY <3>1, <3>3
    <2> QED
        BY <1>4, <2>1, <2>2, <2>3 DEF CheckSwarm, local
<1>5. ASSUME NEW u \in Updates, StampCache(u) PROVE Fields'
    <2>1. 0 \in 0 .. CacheInterval + 1
        BY BoundsAssumption
    <2> QED
        BY <1>5, <2>1 DEF StampCache, Goto, local, Phases
<1>6. ASSUME NEW u \in Updates, ReadFile(u) PROVE Fields'
    <2>1. faults' \in 0 .. MaxFaults
        BY <1>6, FaultsCounted DEF ReadFile
    <2> QED
        BY <1>6, <2>1 DEF ReadFile, Goto, shared, Phases
<1>7. ASSUME NEW u \in Updates, ListConfigs(u) PROVE Fields'
    <2>1. faults' \in 0 .. MaxFaults
        BY <1>7, FaultsCounted DEF ListConfigs
    <2> QED
        BY <1>7, <2>1 DEF ListConfigs, Goto, shared, Phases
<1>8. ASSUME NEW u \in Updates, ListContainers(u) PROVE Fields'
    <2>1. faults' \in 0 .. MaxFaults
        BY <1>8, FaultsCounted DEF ListContainers
    <2>2. \A o \in Range(world.containers[at[u]]) : o.id \in Objects /\ o.networks \subseteq Networks
        BY SetupsAssumption
    <2>3. ControlledServers(Range(world.containers[at[u]])) \subseteq Addresses
        BY <2>2, ServersListed
    <2>4. \/ servers' = [servers EXCEPT ![u] =
                            @ \cup ControlledServers(Range(world.containers[at[u]]))]
          \/ servers' = servers
        BY <1>8 DEF ListContainers, local
    <2>5. servers' \in [Updates -> SUBSET (Addresses \cup {Localhost})]
        BY <2>3, <2>4
    <2> QED
        BY <1>8, <2>1, <2>5 DEF ListContainers, Goto, shared, Phases
<1>9. ASSUME NEW u \in Updates, ListServices(u) PROVE Fields'
    <2>1. faults' \in 0 .. MaxFaults
        BY <1>9, FaultsCounted DEF ListServices
    <2>2. \A o \in Range(world.services[at[u]]) : o.id \in Objects /\ o.networks \subseteq Networks
        BY SetupsAssumption
    <2>3. \/ \E unknown \in SUBSET Range(world.services[at[u]]) :
                servers' = [servers EXCEPT ![u] =
                    @ \cup ControlledServers(Range(world.services[at[u]]) \ unknown)]
          \/ servers' = servers
        BY <1>9 DEF ListServices, local
    <2>4. \A unknown : ControlledServers(Range(world.services[at[u]]) \ unknown) \subseteq Addresses
        BY <2>2, ServersListed
    <2>5. servers' \in [Updates -> SUBSET (Addresses \cup {Localhost})]
        BY <2>3, <2>4
    <2>6. at' \in [Updates -> Clients] /\ pc' \in [Updates -> Phases]
        <3>1. {"configs", "finish"} \subseteq Phases
            BY DEF Phases
        <3>2. NextClient(u, "configs", "finish")
            BY <1>9 DEF ListServices
        <3>3. /\ at' \in [Updates -> Clients]
              /\ \E x \in {"configs", "finish"} : pc' = [pc EXCEPT ![u] = x]
            BY <3>1, <3>2, NextClientType
        <3> QED
            BY <3>1, <3>3
    <2> QED
        BY <1>9, <2>1, <2>5, <2>6 DEF ListServices, shared
<1>10. ASSUME NEW u \in Updates, Finish(u) PROVE Fields'
    BY <1>10 DEF Finish, Goto, shared, Phases
<1>11. CASE Tick
    BY <1>11, BoundsAssumption DEF Tick, local
<1>12. CASE ChangeDocker
    BY <1>12, BoundsAssumption DEF ChangeDocker, shared, local
<1>13. CASE UNCHANGED vars
    BY <1>13 DEF vars, shared, local
<1> QED
    BY <1>1, <1>2, <1>3, <1>4, <1>5, <1>6, <1>7, <1>8, <1>9, <1>10, <1>11, <1>12, <1>13
    DEF Next, GenerateCaddyfile

-----------------------------------------------------------------------------
(* What a scan has merged, and what it makes of it.                        *)

\* Caddy refuses a file in which a site is defined twice, and with
\* --merge-sites the file at CaddyfilePath is merged by the keys of its blocks
\* alone: of two blocks that share a site, Process would take it from one.
SitesDefinedOnce ==
    \A s \in Setups : \A w \in s.worlds :
        \A a, b \in Range(w.file) : SharesKey(a, b) => a.keys = b.keys

\* Before the file at CaddyfilePath is read, nothing has been merged.
Early == {"idle", "networks", "cache", "swarm", "stamp", "file"}

\* The container of each update has merged what its scan has noted.
ScansBuilt ==
    /\ container = [u \in Updates |-> container[u]]
    /\ scan = [u \in Updates |-> scan[u]]
    /\ \A u \in Updates :
          /\ IsScan(scan[u])
          /\ Built(options.mergeSites, SitesDefinedOnce, container[u], scan[u].inputs)
          /\ pc[u] \in Early => container[u] = <<>> /\ scan[u].inputs = {}

\* What the update that has merged inputs leaves as the result.
ResultSound(result, inputs) ==
    /\ IsContainer(result)
    /\ options.process => Accepted(result)
    /\ ~options.mergeSites =>
          \E c : MergedBlocks(c, inputs) /\ result = Written(options.process, c)
    /\ ~options.mergeSites =>
          \A b \in SitesOf(inputs) :
             /\ \A a \in inputs : a.keys = b.keys => Sound(a, inputs)
             /\ IsSpelled(b, inputs)
             => AddressesOf(b) \subseteq AllAddresses(Range(result))
    /\ /\ SitesDefinedOnce /\ options.mergeSites
       /\ \A b \in inputs : Sound(b, inputs) /\ IsSpelled(b, inputs)
       => \A b \in SitesOf(inputs) : \E a \in Range(result) :
             KeysOf(b) \subseteq KeysOf(a) /\ b.body \subseteq a.body

GeneratedSound == ResultSound(generated.caddyfile, generated.scan.inputs)

BuildInv == Fields /\ ScansBuilt /\ GeneratedSound

LEMMA NothingSound == ResultSound(<<>>, {})
<1>1. IsContainer(<<>>)
    BY EmptyProper DEF Proper
<1>2. Accepted(<<>>)
    BY DEF Accepted
<1>3. MergedBlocks(<<>>, {}) /\ <<>> = Written(options.process, <<>>)
    BY NothingMerged, NothingWritten
<1> QED
    BY <1>1, <1>2, <1>3 DEF ResultSound, SitesOf

\* The Caddyfile that Finish leaves.
LEMMA ResultIsSound ==
    ASSUME NEW c, NEW inputs, Built(options.mergeSites, SitesDefinedOnce, c, inputs)
    PROVE  ResultSound(Result(c), inputs)
<1>1. Result(c) = Written(options.process, c)
    BY DEF Result, Written
<1>2. /\ IsContainer(Result(c))
      /\ options.process => Accepted(Result(c))
    BY <1>1, WrittenFacts DEF Built
<1>3. ASSUME ~options.mergeSites, NEW b \in SitesOf(inputs),
             \A a \in inputs : a.keys = b.keys => Sound(a, inputs),
             IsSpelled(b, inputs)
      PROVE  AddressesOf(b) \subseteq AllAddresses(Range(Result(c)))
    <2>1. MergedBlocks(c, inputs)
        BY <1>3 DEF Built
    <2>2. b \in inputs /\ IsSiteBlock(b)
        BY DEF SitesOf
    <2> QED
        BY <1>1, <1>3, <2>1, <2>2, WrittenSurvives
<1>4. ASSUME SitesDefinedOnce, options.mergeSites,
             \A b \in inputs : Sound(b, inputs) /\ IsSpelled(b, inputs),
             NEW b \in SitesOf(inputs)
      PROVE  \E a \in Range(Result(c)) :
                KeysOf(b) \subseteq KeysOf(a) /\ b.body \subseteq a.body
    <2>1. MergedSites(c, inputs) /\ AllSpelled(inputs)
        BY <1>4 DEF Built, AllSpelled
    <2>2. b \in inputs /\ IsSiteBlock(b)
        BY DEF SitesOf
    <2> QED
        BY <1>1, <1>4, <2>1, <2>2, WrittenServes
<1>5. ~options.mergeSites => MergedBlocks(c, inputs) /\ Result(c) = Written(options.process, c)
    BY <1>1 DEF Built
<1> QED
    BY <1>2, <1>3, <1>4, <1>5 DEF ResultSound

\* A step of update u that goes on with the container c and the scan s.
LEMMA BuildStep ==
    ASSUME BuildInv, Fields', NEW u \in Updates, NEW c, NEW s, IsScan(s),
           Built(options.mergeSites, SitesDefinedOnce, c, s.inputs),
           container' = [container EXCEPT ![u] = c],
           scan' = [scan EXCEPT ![u] = s],
           \E x \in Phases : /\ pc' = [pc EXCEPT ![u] = x]
                             /\ x \in Early => c = <<>> /\ s.inputs = {},
           setup' = setup,
           \/ generated' = generated
           \/ ResultSound(generated'.caddyfile, generated'.scan.inputs)
    PROVE  BuildInv'
<1>1. /\ container = [w \in Updates |-> container[w]]
      /\ scan = [w \in Updates |-> scan[w]]
      /\ pc \in [Updates -> Phases]
      /\ \A w \in Updates :
            /\ IsScan(scan[w])
            /\ Built(options.mergeSites, SitesDefinedOnce, container[w], scan[w].inputs)
            /\ pc[w] \in Early => container[w] = <<>> /\ scan[w].inputs = {}
    BY DEF BuildInv, ScansBuilt, Fields
<1>2. /\ container' = [w \in Updates |-> container'[w]] /\ container'[u] = c
      /\ \A w \in Updates \ {u} : container'[w] = container[w]
    BY <1>1
<1>3. /\ scan' = [w \in Updates |-> scan'[w]] /\ scan'[u] = s
      /\ \A w \in Updates \ {u} : scan'[w] = scan[w]
    BY <1>1
<1>4. /\ \A w \in Updates \ {u} : pc'[w] = pc[w]
      /\ pc'[u] \in Early => c = <<>> /\ s.inputs = {}
    BY <1>1
<1>5. options' = options
    BY DEF options
<1>6. ASSUME NEW w \in Updates
      PROVE  /\ IsScan(scan'[w])
             /\ Built(options.mergeSites, SitesDefinedOnce, container'[w], scan'[w].inputs)
             /\ pc'[w] \in Early => container'[w] = <<>> /\ scan'[w].inputs = {}
    BY <1>1, <1>2, <1>3, <1>4
<1>7. ScansBuilt'
    BY <1>2, <1>3, <1>5, <1>6 DEF ScansBuilt, IsScan, Built
<1>8. GeneratedSound'
    <2>1. ResultSound(generated'.caddyfile, generated'.scan.inputs)
        BY DEF BuildInv, GeneratedSound
    <2> QED
        BY <1>5, <2>1 DEF GeneratedSound, ResultSound
<1> QED
    BY <1>7, <1>8 DEF BuildInv

\* A step of update u that merges nothing.
LEMMA ScanGoesOn ==
    ASSUME BuildInv, Fields', NEW u \in Updates, NEW x \in Phases,
           pc' = [pc EXCEPT ![u] = x],
           x \in Early => pc[u] \in Early,
           UNCHANGED <<setup, container, scan, generated>>
    PROVE  BuildInv'
<1>1. /\ container = [w \in Updates |-> container[w]]
      /\ scan = [w \in Updates |-> scan[w]]
      /\ IsScan(scan[u])
      /\ Built(options.mergeSites, SitesDefinedOnce, container[u], scan[u].inputs)
      /\ pc[u] \in Early => container[u] = <<>> /\ scan[u].inputs = {}
    BY DEF BuildInv, ScansBuilt
<1>2. container' = [container EXCEPT ![u] = container[u]]
    BY <1>1
<1>3. scan' = [scan EXCEPT ![u] = scan[u]]
    BY <1>1
<1> QED
    BY <1>1, <1>2, <1>3, BuildStep

\* A step of update u that notes the blocks it merges.
LEMMA ScanMerges ==
    ASSUME BuildInv, Fields', NEW u \in Updates, NEW c, NEW blocks, NEW objects,
           Built(options.mergeSites, SitesDefinedOnce, c, scan[u].inputs \cup blocks),
           container' = [container EXCEPT ![u] = c],
           Note(u, blocks, objects),
           \E x \in Phases \ Early : pc' = [pc EXCEPT ![u] = x],
           UNCHANGED <<setup, generated>>
    PROVE  BuildInv'
<1> DEFINE s == [inputs |-> scan[u].inputs \cup blocks,
                 read   |-> scan[u].read \cup {o.id : o \in objects},
                 before |-> scan[u].before]
<1>1. scan = [w \in Updates |-> scan[w]]
    BY DEF BuildInv, ScansBuilt
<1>2. scan' = [scan EXCEPT ![u] = s]
    BY <1>1 DEF Note
<1>3. IsScan(s) /\ s.inputs = scan[u].inputs \cup blocks
    BY DEF IsScan
<1> HIDE DEF s
<1> QED
    BY <1>2, <1>3, BuildStep

\* Every step of a generator keeps the invariant.
LEMMA BuildInvInductive ==
    ASSUME BuildInv, [Next]_vars
    PROVE  BuildInv'
<1>1. Fields'
    BY FieldsInductive DEF BuildInv
<1>2. /\ setup \in Setups /\ world \in setup.worlds
      /\ at \in [Updates -> Clients]
      /\ container = [u \in Updates |-> container[u]]
      /\ scan = [u \in Updates |-> scan[u]]
      /\ \A u \in Updates :
            /\ IsScan(scan[u])
            /\ Built(options.mergeSites, SitesDefinedOnce, container[u], scan[u].inputs)
            /\ pc[u] \in Early => container[u] = <<>> /\ scan[u].inputs = {}
    BY DEF BuildInv, ScansBuilt, Fields
<1>3. Early \subseteq Phases /\ {"configs", "containers", "services", "finish"} \subseteq Phases \ Early
    BY DEF Early, Phases
<1>4. ASSUME NEW u \in Updates, Start(u) PROVE BuildInv'
    <2> DEFINE s == [scan[u] EXCEPT !.before = Proxied(generated.scan.inputs)]
    <2>1. /\ scan' = [scan EXCEPT ![u] = s] /\ pc[u] \in Early
          /\ pc' = [pc EXCEPT ![u] = "networks"] /\ "networks" \in Phases
          /\ UNCHANGED <<setup, container, generated>>
        BY <1>2, <1>4 DEF Start, Goto, Early, Phases
    <2>2. IsScan(s) /\ s.inputs = scan[u].inputs
        BY <1>2 DEF IsScan
    <2>3. container' = [container EXCEPT ![u] = container[u]]
        BY <1>2, <2>1
    <2> HIDE DEF s
    <2> QED
        BY <1>1, <1>2, <2>1, <2>2, <2>3, BuildStep
<1>5. ASSUME NEW u \in Updates,
             GetIngressNetworks(u) \/ CheckCache(u) \/ CheckSwarm(u) \/ StampCache(u)
      PROVE  BuildInv'
    <2>1. /\ pc[u] \in Early /\ UNCHANGED <<setup, container, scan, generated>>
          /\ \E x \in Early : pc' = [pc EXCEPT ![u] = x]
        BY <1>5 DEF GetIngressNetworks, CheckCache, CheckSwarm, StampCache, NextClient,
                    Goto, Early, shared, local
    <2> QED
        BY <1>1, <1>3, <2>1, ScanGoesOn
<1>6. ASSUME NEW u \in Updates, ReadFile(u) PROVE BuildInv'
    <2>1. /\ pc' = [pc EXCEPT ![u] = "configs"] /\ pc[u] \in Early
          /\ UNCHANGED <<setup, generated>>
        BY <1>6 DEF ReadFile, Goto, Early
    <2>2. CASE UNCHANGED <<container, scan>>
        BY <1>1, <1>3, <2>1, <2>2, ScanGoesOn
    <2>3. CASE /\ container' = [container EXCEPT ![u] = Merge(container[u], world.file)]
               /\ Note(u, Range(world.file), {})
        <3>1. container[u] = <<>> /\ scan[u].inputs = {}
            BY <1>2, <2>1
        <3>2. /\ IsContainer(world.file)
              /\ SitesDefinedOnce => \A a, b \in Range(world.file) :
                                        SharesKey(a, b) => a.keys = b.keys
            BY <1>2, SetupsAssumption DEF SitesDefinedOnce
        <3>3. Built(options.mergeSites, SitesDefinedOnce, Merge(<<>>, world.file),
                    Range(world.file))
            BY <3>2, BaseBuilds
        <3>4. scan[u].inputs \cup Range(world.file) = Range(world.file)
            BY <3>1
        <3> QED
            BY <1>1, <1>3, <2>1, <2>3, <3>1, <3>3, <3>4, ScanMerges
    <2>4. \/ UNCHANGED <<container, scan>>
          \/ /\ container' = [container EXCEPT ![u] = Merge(container[u], world.file)]
             /\ Note(u, Range(world.file), {})
        BY <1>2, <1>6 DEF ReadFile
    <2> QED
        BY <2>2, <2>3, <2>4
<1>7. ASSUME NEW u \in Updates, ListConfigs(u) PROVE BuildInv'
    <2>1. /\ pc' = [pc EXCEPT ![u] = "containers"] /\ pc[u] = "configs"
          /\ UNCHANGED <<setup, generated>>
        BY <1>7 DEF ListConfigs, Goto
    <2>2. CASE UNCHANGED <<container, scan>>
        BY <1>1, <1>3, <2>1, <2>2, ScanGoesOn
    <2>3. ASSUME NEW lost \in SUBSET DOMAIN world.configs[at[u]],
                 NEW after \in MergeEach(container[u], Configs(at[u], lost)),
                 container' = [container EXCEPT ![u] = after],
                 Note(u, UNION {Range(world.configs[at[u]][i]) :
                                i \in DOMAIN world.configs[at[u]] \ lost}, {})
          PROVE  BuildInv'
        <3> DEFINE blocks == UNION {Range(world.configs[at[u]][i]) :
                                    i \in DOMAIN world.configs[at[u]] \ lost}
        <3>1. Built(options.mergeSites, SitesDefinedOnce, after, scan[u].inputs \cup blocks)
            BY <1>2, ConfigsBuild
        <3>2. Note(u, blocks, {})
            BY <2>3
        <3> HIDE DEF blocks
        <3> QED
            BY <1>1, <1>3, <2>1, <2>3, <3>1, <3>2, ScanMerges
    <2>4. \/ UNCHANGED <<container, scan>>
          \/ \E lost \in SUBSET DOMAIN world.configs[at[u]] :
                /\ \E after \in MergeEach(container[u], Configs(at[u], lost)) :
                      container' = [container EXCEPT ![u] = after]
                /\ Note(u, UNION {Range(world.configs[at[u]][i]) :
                                  i \in DOMAIN world.configs[at[u]] \ lost}, {})
        BY <1>7 DEF ListConfigs
    <2> QED
        BY <2>2, <2>3, <2>4
<1>8. ASSUME NEW u \in Updates, ListContainers(u) PROVE BuildInv'
    <2> DEFINE objs == Range(world.containers[at[u]])
               blocks == BlocksOf(objs, LAMBDA o : TargetIPs(o, ingressNetworks))
    <2>1. /\ pc' = [pc EXCEPT ![u] = "services"] /\ pc[u] = "containers"
          /\ UNCHANGED <<setup, generated>>
        BY <1>8 DEF ListContainers, Goto
    <2>2. CASE UNCHANGED <<container, scan>>
        BY <1>1, <1>3, <2>1, <2>2, ScanGoesOn
    <2>3. ASSUME NEW after \in MergeEach(container[u],
                                         ContainerLabels(at[u], ingressNetworks)),
                 container' = [container EXCEPT ![u] = after],
                 Note(u, blocks, objs)
          PROVE  BuildInv'
        <3>1. \A b : b \in blocks <=> \E o \in Range(world.containers[at[u]]) :
                                        b \in Labelled(o, TargetIPs(o, ingressNetworks))
            BY DEF BlocksOf
        <3>2. at[u] \in Clients
            BY <1>2
        <3>3. Built(options.mergeSites, SitesDefinedOnce, after, scan[u].inputs \cup blocks)
            <4> HIDE DEF blocks, objs
            <4> QED
                BY <1>2, <3>1, <3>2, ContainersBuild
        <3> HIDE DEF blocks, objs
        <3> QED
            BY <1>1, <1>3, <2>1, <2>3, <3>3, ScanMerges
    <2>4. \/ UNCHANGED <<container, scan>>
          \/ /\ \E after \in MergeEach(container[u],
                                       ContainerLabels(at[u], ingressNetworks)) :
                   container' = [container EXCEPT ![u] = after]
             /\ Note(u, blocks, objs)
        BY <1>8 DEF ListContainers, local
    <2> HIDE DEF blocks, objs
    <2> QED
        BY <2>2, <2>3, <2>4
<1>9. ASSUME NEW u \in Updates, ListServices(u) PROVE BuildInv'
    <2> DEFINE known(lost) == {o \in Range(world.services[at[u]]) : o.id \notin lost}
               blocks(lost) == BlocksOf(known(lost), LAMBDA o :
                                        ServiceTargets(o, ingressNetworks))
    <2>1. /\ NextClient(u, "configs", "finish") /\ pc[u] = "services"
          /\ UNCHANGED <<setup, generated>>
        BY <1>9 DEF ListServices
    <2>2. \E x \in Phases \ Early : pc' = [pc EXCEPT ![u] = x]
        BY <1>3, <2>1 DEF NextClient, Goto
    <2>3. CASE UNCHANGED <<container, scan>>
        BY <1>1, <2>1, <2>2, <2>3, ScanGoesOn
    <2>4. ASSUME NEW lost,
                 NEW after \in MergeEach(container[u],
                                         ServiceLabels(at[u], lost, ingressNetworks)),
                 container' = [container EXCEPT ![u] = after],
                 Note(u, blocks(lost), known(lost))
          PROVE  BuildInv'
        <3>1. \A b : b \in blocks(lost) <=>
                        \E o \in Range(world.services[at[u]]) :
                           /\ o.id \notin lost
                           /\ b \in Labelled(o, ServiceTargets(o, ingressNetworks))
            BY DEF BlocksOf
        <3>2. at[u] \in Clients
            BY <1>2
        <3> DEFINE Y == blocks(lost)
        <3>3. Built(options.mergeSites, SitesDefinedOnce, after, scan[u].inputs \cup Y)
            <4> HIDE DEF blocks, known
            <4>1. \A b : b \in Y <=>
                        \E o \in Range(world.services[at[u]]) :
                           /\ o.id \notin lost
                           /\ b \in Labelled(o, ServiceTargets(o, ingressNetworks))
                BY <3>1
            <4> HIDE DEF Y
            <4> QED
                BY <1>2, <3>2, <4>1, ServicesBuild
        <3>4. Note(u, Y, known(lost))
            BY <2>4
        <3> HIDE DEF blocks, known, Y
        <3> QED
            BY <1>1, <2>1, <2>2, <2>4, <3>3, <3>4, ScanMerges
    <2>5. \/ UNCHANGED <<container, scan>>
          \/ \E lost :
                /\ \E after \in MergeEach(container[u],
                                          ServiceLabels(at[u], lost, ingressNetworks)) :
                      container' = [container EXCEPT ![u] = after]
                /\ Note(u, blocks(lost), known(lost))
        BY <1>9 DEF ListServices, local
    <2> HIDE DEF blocks, known
    <2> QED
        BY <2>3, <2>4, <2>5
<1>10. ASSUME NEW u \in Updates, Finish(u) PROVE BuildInv'
    <2>1. /\ pc' = [pc EXCEPT ![u] = "idle"] /\ "idle" \in Phases
          /\ setup' = setup
          /\ generated'.caddyfile = Result(container[u])
          /\ generated'.scan = scan[u]
          /\ container' = [container EXCEPT ![u] = <<>>]
          /\ scan' = [scan EXCEPT ![u] = NoScan]
        BY <1>10 DEF Finish, Goto, Phases
    <2>2. ResultSound(generated'.caddyfile, generated'.scan.inputs)
        BY <1>2, <2>1, ResultIsSound
    <2>3. IsScan(NoScan) /\ NoScan.inputs = {}
        BY DEF IsScan, NoScan
    <2>4. Built(options.mergeSites, SitesDefinedOnce, <<>>, NoScan.inputs)
        BY <2>3, NothingBuilt
    <2> QED
        BY <1>1, <2>1, <2>2, <2>3, <2>4, BuildStep
<1>11. ASSUME UNCHANGED <<setup, pc, container, scan, generated>> PROVE BuildInv'
    <2>1. options' = options
        BY <1>11 DEF options
    <2> QED
        BY <1>1, <1>11, <2>1
        DEF BuildInv, ScansBuilt, GeneratedSound, ResultSound, IsScan, Built
<1>12. CASE Tick \/ ChangeDocker \/ UNCHANGED vars
    BY <1>11, <1>12 DEF Tick, ChangeDocker, vars, shared, local
<1> QED
    BY <1>4, <1>5, <1>6, <1>7, <1>8, <1>9, <1>10, <1>12 DEF Next, GenerateCaddyfile

LEMMA InitBuilds == Init => BuildInv
<1> SUFFICES ASSUME Init PROVE BuildInv
    OBVIOUS
<1>1. IsScan(NoScan) /\ NoScan.inputs = {}
    BY DEF IsScan, NoScan
<1>2. Built(options.mergeSites, SitesDefinedOnce, <<>>, NoScan.inputs)
    BY <1>1, NothingBuilt
<1>3. ScansBuilt
    BY <1>1, <1>2 DEF Init, ScansBuilt
<1>4. generated.caddyfile = <<>> /\ generated.scan.inputs = {}
    BY DEF Init, NoResult, NoScan
<1>5. GeneratedSound
    BY <1>4, NothingSound DEF GeneratedSound
<1> QED
    BY <1>3, <1>5, InitFields DEF BuildInv

LEMMA AlwaysBuilt == Spec => []BuildInv
<1>1. BuildInv /\ [Next]_vars => BuildInv'
    BY BuildInvInductive
<1> QED
    BY <1>1, InitBuilds, PTL DEF Spec

\* Every variable has its type; containers hold blocks without repeated keys,
\* in which the name of a snippet stands alone, however often blocks are
\* merged by mergeCaddyfile and mergeSiteBlocks.
THEOREM TypeCorrect == Spec => []TypeOK
<1>1. BuildInv => TypeOK
    BY DEF BuildInv, Fields, ScansBuilt, Built, Proper, GeneratedSound, ResultSound, TypeOK
<1> QED
    BY <1>1, AlwaysBuilt, PTL

\* Process leaves a Caddyfile that Caddy accepts, whatever labels, configs and
\* the file at CaddyfilePath say, and for any number of them.
THEOREM ProcessedResultAdapts == Spec => []ResultAdapts
<1>1. BuildInv => ResultAdapts
    BY DEF BuildInv, GeneratedSound, ResultSound, ResultAdapts, Accepted
<1> QED
    BY <1>1, AlwaysBuilt, PTL

\* No block that Process changes or removes takes the addresses of a sound one
\* with it, which has been merged by its keys with sound blocks only, and writes
\* the addresses that others have as well in the way they do.
THEOREM SoundSitesSurvive == Spec => []SitesSurvive
<1>1. BuildInv => SitesSurvive
    BY DEF BuildInv, GeneratedSound, ResultSound, SitesSurvive, AllAddresses
<1> QED
    BY <1>1, AlwaysBuilt, PTL

\* The options are given once.
LEMMA SetupStays ==
    ASSUME [Next]_vars
    PROVE  setup' = setup
<1>1. ASSUME NEW u \in Updates, GenerateCaddyfile(u) PROVE setup' = setup
    <2>1. CASE Start(u) \/ GetIngressNetworks(u)
        BY <2>1 DEF Start, GetIngressNetworks
    <2>2. CASE CheckCache(u) \/ CheckSwarm(u) \/ StampCache(u)
        BY <2>2 DEF CheckCache, CheckSwarm, StampCache
    <2>3. CASE ReadFile(u) \/ ListConfigs(u) \/ ListContainers(u) \/ ListServices(u)
        BY <2>3 DEF ReadFile, ListConfigs, ListContainers, ListServices
    <2>4. CASE Finish(u)
        BY <2>4 DEF Finish
    <2> QED
        BY <1>1, <2>1, <2>2, <2>3, <2>4 DEF GenerateCaddyfile
<1>2. CASE Tick \/ ChangeDocker
    BY <1>2 DEF Tick, ChangeDocker
<1>3. CASE UNCHANGED vars
    BY <1>3 DEF vars
<1> QED
    BY <1>1, <1>2, <1>3 DEF Next

\* An update that merges the same blocks as the one before it makes the same
\* Caddyfile, whatever order FromLabels and Docker gave them in: compareBlocks
\* puts them in one order, and update has nothing to reload.
THEOREM SameBlocksAreWrittenAlike == Spec => SameBlocksSameResult
<1> DEFINE Alike ==
        LET inputs     == generated.scan.inputs
            positioned == \A a, b \in inputs : a.keys = b.keys => a.order = b.order
        IN  generated'.scan.inputs = inputs /\ ~options.mergeSites /\ positioned
               => generated'.caddyfile = generated.caddyfile
<1>1. BuildInv /\ BuildInv' /\ [Next]_vars => [Alike]_vars
    <2> SUFFICES ASSUME BuildInv, BuildInv', [Next]_vars,
                        generated'.scan.inputs = generated.scan.inputs,
                        ~options.mergeSites,
                        \A a, b \in generated.scan.inputs : a.keys = b.keys => a.order = b.order
                 PROVE  generated'.caddyfile = generated.caddyfile
        OBVIOUS
    <2>1. options' = options
        BY SetupStays DEF options
    <2>2. PICK c : /\ MergedBlocks(c, generated.scan.inputs)
                   /\ generated.caddyfile = Written(options.process, c)
        BY DEF BuildInv, GeneratedSound, ResultSound
    <2>3. PICK e : /\ MergedBlocks(e, generated'.scan.inputs)
                   /\ generated'.caddyfile = Written(options.process, e)
        BY <2>1 DEF BuildInv, GeneratedSound, ResultSound
    <2> QED
        BY <2>2, <2>3, WrittenSame
<1> QED
    BY <1>1, AlwaysBuilt, PTL DEF Spec, SameBlocksSameResult

\* With --merge-sites, mergeSiteBlocks and Process lose nothing of a scan that
\* is sound and writes each address that blocks share in one way, when the file
\* at CaddyfilePath defines every site once.
THEOREM MergedSitesServed ==
    ASSUME SitesDefinedOnce
    PROVE  Spec => []MergedServesAll
<1>1. BuildInv => MergedServesAll
    BY DEF BuildInv, GeneratedSound, ResultSound, MergedServesAll
<1> QED
    BY <1>1, AlwaysBuilt, PTL
=============================================================================
