# Verification of caddy-docker-proxy

caddy-docker-proxy turns Docker labels into a Caddyfile, converts it to JSON and
pushes it to a set of Caddy servers; it can also publish the site names to DNS
(Technitium) and mDNS (Avahi).  This directory holds TLA+ models of its
concurrent core, TLC configurations that check them, and TLAPS proofs about
them.  Paths below are relative to the repository.

- [Components](#components): the parts of the program, and what makes each correct
- [Modules](#modules): which module models what, and how it corresponds to the code
- [Runs](#runs): what TLC checks, with which bounds and why they are enough
- [Fairness and other assumptions](#fairness-and-other-assumptions)
- [Disagreements](#disagreements-between-the-code-and-its-documents) between the code and its documents
- [Proofs](#proofs)
- [What is not modelled](#what-is-not-modelled), and the [plan](#plan)

## Components

**DockerLoader, events and timer** (`loader.go` 159-252).  State: `timer`,
`skipEvents` (one flag per Docker client).  `monitorEvents` / `listenEvents` is
one goroutine that reads the event stream of one client until it fails, then the
next client's; the first event of interest sets the client's skip flag and
re-arms the timer to the throttle interval, and further events are discarded
while the flag is set.  Every expiry of the timer runs `update` in a goroutine
of its own; `update` re-arms the timer to the polling interval, clears the flags
and scans Docker.  Nothing is locked, and two updates can run at once.  Hard: the
order of arming, clearing and scanning; endless events; streams nobody reads.
Correct when skipping always ends, no event is lost between the two goroutines,
and every change is scanned in the end.

**DockerLoader, configuration push** (`loader.go` 244-362, `utils/*CMap.go`).
State: `lastCaddyfile`, `lastJSONConfig`, `lastVersion` (no lock), and the
concurrent maps `serversVersions` and `serversUpdating`.  `update` compares the
scan with `lastCaddyfile`, converts a new one, raises the version, and starts one
`updateServer` per controlled server, which it waits for.  `updateServer` skips a
server that is being updated or has the version, sends the configuration, records
the version, and hands the Caddyfile to the name publisher.  Hard: overlapping
updates; lost requests and answers; invalid Caddyfiles; restarting servers.
Correct when a recorded version is never ahead of the server, no server goes
back, all servers converge, and one that never answers keeps only itself from it.

**Caddyfile autosave** (`loader.go` 260-266).  The file and its temporary twin.
Correct when the autosave file is always a whole Caddyfile, whatever fails.

**DockerLoader, start** (`loader.go` 58-176).  Connects the sockets, builds the
generator and the publishers, arms the timer, starts `monitorEvents`.

**Generator** (`generator/`).  State: swarm availability per client, cached for a
minute; ingress networks, kept when they cannot be listed; both written by
overlapping updates without a lock.  Scans base Caddyfile, swarm configs,
containers and services, client by client, and merges what they define.  Hard:
partial failure (a failed list leaves its sites out), stale cache, merging of
overlapping site blocks.  Correct when what failed comes back with a later scan,
known networks stay known, and `--merge-sites` loses nothing.

**Caddyfile data structure** (`caddyfile/`).  Blocks with keys and children; built
from labels in Go's map order, merged, sorted, written, and read again by
`Process`.  Correct when the text does not depend on the map order, no label is
lost, and the text reads back as the blocks that were written.

**Caddyfile processor** (`caddyfile/processor.go`).  Adds block after block and
removes what the adapter refuses.  Correct when it ends, its result adapts, and a
bad block takes no other site with it.

**Name publication manager** (`namepublish/manager.go`, `extract.go`).  State:
last version and hash of names, under a mutex; one goroutine per publication
runs all publishers one after another under one deadline of 195s.  Hard: calls of
two servers, or of a late answer, come out of order, with names that are newer
than the version they come with; a publisher fails.  Correct when the newest
publication ends up being for the names of the last valid Caddyfile.

**Technitium publisher** (`namepublish/technitium.go`).  No state of its own: it
lists the zone, deletes managed records that are not desired, and adds the
desired ones, call by call, up to five attempts.  Hard: overlapping publications,
failures half way, records of others.  Correct when records of others survive,
success means the zone is as desired, and every call returns.

**Avahi publisher** (`namepublish/avahi.go`).  State: names, addresses and their
hash under a mutex, the mDNS server, a ticker.  `Publish` and the ticker both run
`reconcile`, which releases the mutex between reading and writing back.  Correct
when the responder answers for the names it was last told and follows the
address of the host.

**Others**: command line and options (`cmd.go`, `config/`, `module.go`), the
pass-through to the Docker API (`docker/`), logging (`logger.go`).

The parts interact through shared memory (listener and updates; updates among
themselves), goroutines (`update` → `updateServer` → manager → publishers), and
requests to Docker, the servers and the DNS server.

## Modules

| module | models | instance |
|---|---|---|
| `DockerEvents` | listener, timer, the beginning of `update` | `MCDockerEvents` |
| `Loader` | `update` after its scan, `updateServer` | `MCLoader` |
| `Rollout` | what `Loader` promises: no server goes back (`Spec`), each reaches the newest (`Reached`) | with `Loader` |
| `NamePublish` | `MaybePublish` and the publications it starts | with `Publication` |
| `Publication` | `Loader` composed with `NamePublish` | `MCPublication` |
| `Labels` | `FromLabels`, `Merge`, `Marshal`, `Unmarshal` on nested blocks | `MCLabels` |
| `Generator` | `GenerateCaddyfile`, call by call, and its two caches | `MCGenerator` |
| `Caddyfile` | merging, sorting and processing of blocks, as operators | with `Generator` |
| `Autosave` | the autosave file | `MCAutosave` |
| `Technitium` | `TechnitiumPublisher.Publish` and the zone | `MCTechnitium` |
| `Avahi` | `AvahiPublisher` and its ticker | `MCAvahi` |
| `DockerEventsProofs`, `AutosaveProofs`, `AvahiProofs`, `TechnitiumProofs` | proofs about the module they are named after | |
| `LoaderProofs` | proofs about `Loader` (in every schedule, and without overlap), `Rollout` and `Publication` | |
| `Folding` | lemmas about folds over sequences, for any step | |
| `CaddyfileProofs`, `GeneratorProofs` | proofs about the operators of `Caddyfile`, and about `Generator` on top of them | |

Variables carry the names of the fields and locals they stand for.  Ghost
variables, which no guard reads, are marked as such where they are declared.
Operators named "A mutant of ..." are not part of the specifications; each is a
plausible bug in one definition, and `PROJECT.json` names the property that finds
it.

**DockerEvents.**  A host is the number of changes of what a scan of it would
return (`revision`); `read` is what the newest scan saw and `heard` what the last
event that was taken told of.  Listener: `Connect`, `ReceiveEvent` (the flag),
`ResetThrottle` (the timer, a separate step), `StreamError`.  Update: `Fire`,
`ResetPolling`, `ClearSkip` (one flag per step), `ReadHost` (one host per step).
The timer is a count of ticks, so arming it overwrites the earlier deadline just
as `Reset` does.  A goroutine is free again after its scan.

**Loader.**  `pc[u]` walks through `update`, `step[p]` through `updateServer`,
where a push `p` is an update and a position in its list of servers.  Every
access to a shared variable is a step of its own: the comparison and the
assignment of `lastCaddyfile`, the conversion, `lastJSONConfig`, the load and
the store of `lastVersion++`, the `Get` and `Set` of each map.  A configuration is
numbered by the assignment to `lastJSONConfig` that made it (`commit`), which the
code does not store; the number lets properties say "newer".  `Apply` is the
server loading what it was sent; before it the request can fail (`SendFails`),
after it the answer can be lost (`ReplyLost`).  `http.DefaultClient` has no
timeout, so a server may keep a request: `Delay` makes it late (`late`), and it is
answered after any number of later updates, or never.  Meanwhile its update waits
and its server is marked, and the timer starts other updates.  `OverlapPhases` says how far the
other updates must be for the timer to start another one; `Phases` means any
time, as in the code, and `{}` that an update never outlasts the polling and
throttle intervals.  It is a statement about timing, the code does not enforce
it, and the properties that need it say so.  An update that waits for a late request
only (`Stuck`) holds up no other one even then, as in the code.

**Rollout** knows the newest configuration, what each server runs, and which
servers are silent (keep a request).  `ImplementsRollout` maps `newest` to `lastJSONConfig` and
`silent` to the servers with a late request; a step of `Loader` that is neither a
new configuration nor a load is a stutter.  It is the safety of the rollout alone and
is both checked and proved.  `ReachesNewest`
is the liveness of the same module under the same mapping: a server that does not stay
silent for ever reaches the newest configuration again and again, also when its pushes
failed and the Caddyfile has since changed to one that is refused, which `Convergence`
leaves open.

**Publication** composes `Loader` with **NamePublish**: the step of `Loader` that hands
over the Caddyfile is the critical section of `MaybePublish`, with the version that
was sent and the Caddyfile as it is by then, which need not belong together.  A
key of a site stands for the set of hosts that splitting and normalizing give.
A publication is the calls of its publishers in a row, with or without an error; what
a publisher does is in `Technitium` and `Avahi`.

**Labels.**  `Visit` is a round of the loop of `FromLabels`, for any label not yet
visited; `MergeObject` ends an object, `WriteCaddyfile` the scan.  Blocks are
records with nested sequences of children.  A line of text is a sequence of
tokens; quoting and characters are left out, line breaks within a token are not,
because the parser counts lines.  Values with templates have been executed.

**Generator**, on top of **Caddyfile**.  `pc[u]` walks through `GenerateCaddyfile`:
`GetIngressNetworks`, `CheckCache`, `CheckSwarm` (one client per step),
`StampCache`, `ReadFile`, and for each client `ListConfigs`, `ListContainers` and
`ListServices`, which read `ingressNetworks` and `swarmIsAvailable` as they are
then; `Finish` sorts and processes.  A listing and the calls for what it listed
are one step, in which any of them can fail; what a failure leaves out is left
out, and the scan goes on.  A Caddyfile is a sequence of blocks of keys, an order
and a set of directives (`reverse_proxy` collects upstreams, equal directives are
one); no block has a key twice, and the name of a snippet is the only key of its block
(`IsBlock`).  Keys are the tokens as they are written, and the code compares keys; Caddy
compares the addresses that it reads in them (`Address`): of `a.com, b.com` the first key
is `a.com,`, its address `a.com`, and a placeholder or a spelling in capitals is
another such pair.  The blocks of one object are merged in every order, for `FromLabels` ranges
over a map, one block after another, as `mergeCaddyfile` is called (`MergeEach`).
`sort.SliceStable` is a stable insertion sort (`InsertSorted`): its result is determined
by `compareBlocks`.  The loop of `Process` is given by its result (`ProcessBlock`): the addresses that are
ambiguous are taken out of the keys, and the block goes when one of them is no key of it
(`removeBlockKey` fails), when no key is left, or when Caddy refuses the rest, also
because it now ends in a comma.  `Adapts` and `Ambiguous`
are what the code relies on Caddy's adapter for: no invalid directive, snippets
before their imports, no address in two blocks.  Two calls that Docker always
refuses are part of the model: without `--ingress-networks` a second host does not
know the controller's container (`NetworksAreFound`), and `TaskList` fails on a
client that is no swarm, for the services of all (`TasksAreRefused`).

**Autosave.**  File names refer to numbered files, because a goroutine goes on
writing the file it has opened after a rename.  Any step can fail, and the
controller can crash between any two.

**Technitium.**  `Publish` filters the names, which it compares with the zone in their
normal form (`Normal`: lower case, no final dot) and keeps as they are written; records
have names in normal form, and are looked up by the name as it is written, so that
`App` passes the filter and does not find `app`. `GetZoneRecords` takes the snapshot
on which all decisions are taken; `DeleteRecord`, `AddRecord`, `SkipName` are the
calls and loop rounds of `publishOnce`; each call fails before it takes effect
(`CallFails`), after it (the `Failed` alternatives), or for good (`CallRefused`).
Others edit the zone at any time (`Edit`).  `disturbed` is a ghost: the calls
during which another call ran or an edit was made.  The code's loop visits the names
in the order of its list; the model takes any order (`EnterName`), since what is
promised does not depend on it.  `WellFormed` is what the server makes of a zone: one
record per name, type and value, and one managed record at most per name and type,
because every managed record was added with `overwrite=true`.

**Avahi.**  `Publish`, `EnsureServer` / `NewServer`, and the steps of `reconcile`
between two critical sections: `Snapshot`, `Resolve`, `Check`, `Update`, `Clear`.
Thread 0 is the ticker.  The hash is the pair it hashes.  `AnsweredNames` is what somebody who asks is
told, by the server, so nothing as long as none runs; when `NewServer` has failed, only
another call of `Publish` tries again, the ticker does not.  A lookup fails when the
resolver does or when the publishers before it have used up the shared deadline.
`undisturbed` is a ghost: the calls that no other call met on their way;
`MaxTogether` bounds how many are under way at once.

## Runs

All properties hold in the "pass" runs; the "violation" runs are explained in the
next section but one.

| run | checks | instance |
|---|---|---|
| `events` | `SkippingEnds`, `EventNotLost`, `ChangeEventuallyRead` | 2 clients, 2 updates, streams with an event of interest and one without |
| `loader_overlap` | `BodyAsNewAsVersion`, `FlagHasOwner` | 2 updates at any time, 1 server that restarts once, an invalid Caddyfile |
| `loader_sequential` | `RecordedIsRunning`, `ImplementsRollout`, `PublishedIsRunningIfValid`, `Convergence` | no overlap except with 1 late request, 2 servers, 2 valid Caddyfiles, 1 change |
| `publish` | `NamesFollow`, `ReachesNewest` | no overlap except with 1 late request, 1 server, 2 valid Caddyfiles and an invalid one, 2 changes, 2 publishers |
| `labels` | `OrderIndependent`, `LabelsSurvive`, `ReadsBack` | 5 scans of one or two of 4 objects, all orders of visits |
| `generator` | `ResultAdapts`, `SitesSurvive`, `MergedServesAll`, `UpstreamsKept`, `SameBlocksSameResult`, `Recovers` | 2 hosts, 5 setups, 1 failing call, 1 change of Docker or 2 overlapping updates |
| `autosave` | `AutosaveWhole`, `AutosaveIsNew` | no overlap, 2 crashes |
| `technitium` | `UnmanagedKept`, `SuccessIsExact`, `PublishReturns` | 2 calls that may overlap, 3 sets of names in any order (one in capitals), 3 initial zones, 1 edit, 2 attempts |
| `avahi` | `OneServer`, `SuccessAnswers`, `AddressFollowed`, `NewestAnswered` | 3 calls and a ticker, 2 of them at once, failing lookups and servers that do not start, 1 change of address |
| `loader_stale_json`, `loader_unapplied_names`, `loader_restart` | one documented claim each | the smallest that shows it |

The component runs check the type invariant too (`loader_overlap` that of `Loader`);
`ManagerTypeOK` also says that the manager remembers its newest publication.

Why the bounds are enough.  *Events*: the loops over clients need two clients to
be loops; two updates give every overlap of pairs, and the properties speak of
one client at a time.  One change per host is enough, since a discarded event
needs only an earlier event (which may report nothing) and a change; `MaxBacklog`
limits the waiting events, not how many arrive.  The intervals are short, but all
orders of a tick and any other step occur; the proofs need no bound at all.
*Loader*: two updates give the races of pairs; with one change of Docker each
update can see another Caddyfile, with two the first one can come back (A, X, A).
Pushes to
different servers share what they read, and the update that waits for them, so
`loader_sequential` has two servers: one keeps a request while the other must go
on.  `loader_overlap` has one, for the races there are about `lastVersion`,
`lastJSONConfig` and the map entries of one server.  One late request is one that
is overtaken by whole updates; two of one server cannot be, since the mark keeps
the second push away.  *Publication*: with two changes the first Caddyfile comes
back, so that names are published, replaced and published again; `MaxPublications`
is above what the changes and the late answer can start.  A valid Caddyfile whose push fails
can be followed by the invalid one, which is where `ReachesNewest` says more than
`Convergence`.
*Generator*: the worlds of `MCGenerator` bring together what the code tells apart:
a base file with global options and an import, a snippet from a label, addresses
shared with the file, with a config and between objects on different hosts,
blocks with one and with all addresses taken, an invalid block with the keys of a
sound one, an object with two blocks, an overridden network, a host that is no
swarm, a label whose template fails, and a block `D, E` whose first address is defined as
`D` too or not, and whose second is taken or not, so that it is kept, loses one key and
ends in a comma, or goes because `D` is not found among its keys.  One failing call at every place shows what each failure leaves behind;
two updates that overlap share the caches in every order.  Changes and overlap
are in different setups to keep the run short.  `CacheInterval` is shortened to one
polling interval; the cache is fresh, at its limit, and stale all the same.
*Technitium*: two calls are one race or one sequence of a failed and a later call;
two attempts are one failure and one retry.  The initial zones hold the cases the
code distinguishes: nothing, managed records with a wrong and a right value beside
one of another type, and a foreign record next to a managed one of the wrong
type.  One set of names is `App`, which belongs to the zone and meets the records of
`app` there.  *Avahi*: three calls allow a set of names to be published, withdrawn and
published again, and two at a time give every race of pairs, the ticker included.
*Labels*: the objects are a service and its replica with another upstream (the
same block at each depth, a proxy directive whose arguments and subdirectives are
merged, a token with a line break), an object with two isolated directives (equal
keys, told apart only by their children), and one with a global option, a snippet,
a matcher and ordered directives (every rank of the sort).

`CHECK_DEADLOCK FALSE` stands where the program really stops: the bounded number
of calls of `Publish` is used up and all have returned, or the Caddyfile is written.

## Fairness and other assumptions

- *Timers and goroutines* (weak fairness): time passes, an expired timer starts
  its function, a goroutine that can run runs.  Docker, its event streams and
  other clients of the DNS server owe nothing, so they have no fairness.
- *Listener*: weak fairness of reading a stream that has events.  A stream need
  not fail, so a client may never be listened to; polling has to find its
  changes, and `ChangeEventuallyRead` shows that it does.
- *Updates of `Generator`*: an update can always take its next step (a call returns
  or fails), and polling starts it again; `FairSpec` says this as "it begins and
  ends again and again".
- *Servers* (strong fairness of `Apply` and `RecordVersion` per server): a server
  that is sent configurations again and again loads one and its answer arrives.
  Without it nothing could converge.  It asks
  for steps of requests that are not late only: `http.DefaultClient` has no timeout, so
  a late request may be kept for ever, before the server has loaded it or after.
- *Avahi* (strong fairness of `Tick` and of the ticker's `Resolve`): Go's ticker
  keeps ticking, and a lookup that is repeated for ever succeeds in the end.
- *Publishers return* (weak fairness of `Continue`): `Technitium`'s `PublishReturns`,
  and the lookup of Avahi has the deadline of the publication.
- *Failed requests are not applied late.*  A request whose client has got an
  error is not loaded afterwards; one whose client waits (`late`) may be.
- *Unlocked variables* are read and written as if each access were atomic.  For
  the slices of `lastCaddyfile` and `lastJSONConfig` Go promises less.

## Disagreements between the code and its documents

1. `loader_stale_json`.  An update starts while another converts its Caddyfile.
   The one with the older scan stores `lastJSONConfig` last; `lastCaddyfile` is
   already the newest, so no later update repairs it until Docker changes again.
   (`README.md:12`: "Every time a Docker object changes, the plugin updates the
   Caddyfile and triggers Caddy to gracefully reload".)
2. `loader_unapplied_names`.  "publishes the site names from the generated
   Caddyfile [...] after a successful config apply" (`README.md:595`): after a
   failed push of A, an invalid B becomes `lastCaddyfile`; the next poll pushes A
   and publishes the names of B.  This needs no overlap.  Names of *valid*
   Caddyfiles are published only when served (`PublishedIsRunningIfValid`).
3. `loader_restart`.  A server "will not serve anything until it is configured"
   (`README.md:463`); one that restarts at the same address is still in
   `serversVersions` and is skipped until the Caddyfile changes.

Met while modelling, without a run of their own:

- Two pushes to one server can pass the check of `loader.go:306` ("Skip servers that
  are being updated already") at once, for `Get` and `Set` are two critical
  sections.  What holds all the same is `FlagHasOwner` and `BodyAsNewAsVersion`.
- "MaybePublish publishes once per config version/hash" (`manager.go:43`): only the
  last pair is remembered, so the answers of two servers, one of them late, can
  alternate and publish a pair twice.  Publishing is idempotent.
- A server listed twice gets two pushes of one update; if one of them is kept by
  the server and loaded after a later update, the server goes back.
- "can periodically re-resolve the caddy host to refresh records" (`README.md:595`): a
  reconcile that read the old names before a newer `Publish` writes them back
  (`updateState`), and the ticker goes on repeating them.  `NewestAnswered` is
  therefore about calls that no other call disturbs.
- "Suffix _<number> isolates directives" (`README.md:198`), but only within one object:
  when two objects have the same isolated directives (replicas of a container), all
  of the second go into the first one of the first, which is the one whose label
  was visited first.  The text differs from scan to scan, so the Caddyfile is new at
  every poll.  `OrderIndependent` excepts such objects.
- With `--merge-sites` the keys of a merged block stand in the order in which its
  parts were read.  An object with the blocks `a b` and `b c` becomes `a b c` or
  `b c a`, as Go ranges over its labels, and the Caddyfile can be new at every poll:
  without its exception, `SameBlocksSameResult` fails in TLC for such an object.
- A key that is empty or begins with `#`, or that holds a tab and no space, is
  written without quotes (`marshal.go:55`) and is not read back as it was.
- Without `--ingress-networks`, "networks attached to controller container are
  considered ingress networks" (`README.md:507`) holds for one host only.
- A label that defines an address of the base Caddyfile does not have its
  "generated block removed" (`README.md:591`), it loses that address and keeps the
  others, as long as its key is the address as Caddy names it.
- Several addresses in one label may be separated by commas (`README.md:410`:
  `caddy: example.com, example.org, ...`).  Then the key is `example.com,`, and the code,
  which compares keys with Caddy's addresses, does not find it: when `example.com` is
  defined elsewhere, `removeBlockKey` fails (`processor.go:40`) and the whole block goes,
  with the other addresses; when the last address is the ambiguous one, what is left ends
  in a comma and goes as well; and with `--merge-sites` the overlap is not seen
  (`sharedKeys`, `generator.go:277`), so the blocks stay apart and `Process` removes the
  second one.  The same holds of addresses that Caddy reads from a placeholder.  `SitesSurvive` and
  `MergedServesAll` except such blocks (`IsSpelled`).
- "Skipping name; unmanaged record exists" (`technitium.go:146`): not for a site whose
  name a label writes in capitals.  `filterNamesForZone` compares names in lower case
  and returns them as they are written (`technitium.go:422-438`), `hasUnmanaged` looks for the
  written name among those of the zone (lines 144-145) and finds nothing, and `overwrite=true`
  (line 210) replaces the record.  `UnmanagedKept` excepts such names (`Respelled`), and fails
  in TLC without the exception; `SuccessIsExact` is about names in normal form, for the next
  call takes the record of `app` for one that nobody desires.
- When the mDNS server cannot be started (`avahi.go:164-167`), the ticker goes on
  refreshing addresses that nobody answers with: it calls `reconcile` alone
  (line 81), and the names stay unanswered until another call of `Publish`.

## Proofs

TLAPS checks these for every value of the constants that their modules' assumptions
allow.  Each inductive invariant was first checked by TLC on the instance of its
run (for `BuildInv`, with the merged container whose existence it states computed).  What has a further hypothesis says so; the hypothesis holds on that instance.

| theorem | property | hypothesis | inductive invariant |
|---|---|---|---|
| `DockerEventsProofs!TypeCorrect` | `TypeOK` | | itself |
| `DockerEventsProofs!SkippingAlwaysEnds` | `SkippingEnds` | | with `TypeOK` |
| `DockerEventsProofs!EventsAreNotLost` | `EventNotLost` | | `SkippingEnds`, `HeardHappened` |
| `LoaderProofs!TypeCorrect` | `TypeOK` | | `Typed` |
| `LoaderProofs!FlagsHaveOwners` | `FlagHasOwner` | | `PushesAwaited` |
| `LoaderProofs!BodiesAreAsNew` | `BodyAsNewAsVersion` | | `VersionsBehind`, `Committed`, `VersionsRead` |
| `LoaderProofs!RecordedVersionsAreRunning` | `RecordedIsRunning` | `Sequential` | `Carried` |
| `LoaderProofs!LoaderImplementsRollout` | `ImplementsRollout` | `Sequential` | `Carried` |
| `LoaderProofs!PublishedNamesAreServed` | `PublishedIsRunningIfValid` | `Sequential` | `Traced` |
| `LoaderProofs!ManagerRemembersNewest` | `ManagerTypeOK` | | `LoaderInv`, `ManagerInv` |
| `AutosaveProofs!TypeCorrect` | `TypeOK` | | itself |
| `AutosaveProofs!AutosaveAlwaysWhole` | `AutosaveWhole` | `Overlap = FALSE` | `Whole` |
| `AutosaveProofs!AutosaveReplacedByNew` | `AutosaveIsNew` | `Overlap = FALSE` | `Whole` |
| `AvahiProofs!TypeCorrect` | `TypeOK` | | `Typed` |
| `AvahiProofs!OnlyMeetingCallsStartServers` | `OneServer` | | `ServersCounted` |
| `AvahiProofs!SuccessfulCallsAnswer` | `SuccessAnswers` | | `Undisturbed`, `NamesKept`, `Served` |
| `TechnitiumProofs!TypeCorrect` | `TypeOK` | | `Guarded` |
| `TechnitiumProofs!OthersRecordsAreKept` | `UnmanagedKept` | | `Guarded` |
| `TechnitiumProofs!SuccessfulCallsAreExact` | `SuccessIsExact` | | `Guarded`, `Undisturbed` |
| `GeneratorProofs!KnownNetworksAreKept` | `UpstreamsKept` | `Steady` | `KnownInv` |
| `GeneratorProofs!TypeCorrect` | `TypeOK` | | `BuildInv` |
| `GeneratorProofs!ProcessedResultAdapts` | `ResultAdapts` | | `BuildInv` |
| `GeneratorProofs!SoundSitesSurvive` | `SitesSurvive` | | `BuildInv` |
| `GeneratorProofs!SameBlocksAreWrittenAlike` | `SameBlocksSameResult` | | `BuildInv` |
| `GeneratorProofs!MergedSitesServed` | `MergedServesAll` | `SitesDefinedOnce` | `BuildInv` |
| `CaddyfileProofs!SortedFacts`, `ProcessFacts` | | a `Proper` container; for `ProcessFacts` a `Ranked` one | |

**Events.**  From `NumClients > 0` and natural intervals.  The two safety properties
are proved together.  An event that is discarded is covered by whatever will end
the skipping, so `EventNotLost` is not inductive without `SkippingEnds`; and the
scan may set `read` below `heard` unless no event is heard before its change
(`HeardHappened`).  The argument then goes action by action: what covered a flag or
an event before the step covers it afterwards, or the step discharges it.

**Loader, in every schedule.**  From the assumptions on `Adapt`, `Servers`, `Updates`
and the lists in `Loader`, and for every `OverlapPhases`.  Late requests change `late`
and nothing these proofs are about, so they hold whatever servers keep.

- `Typed` adds to `TypeOK` that an update that is past its scan holds a Caddyfile.
- `FlagHasOwner`: an owner's step keeps its own server fixed
  only if `controlledServers[u]` does not change under it: `PushesAwaited` says
  that pushes run only while their update waits for them.
- `BodyAsNewAsVersion`: `lastVersion++` can lose increments, so
  versions and commits drift apart.  The invariant bounds the drift: the version,
  plus one for every update that has stored its configuration and has still to
  raise the version (`Pending`), is at most the number of commits, and so are the
  values that updates have loaded.  Hence a version read before the configuration
  never exceeds the configuration's number.

**Loader without overlap.**  `Sequential` says that no update starts while another
one runs (one that waits for late requests only does not count), that servers do not
restart, and that no list of servers names one twice.  None of the three can be left
out: the races of overlapping updates and a restart each break a property (see the
violation runs), and of two pushes to one server, one can be late while the other
records the version.  The invariants say

- whose turn it is (`Turns`): one update at most does anything but wait for late
  requests (`Exclusive`); a push that has seen its server unmarked is the only
  one that goes to it and has marked it (`OnePerServer`, `Marked`).  The last two need
  each other, and need that a late request is in flight (`LateFlagged`), for it is the
  mark alone that keeps later updates away from its server;
- what a push carries (`Carried`): a version newer than the recorded one, since
  `CompareVersion` has let it through and nobody else records one for its server
  meanwhile (`Newer`); a configuration that is not older than the one in use, and not
  older than the version (`Forward`, and `BodyAsNewAsVersion` from above); and,
  once it has arrived, the one in use (`Served`).  `RecordedIsRunning` survives the
  arrival because of `Newer`, and the recording of the version because of `Served`;
- where names come from (`Traced`): while no update is between its scan and its
  conversion, `lastJSONConfig` is the conversion of a valid `lastCaddyfile`
  (`Remembered`, `Converted`), and a push that is not late carries it (`Current`).

`ImplementsRollout` follows step by step (`StepRefines`): `AdaptSucceeds` is
`Generated`, `Apply` is `Load`, whose condition `Forward` gives, and every other step
leaves the configurations alone and is `Silence`, with a server more or less that
keeps a request, or none.

**Publication.**  The manager's invariant alone is not inductive: a publication's
version is that of a push, which is positive because a server is skipped unless it
is behind (`VersionsCounted`).  The loader's own steps leave the manager alone, so
their lemmas are used as they are; the bounds of the run (`MaxPublications`) are not
used.

**Autosave.**  `Whole` follows the temporary file through the steps: the name refers
to a file that is not the autosave file (`Apart`), is empty when it has been opened
(`OpenedTmp`) and whole when it is renamed (`WrittenTmp`).  `Overlap = FALSE` is
needed: two updates write to one temporary file.  Number and place of crashes
and disk errors are arbitrary.

**Avahi.**  `OneServer` counts: the servers that run and those that calls have decided
to start, together, are no more than one or than the calls that met another one
(`ServersCounted`).  `SuccessAnswers` needs that the names a call stored are also the
ones that the ticker may write back meanwhile (`NamesKept`), which holds because an
undisturbed call began in no tick, and that a call that has gone past `EnsureServer` leaves a
server behind (`Served`).

**Technitium.**  `WellFormed` zones are assumed at the start and shown to be kept, with
the snapshots of all calls (`KeptOnce`), by adds, deletes and edits alike.  `Aims` says
that what a call has left to delete is in its own snapshot and managed there; with
one record per name, type and value, no unmanaged record that the call has seen can
then be what it deletes or overwrites, whoever else writes to the zone, unless the name
under which the server keeps what it adds is not the name it looked for (`Respelled`).  Of
`Normal` only `NormalAssumption` is used: a normal form is a name and its own normal form.
`SuccessIsExact` takes in addition what the zone is while a call goes through it
undisturbed, if its names are in normal form (`Followed`): first the snapshot without what has been purged, then, name
by name, the snapshot where the loop has not been (`Untouched`) and settled where it has
(`Finished`, `Settled`).  A failed attempt drops all of that, and the next listing
establishes it again, so the number of attempts plays no part.

**Generator.**  `SetupsAssumption` states what labels can say: addresses of
upstreams come from `getIPAddresses` and never from a label, the base file or a config.
`Steady` says that objects may come and go but that labels and networks of each stay.
It cannot be left out: a container that leaves its network loses its
upstream, as it should.  `KnownInv` says that a scan, and the result it is
compared with, proxy only to objects with an address in the networks that are known
*now*; this survives every step because `GetIngressNetworks` keeps the known networks
when it fails (with the mutant that forgets them it does not), and it is what makes an
object that is read again be merged with an address again, whatever
other updates did to `ingressNetworks` between the calls.

The other five theorems are about what the folds of `Caddyfile` make of any number of
blocks.  `Folding` gets the intermediate results of a fold from the definition of
`FoldLeft`, and induction over their number from the existence of a least
counterexample; each fold of `Caddyfile` is an instance of it, and what holds of all of
its intermediate results is stated and carried from one to the next.  The argument has
three layers:

- *Merging.*  `BuildInv` says that the container of every update has merged what its
  scan has noted (`Built`).  Without `--merge-sites` (`MergedBlocks`): one block for every
  string of keys that was read, with just the directives that were read with it, at
  the position of one of them.  With it
  (`MergedSites`): blocks that share no key, each of which has whole blocks of the scan
  and no other directive.  A merge of overlapping blocks keeps `MergedSites` because all of
  the matches are taken together (with the mutant `MergeFirst` they are not).  It does
  not hold of a base Caddyfile that defines a site in two blocks of different keys, which is
  read with `Merge` alone and which Caddy refuses anyway: hence `SitesDefinedOnce`.
- *Sorting* (`SortedFacts`) keeps the blocks and leaves every two of them in the order of
  `compareBlocks` (`Ordered`), because that order is transitive and, on blocks
  with different keys, total (`BeforeFacts`).  Snippets are before sites in it, which is what
  the next layer needs: a sound block finds the snippets that it imports.
- *Processing* (`ProcessFacts`).  What is kept is accepted by the adapter at
  every step, a block that is refused or loses its addresses adds nothing, and a sound
  block keeps its addresses or finds them taken, that is, served already.

`SitesSurvive` follows for the blocks that were merged from sound blocks only
(`MergedSound`), `SameBlocksSameResult` because what is merged depends on the set of
blocks alone (`MergedSame`) and a set of blocks has one ordered sequence only
(`OrderedUnique`), and `MergedServesAll` because no two blocks share a key after merging, so
that `Process` takes no address away.

Of what Caddy reads in keys, `Address`, the proofs use `AddressAssumption` alone: an
address is a key that ends in no comma and is its own address, and snippets are called
by their names.  A sound block whose shared addresses are spelled alike (`IsSpelled`) loses
just those keys that are addresses of blocks kept before, and what is left of it does not
end in a comma, for none of its keys does; that is where `ProcessFacts`, and
`SitesSurvive` after it, need the premise.  `MergedServesAll` needs it
for every block of the scan, to pass from "no two blocks share a key" to "no two blocks
share an address".

Only model-checked:

- all liveness (`ChangeEventuallyRead`, `Convergence`, `ReachesNewest`, `NamesFollow`,
  `Recovers`, `PublishReturns`, `AddressFollowed`, `NewestAnswered`): the prover has
  no rule for fairness;
- `Labels` (`OrderIndependent`, `LabelsSurvive`, `ReadsBack`), whose operators recur into
  nested blocks: the prover cannot read recursive operators, and induction over trees
  takes a theorem with an operator as its parameter.

## What is not modelled

`Generator` takes the top level of a Caddyfile only, with bodies as sets; nested
blocks and text are in `Labels`, which does not have `--merge-sites`.  Quoting and
the characters of tokens are not modelled, nor is the error path of `Start`
(`initialized` is set before anything can fail).  A container or service with a template that
does not parse is one that has no blocks (`Broken` in `MCGenerator`), for it fails in every
scan alike and the other objects are scanned all the same.  `Publication` does not contain the publishers'
own steps: their state has nothing in common with the loader's but the names.
`Loader` takes a scan as one step that returns the Caddyfile Docker then stands
for.  Left out for good: options and flags (sequential, no state
afterwards), the Docker wrapper (pass-through), logging, the lexer (a copy of
Caddy's), DNS message formats.  `addAdminListen` is represented by its failure on
an empty configuration, the only one that can occur: `Adapt` returns JSON objects.
The maps of `utils` are their atomic operations.

## Plan

In this order:

1. Proofs: what is left of safety is `Labels` (see above), which would have to be
   written as functions on blocks of a bounded depth.  Refinements could be carried
   further: `Technitium` and `Avahi` against one abstract publisher, which
   `Publication` then uses.
2. `DockerEvents` and `Loader` in one specification, with scans that take time.
3. `Process` as the loop it is, on the blocks of `Labels`.
4. Two overlapping publications of Technitium: an older call that ends last leaves
   its names.
