# TLA+ models of apisix-mesh-agent

apisix-mesh-agent runs beside Apache APISIX in a service mesh.  It fetches
configuration from an xDS management server, keeps it in memory as APISIX routes and
upstreams, and serves it to APISIX by mimicking the part of the etcd v3 API that
APISIX uses.  This directory models the agent's own logic in TLA+, checks the models
with TLC and proves the central results with TLAPS.

## 1. The system

| Part | State | Operations | Talks to |
|---|---|---|---|
| gRPC provisioner (`pkg/provisioner/xds/v3/grpc`) | last `routes` and `upstreams`, `routeOwnership`, `edsRequiredClusters`; channels `sendCh`, `recvCh`, `resetCh`, `evChan`; four goroutines per stream | dial, reset, stop; send requests, receive and translate responses, ACK/NACK, emit batches | management server; the sidecar over `evChan` |
| file provisioner (`pkg/provisioner/xds/v3/file`) | state per file, `upstreamCache`, `updatedUpstreamsFromEDS` | file created, written, removed | file system; the sidecar over `evChan` |
| manifest differences (`pkg/apisix`, `pkg/provisioner/util`) | none | `CompareRoutes`, `CompareUpstreams`, `DiffFrom`, `Events` | both provisioners |
| adaptor (`pkg/adaptor/xds/v3`) | none | xDS message to APISIX object | both provisioners |
| sidecar (`pkg/sidecar`) | `revision` | take a batch, reflect it to the cache, number it, push it; start and stop the other parts | provisioner, cache, etcd server, APISIX process |
| cache (`pkg/cache`) | one map per kind of object, each with a lock | `Insert`, `Delete`, `Get`, `List` | sidecar writes, etcd server reads |
| etcd server (`pkg/etcdv3`) | `metaCache` (create and mod revision per key), `watchers`, per stream `route`, `upstream`, `eventCh` | `Range`, `Watch` (create, cancel, first watch, push, clean-up), `PushEvents`, `Shutdown` | APISIX; cache; sidecar's `Revision` |
| APISIX runner (`pkg/sidecar/apisix.go`) | the APISIX process | write its configuration, start it, signal it | APISIX; the sidecar's wait group |
| sidecar command (`cmd/sidecar`, `pkg/config`) | the stop channel | validate the configuration, wait for a signal | sidecar, provisioner |
| iptables commands, precheck (`cmd/iptables`, `cmd/precheck`) | none of their own: the nat table | set up, clean up, check | kernel |
| logging, versions, node ids | none | output and formatting | |

What is hard to get right, and hard to test:

* The cache, the revision and the metadata are three pieces of state under separate
  locks.  A batch is reflected to the cache as a whole before any of it is pushed, and
  `Range` fills in metadata it does not find, in a check-then-act of two critical
  sections.
* A watch stream is served by two goroutines and fed by one more per event, which
  nothing orders.  Its clean-up closes a channel that these still send to.
* The goroutines of an xDS stream are tied by unbuffered channels that outlive it, and
  the provisioner's state outlives it as well.  Responses, requests and batches are
  each handed over by a goroutine of their own.
* A response may be refused after it was partly applied.
* A file is read when its event is handled, not when it changed, and one file may
  supply the endpoints of a cluster in another.
* Start and stop involve six goroutines and another process.  At start only a sleep and
  a timer order them; at the end each waits for another, for clients or for APISIX.
* The iptables commands change the kernel's table one rule at a time, with packets
  passing in between, and may fail or be killed at any point.
* The adaptor expresses xDS matchers, listeners and weights by means APISIX has:
  regular expressions, a test of the original destination, 32-bit numbers.

`PROJECT.json` lists these points as hazards, each at its line and with the properties
that are about it.  What makes the parts correct:

* cache and revision: readers see an atomic store (`ImplementsStore`);
* metadata: complete outside a batch and exact unless a `Range` made it
  (`MetaCoversCache`, `PushedMetaExact`, `CalmRangeExact`);
* watches: nothing is lost (`WatchComplete`), a slow client blocks nobody
  (`WatchBatchPushed`), nothing leaks (`StreamCleanedUp`);
* differences: their events turn one state into the other (`MemoryFollows`);
* adaptor: routes serve what xDS routes accept (`RoutesAgree`), for their listener only
  (`ListenersApart`), nodes keep their relative weights (`NodesWeighted`), and a response
  that means the same causes no events (`DomainsStable`);
* start and stop: a clean end leaves nothing running (`CleanEnd`), APISIX is closed with
  the agent (`ApisixClosed`), a stop ends the process (`StopEnds`);
* iptables: packets are never misled, even half-way (`NeverMisled`), a set-up does what
  the descriptions of its flags say (`SetUpWorks`), precheck finds its chains while inbound
  traffic is redirected (`NoFalseAlarm`), a clean-up takes it back (`CleanUpRestores`);
* file provisioner: its state follows the files (`StateMatchesFiles`), its events the
  state (`EmittedFollowsFiles`), and nodes go with their file (`NodesFromFiles`);
* gRPC provisioner: its events add up to its state (`EmittedMatchesState`), what it
  needs is asked for (`EdsRequested`), responses are answered (`ResponseAnswered`), a
  failed transport is given up once (`ClosingResets`, `ResetIsCurrent`).

## 2. Modules

| Module | Models | Uses |
|---|---|---|
| `ConfigStore` | the abstract store: put, remove, read, each atomic | |
| `Sidecar` | sidecar loop, cache, `Range`, metadata half of `pushEvent` | refines `ConfigStore` |
| `Watch` | watch streams, fan-out half of `pushEvent` | extends `Sidecar` |
| `Slices` | the filtering loops over slices (operator `Keep`) | |
| `Manifest` | differences and their events (operators) | extends `Slices` |
| `Follower` | a memory that applies the differences between any states of the world | extends `Manifest` |
| `Adaptor` | translation of xDS resources (operators) | |
| `GrpcProvisioner` | gRPC provisioner | extends `Manifest` |
| `FileProvisioner` | file provisioner, with the file system and fsnotify around it | extends `Manifest` |
| `Lifecycle` | sidecar command, start and shutdown of `Sidecar.Run`, APISIX runner, `Serve` and `Shutdown` of the etcd server | |
| `Iptables` | iptables set-up and clean-up, precheck, with the nat table around them | extends `Slices` |
| `MCManifest` | states of the world, plain and translated, and requests around a memory | extends `Follower`, `Adaptor` |
| `MCSidecar`, `MCWatch`, `MCGrpc`, `MCFile`, `MCLifecycle`, `MCIptables` | the instances TLC checks | |
| `SidecarProofs`, `LifecycleProofs` | the theorems about `Sidecar` and `Lifecycle` | extend these |
| `WatchProofs` | the theorems about `Watch` | extends `Watch`, `SidecarProofs` |
| `ManifestProofs` | induction, `Keep`, and what differences do, for slices of any length | extends `Manifest` |
| `FollowerProofs` | the theorems about `Follower` | extends it and `ManifestProofs` |
| `GrpcProofs`, `FileProofs` | the theorems about the two provisioners | extend these and `ManifestProofs` |
| `IptablesProofs` | the theorems about `Iptables` | extends it and `ManifestProofs` |

Definitions named `X_Y` and marked "Mutant" are variants of `X` with a plausible bug.
They are used by no specification; putting one in the place of `X` makes the property
`PROJECT.json` lists for it fail, which shows that the property can.

### Sidecar

The content of an object is named by the revision of the event that wrote it, so
`cache[k]` is the number of that event, or `Absent`.  `pc`, `events`, `at` and `m` are
the control state and locals of the sidecar goroutine; `rpc`, `snap`, `answer`, `rkey`
and `rrev` those of the `Range` handlers.  One action is one critical section or one
atomic access: `reflectToCache` is `ReflectToCache` then `BumpRevision` per event,
`pushEvent` is `PushLoadMeta`, `PushStoreMeta`, `PushDone`, and `composeKeyValue` is
`LookupMeta`, then `ReadRevision` and `FillMeta` if nothing was found.  `EventAdd` and
`EventUpdate` are one type, as no code of these parts tells them apart.  `calm` and
`filled` are history variables: whether a request has overlapped a batch, and which
keys carry metadata that goes back to a `Range`.

Left out: marshalling (it cannot fail for these types), the header revision of
`Range` answers, `keys_only`, and requests that are refused, as they change nothing.

### Watch

Per stream, `loop` is the handler `Watch` and `wire` the goroutine `onWire`.  `pushers`
holds the goroutines `pushEvent` starts, each with the watch ids it has still to serve;
delivery is a rendezvous with the handler, as `eventCh` is unbuffered.  `ClientGone`
may happen at any time.  A panic (`PushPanic`) ends all steps.  `latest` and `newest`
record what each watch was told; `spoiled` are the keys whose metadata a
`Range` has ever written, and `retired` the watches that were canceled.  Properties
about revisions exclude the former, as their revisions mean nothing any more.

A request for keys the agent does not serve is skipped by `onWire`: a step that changes
nothing.  Concurrent calls of `stream.Send` are steps of their own; the library's
behaviour under such calls is not modelled.

### Manifest

`Compare` keeps the order and the duplicates of the slices, and of several objects with
one id the last counts, as in the Go maps.  `nil` and empty slices lead to the same
result in the code and are one value here.

`Follower` moves from any state of the world to any other and applies the events of the
difference to a memory, as `reflectToCache` does; `MemoryOf` says independently what the
memory should hold.

### Adaptor

The functions of the adaptor are operators with their names.  A text is a sequence of
tokens, so that `"^" + v + "$"`, the port after `0.0.0.0:` and the removal of
`.svc.cluster.local` are what they are in the code.  CRC32 is taken to be injective, and
`OrderedStrings` gives one order per set.  A string matcher without a known pattern, on
which `getStringMatchValue` panics (`route.go:246`) and the process ends, is left out.  Weights are `WeightBits` wide, 32 in the code
and 8 in the run, as TLC has no larger numbers.

`MCManifest` puts `Adaptor` and `Follower` together: resources are translated, the
difference to the last state becomes events, the memory applies them, and `Serves` says
which requests an APISIX route in that memory takes (host, uri, and the `vars` as
lua-resty-expr evaluates them).  `RouteAccepts` says independently what the xDS route
means.  Both are assumptions about programs outside of the repository.  Requests carry
every header and parameter that is matched, with a value that is not empty: what a
missing variable means is up to lua-resty-expr.  The properties name the cases that are
left out: special characters of regular expressions other than the dot, routes that
share a name, configurations that two listeners name, ports that end in the same digits,
weights of 2^31 and more.  Which of several matching routes wins is not modelled.

### Lifecycle

`main` is the main goroutine, from the command through `Sidecar.Run`; `waiter`
`waitForSignal`; `prov` the `Run` of either provisioner, cut down to beginning, waiting
and returning, with `held` the goroutines that hold a batch for `evChan`; `serve` the
`Serve` of the etcd server; `runner` the goroutine of the APISIX command.  `apisix` and
`workers` are other processes.  Time is not modelled: the sleep, the two-second timer
and the limit of `httpSrv.Shutdown` may be over before or after any step of others.
What the environment does (signals, connections accepted or lost, clients, APISIX) may
happen at any time or never.  `GracefulStop` closes the listener and waits for all
streams, those of the gateway's connection to the server itself included.  `end` tells
how the process ends; a `Fatalw` or a panic in any goroutine ends it at once and leaves
APISIX as it is.

### Iptables

`Rules` is the list of rules a set-up makes, in order, and `BuildV4` (external) puts the
commands that create chains before them.  `Execute` runs one command of a list: where
iptables refuses it, the set-up exits and the clean-up goes on.  `Possible` and `Changed`
are what iptables does to the table, `Fate` what the table does to a packet: `Walk` takes
what the chains make of it (nothing, at first) and returns what they make of it when
rules that go to another chain are followed once more, and rules lead through two chains
at most.  Lists of ports are given with their empty entries, which `Split` drops.  `cfg` is
the set-up in force: one that finds the agent's first chain there fails with its first
command and changes nothing.  The dry-run mode changes nothing and is left out, and so are the numbers of the
target ports.

`Wanted` states the intent from the descriptions of the flags (`iptables.go:68-74`):
`--apisix-inbound-capture-port` is the "target port where all inbound TCP traffic should be
redirected on", and an "empty list will disable the redirection" of inbound ports.
`--apisix-port` speaks of "all TCP traffic", which is read as what the former flag leaves.
Other texts of the repository contradict these descriptions, on set-ups that the run covers:

| Text | What it says | What the code does, and `SetUpWorks` |
|---|---|---|
| help of the command, `iptables.go:32-33` | `--apisix-port 9080 --inbound-ports 80` redirects inbound port 80 "to 9080 (apisix port)" | to the inbound capture port, 9081 |
| heading at `docs/traffic-interception.md:48` | inbound 80 and 443 go to 9080 | to 9081, as the output under that heading shows |
| heading at `docs/traffic-interception.md:34` | without lists of ports, all inbound traffic is redirected | none of it, as the output under that heading shows |

`SetUpWorks` follows the flags and holds, so these three texts are wrong about the code; it
refutes them, and no run of its own is devoted to each.

`Check` is what precheck finds.  `NoFalseAlarm` says that it finds everything as long as
any inbound packet is redirected.  It is about inbound traffic: the set-up for outbound
ports alone at `docs/traffic-interception.md:84` makes no inbound chain, and precheck reports it as
faulty, which no text mentions.  What precheck promises when it passes is not said
anywhere: a set-up makes its chains first, so `Check` also holds of one that was killed
before its first rule.

### GrpcProvisioner

A cluster stands for the upstream made of it, told by its nodes (0 for a cluster of
type EDS whose endpoints are not known); a route configuration for the route made of
it, told by its content and its listener.  `trans[g]` is the `translateLoop` of stream
`g`: waiting, blocked on `sendCh` in the middle of `translate`, or blocked with its ACK.
Any running `sendLoop` may take a request, and any `translateLoop` a response, whichever
stream it comes from.  The management server is external: it may send any response of a
type, and for RDS and EDS with names, that it was asked for on the stream.  `emitted`
applies the batches in the order they were made, `memory` in the order the sidecar took
them.  `Failures` and `MayStop` switch failures of streams and the stop signal on.

A translation up to the request it makes is one step, so the data race of two
`translateLoop`s that work at the same instant is not modelled (`overlap` marks the
behaviours where one begins while another is blocked).  Version strings are left out.

### FileProvisioner

`content` is the file system; `WriteFile`, `RemoveFile` and `MoveFile` change it at any
time and, once `AddWatch` has happened, append the reports of fsnotify to `notified`.
`ListFiles` and `ReadFile` are `handleInitialFileEvents`, `HandleFileEvent` one turn of
the loop in `Run`: a whole file event is one action, as one goroutine does it without
waiting for anybody.  `Parse` folds over the resources of the file in their order, with
the merge as it is written.  A `nil` manifest and an empty one lead to the same events
and are one value.  `missed` marks files with a change `Run` cannot know of: between the
first reading and `watcher.Add`, or by being moved away, as renames are ignored;
`shared` marks names that two files have had at once.

Left out: watched paths that are single files (their watch ends with the file), an
overflow of the kernel's queue, and subdirectories.

## 3. What is checked

All runs are listed in `PROJECT.json`.  Passing runs:

| Run | Bounds | Shows |
|---|---|---|
| `sidecar` | one route, one upstream, two readers, batches of up to 2, 2 events | metadata, refinement; batches and requests end |
| `watch_complete` | one route, one reader, one stream, two requests, 2 events | nothing is lost to a watch |
| `watch_slow_client` | clients that may never read, one route and one upstream | batches and clean-up end |
| `manifest_events` | all pairs of states with up to 3 routes and 1 upstream, ids repeated, or translated from 140 small sets of xDS resources | events lead from one to the other; routes, listeners and weights mean what xDS means |
| `lifecycle` | both provisioners, both run modes, refused configurations, two clients, two dials, two batches | clean end, APISIX closed, a stop ends the process |
| `iptables` | 64 sets of flags, three ports, four commands | packets, set-up and clean-up |
| `file_events` | two files in any initial state, 3 changes, two clusters, one route | state, events and nodes follow the files |
| `grpc_safety` | two clusters, one route configuration, one stream, 3 responses | events add up to the state; EDS subscription |
| `grpc_liveness` | one cluster, two streams, failures and a stop, 1 response | responses answered, a transport given up once |

Two events of one key, or one of each kind, suffice for every pair of steps that can
interfere: an event with its successor, with a `Range` or with a first watch.  Keys do
not interact except by sharing a batch, which the second key of the `sidecar` run
provides, and watch streams do not interact at all.  Two requests let a watch be created
twice, or canceled.  For the provisioner, three responses reach a change, its EDS answer
and a further change in any order; two streams let goroutines of an old one meet those
of a new one.  Two files are enough for one to supply the nodes of the other's cluster
and for a name to be shared; files are interchangeable, so the run uses symmetry.  That
the events of the gRPC provisioner add up to its state is checked on one stream only:
with two, the responses an interesting history needs are too many for TLC.

The xDS resources vary one part at a time (matcher, path, action, domains, listeners,
cluster), as the adaptor treats the parts of a resource independently; values of up to
three characters tell prefix, suffix, middle and whole apart.  Two clients of the etcd
server can watch over gRPC and HTTP at once; two dials are a connection and its
successor, two batches one that is taken and one that waits.  Four iptables commands
reach a set-up that fails, one that is repeated and a clean-up of both.

Deadlock is checked in the `Sidecar` and `Manifest` runs.  The other systems may stop:
a panic ends the process, a server need not send more, the agent exits, and the
iptables commands are bounded in number.

Fairness.  Go runs every goroutine that can run, so the steps of a goroutine are weakly
fair.  Not assumed: that a batch, a request or a response comes, that a client reads
its stream or leaves, that the server accepts a connection, that APISIX exits, and which
ready case a `select` chooses.  `StopEnds` therefore names the three parties that can
hold a stopped process: a config source that does not accept, a gRPC client that watches
on, and APISIX.

### Where code and documents disagree

Each of these runs violates one property that states what a document or comment says;
`PROJECT.json` quotes it under `findings`.

| Run | What happens |
|---|---|
| `watch_panic` | the end of a stream closes `eventCh` under a pusher, and the process panics |
| `grpc_memory` | batches overtake each other, and the memory keeps what was deleted |
| `grpc_eds_reconnect` | after a reset, an unchanged set of EDS clusters is never asked for again |

The help of `iptables` and two headings of `docs/traffic-interception.md` contradict the
descriptions of the flags about where inbound traffic goes, and precheck reports a
documented set-up as faulty; section 2 has the details (Iptables), and `SetUpWorks`, which holds,
says which text the code follows.

More behaviours of the code are in the models and no run is devoted to them;
`PROJECT.json` lists them as hazards.  A `Range` between `reflectToCache` and `pushEvent`
may leave wrong metadata behind for good (`PushedMetaExact` leaves such keys out).  A
watch may be told two events of a key in reverse order.  A provisioner that fails closes
`evChan` before it is fatal, so the clean shutdown races with the exit.  The clean-up of
iptables flushes the `OUTPUT` rules of others as well.  A listener on port 80 of any
address lets connections to port 9080 use its routes.  A CDS response refused half-way leaves
clusters in `edsRequiredClusters` that were never asked for (`EdsRequested` excludes
it).  A first watch may send an old object with a newer mod revision (`WatchComplete`
goes by the objects themselves).  A stop while a batch waits for the sidecar ends in a
send on the closed `evChan` (`PanicOnClosed`).  A stop during a blocking dial is not
seen before the server accepts.  An EDS file that is removed and created again is taken
for redundant, as `upstreamCache` still has its nodes.

## 4. What is proved

Every invariant that a run checks of `Sidecar`, `Watch`, `Lifecycle`, `Follower`,
`GrpcProvisioner`, `FileProvisioner` and `Iptables` is proved, and the action property of
`Follower` and the refinement of `Sidecar` too, for every value of the constants that satisfies the
`ASSUME` of the module: any keys, readers, streams, clients, clusters and files, contents
of any length, flags, ports and any bounds.  The assumptions say that bounds are natural numbers, that
the two kinds of names are disjoint (a kind is a part of every key), that there is a key
at all (`SidecarAssumption`), that `Contents` are sequences of resources
(`FileAssumption`), that configurations have the fields the code reads
(`LifecycleAssumption`), that states of the world are lists of objects
(`FollowerAssumption`), that flags are lists of strings and packets have ports
(`IptablesAssumption`, which also keeps the stand-ins "any" and "foreign" apart from
ports) and that clusters and configurations are finitely many, as a
response is a message (`GrpcAssumption`).  All inductive invariants were checked with
TLC before they were proved.

### Sidecar

`SidecarProofs` shows:

* `TypeCorrect`: `Spec => []TypeOK`;
* `CachedHasMeta`, `PushedMetaIsExact`, `CalmRangeIsExact`: the three safety invariants
  of `Sidecar`;
* `CacheImplementsStore`: `Sidecar` implements `ConfigStore`.

Argument.  `MetaCoversCache` and `PushedMetaExact` are not inductive: when the last
pending event of a key is pushed, one must know that its metadata agrees with the
cache.  `MetaInv` adds what is needed: the events of a batch get increasing revisions
below the counter (`RevisionsIncrease`), the last pending event of a key is the one the
cache shows (`LastPendingCached`), and metadata that no `Range` made, as well as what
`pushEvent` has loaded, is older than every pending event (`MetaPrecedesPending`).
The lemmas before `MetaInvariant` say how each action changes the set of pending
events; then there is one step per action.  `CalmRangeExact` follows with `MetaInv`:
while no batch is in work nothing is pending, so a lookup always finds metadata.  For
the refinement, `ReflectToCache` is the abstract put or remove, `Range` the read, and
every other step stutters; the revision counts as bumped between the two halves of
`reflectToCache`.

### Watch

`WatchKeepsSidecar` (`WatchSpec => Spec`) says that every step of `Watch` is one of
`Sidecar` or leaves it alone, so the theorems above hold beside watches.  Then come
`WatchTypeCorrect` and `WatchIsComplete`.

Argument.  `WatchComplete` speaks of clients at rest; `WatchInv` says what is true of a
client at any time.  A cached object it asked for was told, is in a pusher, in the
handler or in the answer of the first watch, or will be listed (`PutsReach`); whatever
it knows of an object that is gone is outdated by a newer note of a deletion, told or on
its way (`DeletesReach`).  Both exclude events that are not fanned out yet.  As
deliveries are not ordered, the invariant also bounds objects and revisions: none on
their way is newer than the cache (`ObjectsBound`), none newer than what is fanned out
next (`ModsBound`).  That metadata is up to date when an event is fanned out comes from
`MetaInv` of `SidecarProofs`.

### Lifecycle

`TypeCorrect`, `EndIsClean` and `ApisixIsClosed`.  `LifecycleInv` relates how far the main
goroutine is to the state of the others: the wait group counts exactly the goroutines
of `Serve` and of the APISIX command that have not ended (`Counted`), `evChan` is closed
only after a stop or a failure (`StopInv`), the listener and the streams are gone when
`Serve` has returned (`ServeInv`), and APISIX was started exactly in bundle mode and
signalled exactly after `apisixRunner.shutdown` (`RunnerInv`, `BundleInv`).

### Manifest

`DiffIsExact`: the events of `GenerateEvents(m, o)`, applied to a memory that shows `o`,
make it show `m`, for slices of any length in which ids may repeat.  `Keep` and
`ApplyEvents` are recursive functions; that they are well defined and what they compute
is shown by induction, as a lemma about sets of numbers (`Induct`).
`IsLast` and `LookupLast` turn "the last object with an id counts" into positions, and
`KeepLookup`, `ConcatLookup` and `EventsExact` follow it through the parts of a
difference.  `GenerateLeads` puts this together in the form the provisioners need:
what the events say last of an id is what the new manifest shows, and what they leave
out has not changed.

### Follower

`MemoryAlwaysFollows` and `EventsAlwaysChange`, for any states of the world.  The first
is `DiffIsExact` as the step of an induction over a behaviour: `FollowInv` says id by id
what the memory shows, and `MemoryShows` that this is `MemoryOf`.  For the second,
`Unique` (each id once) is followed through `Keep`, `Compare`, `Events` and
concatenation, and `CompareChanges` shows that an object is compared as a whole: what
is updated differs in its value.

### GrpcProvisioner

`GrpcTypeCorrect`, `ResetsAreCurrent`, `EmittedIsState` and `EdsIsRequested`, for any
number of streams, resets included, where TLC reaches one stream.  `EmittedMatchesState`
says nothing of a `translate` that waits for `sendLoop` with its batch; `EmitInv` adds
that this batch brings the events so far up to the state, and that there is one such
`translate` at most.  `EdsInv` follows the request for endpoints from `translate` over
`sendLoop` to the wire, `ResetInv` says that all streams but the last are cancelled, and
`StartedInv` that streams not opened yet have no goroutines.  `TranslateEffect` is the
lemma about `translate`: one case per type of response, each by `GenerateLeads`.

### FileProvisioner

`FileTypeCorrect`, `StatesMatch`, `EmittedFollows` and `NodesAreWithdrawn`.  `ParseExact`
shows by induction over a file's resources which objects it is parsed to.  `Handled` is
what a handled event does, be it a write or a removal (`WriteHandled`, `RemoveHandled`),
and the invariants are shown to be kept by `Handled`.  `EmittedFollowsFiles` needs that
names in two files are in `shared` (`SharedInv`); `NodesFromFiles` is inductive with the
types alone, since an upstream that the events leave out is still in the new manifest.
`StateMatchesFiles` speaks of an empty queue; `MatchInv` says of any queue that the last
event of a file in it fits what the file holds now (`Fits`), so that the events before
it may find anything.

### Iptables

`NeverMisledHolds`, `SetUpWorksHolds`, `NoFalseAlarmHolds` and `CleanUpRestoresHolds`: for any flags, any
ports and any number of commands, each of which may fail or be killed after any change.

Argument.  The properties are about packets and the table; what can be carried from
step to step is how the table relates to the rules of the set-up in force.  `Inv` says:

* every rule in a chain is a rule of somebody else or one of the set-up's, and then those
  that precede it in its chain precede it in the table too (`Follows`).  This is what a
  killed set-up leaves, and a clean-up keeps it, as it empties whole chains or removes
  the one rule of its chain;
* no rule goes to a missing chain (`Closed`), and `PREROUTING` has at most one rule of the
  agent, so that one `-D` is enough;
* when `APISIX_REDIRECT` is missing, nothing else is left that a new set-up could meet
  (`Bare`), so that the set-up that makes this chain is in force;
* a running set-up has added the rules up to its next change (`UnderWay`) or is about to
  fail at its first (`Doomed`), and a running clean-up has removed all that its changes so
  far are for (`Removed`), although any of them may have been refused.

`RulesAre` describes the rules of any flags: the four that are always there, then per
chain either rules for the included ports, or returns for the excluded ports followed
by a rule for all.  `SetUpStep` and `CleanUpStep` show that one change keeps `Inv`.  Then
packets: `WalkFacts` says that the first rule that hits decides, `ChoiceWalk` that a
packet redirected by a chain is one the flags choose, since what must not be redirected
would have hit a rule before (`LeadsSelected`, `OwnPacketsSkipped`), and that with all
rules in place every chosen packet is.  `NoFalseAlarmHolds` goes the other way: if
precheck misses a chain, the inbound chain is missing (`Bare`), so `PREROUTING` has no
jump (`Closed`), and no inbound packet is redirected.

### Only model-checked

Liveness everywhere (`BatchPushed`, `RangeAnswered`, `ResponseAnswered`, `StopEnds` and the
like), which is out of the prover's reach.  `RoutesAgree`, `ListenersApart`,
`NodesWeighted` and `DomainsStable`: they are about what `Adaptor` makes of the concrete
resources and requests of `MCManifest`, and compare two matchers on texts, which a proof
for all texts would have to do by induction over them.

## 5. What is not modelled

Flags, defaults and the environment variables of the configuration; logging, versions
and node ids, which are output; the content of the APISIX configuration file; generated
code and the end-to-end tests.  Of the libraries (gRPC, cmux, fsnotify, iptables,
lua-resty-expr) the models have what the code relies on, marked external in
`PROJECT.json`.

## 6. Plan

1. A composition of a provisioner with `Sidecar`, so that batches are the provisioner's
   and the end-to-end question (does APISIX see the server's last state) is asked.
2. Versions and the last subscription a server sees in `GrpcProvisioner`; the header
   revision in `Sidecar`.
