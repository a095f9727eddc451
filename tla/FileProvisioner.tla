-------------------------- MODULE FileProvisioner --------------------------
(***************************************************************************)
(* The provisioner that reads xDS resources from the files of a watched    *)
(* directory (pkg/provisioner/xds/v3/file).  One goroutine, Run, reads the *)
(* files once, sets up the watcher and then handles its events one by one; *)
(* each batch of events is handed to the sidecar by a goroutine of its     *)
(* own.                                                                    *)
(*                                                                         *)
(* The file system and fsnotify are external: a file may change at any     *)
(* time, and the watcher, once set up, reports changes in order.  What is  *)
(* read is the content at the time of reading, not of the report.          *)
(*                                                                         *)
(* A resource is a record with a type, a name and a value: the content of  *)
(* a route configuration, which stands for the route made of it; the nodes *)
(* of a cluster, 0 for one of type EDS; the nodes of a load assignment.    *)
(* Type "bad" is a resource that is ignored: of an unknown type, or one    *)
(* that cannot be unmarshalled or translated.                              *)
(***************************************************************************)
EXTENDS Manifest, FiniteSets

CONSTANTS
    Files,          \* the names of files in the watched directory
    RouteNames,     \* names of route configurations
    Clusters,       \* names of clusters
    Contents,       \* what a file may hold: sequences of resources
    MaxChanges      \* bound: changes of files in a behaviour

Resource == [type : {"RDS"}, name : RouteNames, value : Nat]
                \cup [type : {"CDS", "EDS"}, name : Clusters, value : Nat]
                \cup [type : {"bad"}]

ASSUME FileAssumption ==
    /\ MaxChanges \in Nat
    /\ RouteNames \cap Clusters = {}
    /\ \A c \in Contents : c \in Seq(Resource)

\* A file that is not there, and one that is no DiscoveryResponse in JSON.
Missing == <<[type |-> "missing"]>>
Garbage == <<[type |-> "garbage"]>>

NoManifest == [routes |-> <<>>, upstreams |-> <<>>]

VARIABLES
    content,        \* what each file holds
    run,            \* where Run is; evChan is closed when it has returned
    todo,           \* the files handleInitialFileEvents has still to read
    notified,       \* the events the watcher has still to hand over
    state,          \* xdsFileProvisioner.state, NoManifest for nil
    upstreamCache,  \* xdsFileProvisioner.upstreamCache
    updatedFromEDS, \* xdsFileProvisioner.updatedUpstreamsFromEDS
    batches,        \* the goroutines of handleFileEvent that hold a batch
    made,           \* how many batches were made
    changes,        \* how many changes of files there were
    emitted,        \* history: the batches applied in the order they were made
    missed,         \* history: files with a change that Run cannot know of
    shared          \* history: names that two files have had at the same time

fsVars == <<content, notified, changes, missed>>
stateVars == <<state, upstreamCache, updatedFromEDS, batches, made, emitted, shared>>
vars == <<fsVars, run, todo, stateVars>>

\* The names a manifest has objects of.
Named(m) == Ids(m.routes) \cup Ids(m.upstreams)

\* The types of the variables; a batch that is sent is never empty.
TypeOK ==
    /\ content \in [Files -> Contents \cup {Missing, Garbage}]
    /\ run \in {"list", "read", "select", "closed", "panic"}
    /\ todo \in SUBSET Files
    /\ notified \in Seq([file : Files, op : {"create", "write", "remove", "rename"}])
    /\ \A f \in Files :
        /\ Ids(state[f].routes) \subseteq RouteNames
        /\ Ids(state[f].upstreams) \subseteq Clusters
        /\ Ids(updatedFromEDS[f]) \subseteq Clusters
    /\ upstreamCache \in [Clusters -> [nodes : Nat] \cup {NoObject}]
    /\ made \in Nat
    /\ \A b \in batches : b.num \in 1..made /\ b.evs # <<>>
    /\ changes \in 0..MaxChanges
    /\ emitted \in [RouteNames \cup Clusters ->
                        [content : Nat] \cup [nodes : Nat] \cup {NoObject}]
    /\ missed \in SUBSET Files
    /\ shared \in SUBSET (RouteNames \cup Clusters)

Init ==
    /\ content \in [Files -> {Missing} \cup Contents]
    /\ run = "list"
    /\ todo = {}
    /\ notified = <<>>
    /\ state = [f \in Files |-> NoManifest]
    /\ upstreamCache = [c \in Clusters |-> NoObject]
    /\ updatedFromEDS = [f \in Files |-> <<>>]
    /\ batches = {}
    /\ made = 0
    /\ changes = 0
    /\ emitted = [n \in RouteNames \cup Clusters |-> NoObject]
    /\ missed = {}
    /\ shared = {}
-----------------------------------------------------------------------------
(***************************************************************************)
(* The file system and the watcher.                                        *)
(***************************************************************************)

\* Whether a change of file f is known to Run: it is reported, or f is yet to be
\* read.  One between the first reading and watcher.Add is not.
Known(f) == run \in {"list", "select"} \/ f \in todo

\* Files change: evs are the events of the watcher, lost those files whose change
\* Run does not handle.
Change(evs, lost) ==
    /\ run \in {"list", "read", "select"}
    /\ changes < MaxChanges
    /\ changes' = changes + 1
    /\ notified' = IF run = "select" THEN notified \o evs ELSE notified
    /\ LET touched == {evs[i].file : i \in DOMAIN evs}
       IN  missed' = (missed \ touched) \cup lost \cup {f \in touched : ~Known(f)}
    /\ UNCHANGED <<run, todo, stateVars>>

WriteFile(f) ==
    /\ \E c \in Contents \cup {Garbage} : content' = [content EXCEPT ![f] = c]
    /\ Change(<<[file |-> f, op |-> IF content[f] = Missing THEN "create" ELSE "write"]>>,
              {})

RemoveFile(f) ==
    /\ content[f] # Missing
    /\ content' = [content EXCEPT ![f] = Missing]
    /\ Change(<<[file |-> f, op |-> "remove"]>>, {})

\* mv f g: the watcher reports a rename of f and the creation of g.
MoveFile(f, g) ==
    /\ f # g
    /\ content[f] # Missing
    /\ content' = [content EXCEPT ![f] = Missing, ![g] = content[f]]
    /\ Change(<<[file |-> f, op |-> "rename"], [file |-> g, op |-> "create"]>>,
              IF run = "select" THEN {f} ELSE {})
-----------------------------------------------------------------------------
(***************************************************************************)
(* generateEventsFromDiscoveryResponseV3.                                  *)
(***************************************************************************)

\* processRouteConfigurationV3.
ProcessRouteConfigurationV3(acc, res) ==
    [acc EXCEPT !.rm.routes =
        Append(@, [id |-> res.name, val |-> [content |-> res.value]])]

\* processClusterV3: the upstream is cached, with or without nodes.
ProcessClusterV3(acc, res) ==
    [acc EXCEPT !.rm.upstreams = Append(@, [id |-> res.name, val |-> [nodes |-> res.value]]),
                !.cache[res.name] = [nodes |-> res.value]]

\* processClusterLoadAssignmentV3 ignores an unknown cluster and one that has nodes
\* in the cache already.  The only upstream it returns replaces the first one of the
\* response if they have the same name, and is kept apart otherwise: the loop that
\* looks for it compares the first upstream over and over again.
ProcessClusterLoadAssignmentV3(acc, res) ==
    LET cached == acc.cache[res.name]
        ups    == [id |-> res.name, val |-> [nodes |-> res.value]]
        merged == acc.rm.upstreams # <<>> /\ Head(acc.rm.upstreams).id = res.name
    IN  IF cached = NoObject \/ cached.nodes > 0 THEN acc
        ELSE IF merged
        THEN [acc EXCEPT !.rm.upstreams[1] = ups, !.cache[res.name] = ups.val]
        ELSE [acc EXCEPT !.updated = Append(@, ups), !.cache[res.name] = ups.val]

Process(acc, res) ==
    CASE res.type = "RDS" -> ProcessRouteConfigurationV3(acc, res)
      [] res.type = "CDS" -> ProcessClusterV3(acc, res)
      [] res.type = "EDS" -> ProcessClusterLoadAssignmentV3(acc, res)
      [] res.type = "bad" -> acc

\* The resources of a file, in their order.
Parse(c) ==
    LET acc[i \in 0..Len(c)] ==
            IF i = 0
            THEN [rm |-> NoManifest, updated |-> <<>>, cache |-> upstreamCache]
            ELSE Process(acc[i - 1], c[i])
    IN  acc[Len(c)]

\* The update events of upstreams that are not of the file's own clusters.
Updates(objs) ==
    [i \in DOMAIN objs |-> [type |-> "update", id |-> objs[i].id, val |-> objs[i].val]]
-----------------------------------------------------------------------------
(***************************************************************************)
(* handleFileEvent.                                                        *)
(***************************************************************************)

\* Mutant: an empty batch is sent as well.
Emit_Empty(evs) ==
    /\ batches' = batches \cup {[num |-> made + 1, evs |-> evs]}
    /\ made' = made + 1
    /\ emitted' = ApplyEvents(emitted, evs)

\* A goroutine is started that holds the batch, unless it is empty.
Emit(evs) ==
    /\ IF evs = <<>> THEN UNCHANGED <<batches, made>>
       ELSE /\ batches' = batches \cup {[num |-> made + 1, evs |-> evs]}
            /\ made' = made + 1
    /\ emitted' = ApplyEvents(emitted, evs)

\* Mutant: the last state of a file is kept when the new one is empty.
SetState_KeepLast(f, m) ==
    /\ state' = IF m = NoManifest THEN state ELSE [state EXCEPT ![f] = m]
    /\ shared' = shared \cup
         UNION {Named(state'[gh[1]]) \cap Named(state'[gh[2]]) :
                    gh \in {p \in Files \X Files : p[1] # p[2]}}

\* p.state[filename] = rm, at the end of generateEvents.
SetState(f, m) ==
    /\ state' = [state EXCEPT ![f] = m]
    /\ shared' = shared \cup
         UNION {Named(m) \cap Named(state[g]) : g \in Files \ {f}}

\* Mutant: everything in the file is sent, without a look at its last state.
HandleWrite_NoDiff(f) ==
    \/ /\ content[f] \in {Missing, Garbage}
       /\ UNCHANGED stateVars
    \/ /\ content[f] \notin {Missing, Garbage}
       /\ LET parsed == Parse(content[f])
          IN  /\ Emit(GenerateEvents(parsed.rm, NoManifest) \o Updates(parsed.updated))
              /\ SetState(f, parsed.rm)
              /\ upstreamCache' = parsed.cache
              /\ updatedFromEDS' = [updatedFromEDS EXCEPT ![f] = @ \o parsed.updated]

\* A file was created or written: what it holds now is compared with the last state.
\* A file that cannot be read or parsed changes nothing.
HandleWrite(f) ==
    \/ /\ content[f] \in {Missing, Garbage}
       /\ UNCHANGED stateVars
    \/ /\ content[f] \notin {Missing, Garbage}
       /\ LET parsed == Parse(content[f])
          IN  /\ Emit(GenerateEvents(parsed.rm, state[f]) \o Updates(parsed.updated))
              /\ SetState(f, parsed.rm)
              /\ upstreamCache' = parsed.cache
              /\ updatedFromEDS' = [updatedFromEDS EXCEPT ![f] = @ \o parsed.updated]

\* Mutant: upstreams keep the nodes that a removed file has given them.
HandleRemove_KeepNodes(f) ==
    /\ Emit(GenerateEvents(NoManifest, state[f]))
    /\ SetState(f, NoManifest)
    /\ updatedFromEDS' = [updatedFromEDS EXCEPT ![f] = <<>>]
    /\ UNCHANGED upstreamCache

\* A file was removed: its objects are deleted, and the upstreams that have their
\* nodes from it are sent without nodes.
HandleRemove(f) ==
    LET reset == [i \in DOMAIN updatedFromEDS[f] |->
                    [id |-> updatedFromEDS[f][i].id, val |-> [nodes |-> 0]]]
    IN  /\ Emit(GenerateEvents(NoManifest, state[f]) \o Updates(reset))
        /\ SetState(f, NoManifest)
        /\ updatedFromEDS' = [updatedFromEDS EXCEPT ![f] = <<>>]
        /\ UNCHANGED upstreamCache
-----------------------------------------------------------------------------
(***************************************************************************)
(* Run.                                                                    *)
(***************************************************************************)

\* handleInitialFileEvents: the files that are there are listed ...
ListFiles ==
    /\ run = "list"
    /\ run' = "read"
    /\ todo' = {f \in Files : content[f] # Missing}
    /\ UNCHANGED <<fsVars, stateVars>>

\* ... and read one by one.
ReadFile ==
    /\ run = "read"
    /\ \E f \in todo : HandleWrite(f) /\ todo' = todo \ {f}
    /\ UNCHANGED <<fsVars, run>>

\* watcher.Add.
AddWatch ==
    /\ run = "read"
    /\ todo = {}
    /\ run' = "select"
    /\ UNCHANGED <<fsVars, todo, stateVars>>

\* The directory cannot be listed or watched: Run returns the error.
StartFails ==
    /\ \/ run = "list"
       \/ run = "read" /\ todo = {}
    /\ run' = "closed"
    /\ UNCHANGED <<fsVars, todo, stateVars>>

\* Run takes an event of the watcher.  A rename is not handled.
HandleFileEvent ==
    /\ run = "select"
    /\ notified # <<>>
    /\ LET ev == Head(notified)
       IN  \/ ev.op \in {"create", "write"} /\ HandleWrite(ev.file)
           \/ ev.op = "remove" /\ HandleRemove(ev.file)
           \/ ev.op = "rename" /\ UNCHANGED stateVars
    /\ notified' = Tail(notified)
    /\ UNCHANGED <<content, changes, missed, run, todo>>

\* Run sees that the stop channel is closed, and closes evChan as it returns.
RunStop ==
    /\ run = "select"
    /\ run' = "closed"
    /\ UNCHANGED <<fsVars, todo, stateVars>>

\* The sidecar takes a batch; nothing orders them.
TakeBatch ==
    /\ run \notin {"closed", "panic"}
    /\ \E b \in batches : batches' = batches \ {b}
    /\ UNCHANGED <<fsVars, run, todo, state, upstreamCache, updatedFromEDS, made,
                   emitted, shared>>

\* A send on the closed evChan panics.
PanicOnClosed ==
    /\ run = "closed"
    /\ batches # {}
    /\ run' = "panic"
    /\ UNCHANGED <<fsVars, todo, stateVars>>
-----------------------------------------------------------------------------
Next ==
    \/ \E f \in Files : WriteFile(f) \/ RemoveFile(f)
    \/ \E f, g \in Files : MoveFile(f, g)
    \/ ListFiles \/ ReadFile \/ AddWatch \/ StartFails
    \/ HandleFileEvent
    \/ RunStop
    \/ TakeBatch
    \/ PanicOnClosed

Spec == Init /\ [][Next]_vars
-----------------------------------------------------------------------------
(***************************************************************************)
(* Properties.                                                             *)
(***************************************************************************)

NamesIn(c, type) ==
    {c[i].name : i \in {j \in DOMAIN c : c[j].type = type}}

\* Although a file is read when its event is handled and may by then have been
\* written, removed or created again, the last state of a file has the objects of
\* what the file holds once all events are handled, and none if it is gone.  A file
\* that is no DiscoveryResponse keeps its last state.  It is about files without a
\* change before watcher.Add that was not read, and not moved away.
StateMatchesFiles ==
    run = "select" /\ notified = <<>> =>
        \A f \in Files \ missed :
            /\ content[f] = Missing => state[f] = NoManifest
            /\ content[f] \notin {Missing, Garbage} =>
                /\ Ids(state[f].upstreams) = NamesIn(content[f], "CDS")
                /\ Ids(state[f].routes) = NamesIn(content[f], "RDS")

\* The batches, applied in the order they were made, follow the states of the files
\* through all writes and removals: a route is as the file has it that names it, and
\* there only if one does, and the upstream of a cluster that a file names is never
\* missing, whatever other files do to its nodes.  It is about names that never were
\* in two files at once.
EmittedFollowsFiles ==
    \A f \in Files :
        /\ \A n \in Ids(state[f].routes) \ shared :
            emitted[n] = Lookup(state[f].routes, n).val
        /\ \A n \in Ids(state[f].upstreams) \ shared : emitted[n] # NoObject
        /\ \A n \in RouteNames :
            emitted[n] # NoObject => \E g \in Files : n \in Ids(state[g].routes)

\* Nodes are withdrawn with the file they come from: an upstream that was sent with
\* nodes last has them from the state of a file or from a load assignment remembered
\* for one, so that the removal of the file takes them back.
NodesFromFiles ==
    \A c \in Clusters :
        emitted[c] \in [nodes : Nat \ {0}] =>
            \E f \in Files :
                [id |-> c, val |-> emitted[c]] \in
                    ToSet(state[f].upstreams) \cup ToSet(updatedFromEDS[f])
=============================================================================
