------------------------------ MODULE Sidecar ------------------------------
(***************************************************************************)
(* The sidecar goroutine (pkg/sidecar), the in-memory cache (pkg/cache)    *)
(* and the key-value half of the mimicked etcd server (pkg/etcdv3/kv.go    *)
(* and the metadata half of pushEvent in pkg/etcdv3/etcd.go).              *)
(*                                                                         *)
(* The sidecar goroutine takes one batch of events at a time from the      *)
(* provisioner's channel.  It first reflects the whole batch to the cache, *)
(* bumping the revision once per event, and only then pushes the batch,    *)
(* event by event, to the etcd server, which keeps the create and mod      *)
(* revisions of each key in metaCache.  Range requests are served by       *)
(* goroutines of the gRPC server: they read the cache, then the metadata   *)
(* key by key, and fill in the metadata they do not find.                  *)
(*                                                                         *)
(* Every step below is one critical section (or one atomic load) of the    *)
(* code: the locks are never held from one step to the next.               *)
(*                                                                         *)
(* The content of an APISIX object is named by the revision of the event   *)
(* that carries it, so cache[k] says which event wrote the object.         *)
(***************************************************************************)
EXTENDS Integers, Sequences, FiniteSets

CONSTANTS
    Routes,         \* the ids of the APISIX routes
    Upstreams,      \* the ids of the APISIX upstreams
    Readers,        \* the goroutines that serve Range requests
    MaxBatch,       \* bound: events in one batch
    MaxRevision     \* bound: events reflected in a behaviour

\* The keys of the etcd server: <prefix>/routes/<id> and <prefix>/upstreams/<id>.
Key == Routes \cup Upstreams

ASSUME SidecarAssumption ==
    /\ Key # {}
    /\ Routes \cap Upstreams = {}
    /\ MaxBatch \in Nat
    /\ MaxRevision \in Nat

\* A map lookup that finds nothing.
Absent == -1
NoMeta == [create |-> Absent, mod |-> Absent]

Meta == [create : Nat, mod : Nat]

\* EventAdd and EventUpdate are treated alike by reflectToCache and pushEvent.
EventType == {"put", "delete"}

Event == [type : EventType, key : Key, rev : Nat]

VARIABLES
    cache,       \* cache.Route().store and cache.Upstream().store
    revision,    \* Sidecar.revision
    metaCache,   \* etcdV3.metaCache
    pc,          \* where the sidecar goroutine is
    events,      \* the batch it works on
    at,          \* index of the event it works on
    m,           \* local variable m of pushEvent
    rpc,         \* where each Range handler is
    snap,        \* the objects the handler read from the cache
    answer,      \* the metadata of the key-value pairs it has composed
    rkey,        \* the key composeKeyValue works on
    rrev,        \* the revision composeKeyValue read
    calm,        \* history: no batch was in work since the request began
    filled       \* history: keys whose metadata a Range made, or a push built on it

sidecarVars == <<cache, revision, metaCache, pc, events, at, m>>
rangeVars == <<rpc, snap, answer, rkey, rrev>>
vars == <<sidecarVars, rangeVars, calm, filled>>

TypeOK ==
    /\ cache \in [Key -> Nat \cup {Absent}]
    /\ revision \in Nat
    /\ metaCache \in [Key -> Meta \cup {NoMeta}]
    /\ pc \in {"recv", "cache", "bump", "load", "store", "fanout"}
    /\ events \in Seq(Event)
    /\ at \in Nat
    /\ pc # "recv" => at \in 1..Len(events)
    /\ m \in Meta \cup {NoMeta}
    /\ rpc \in [Readers -> {"idle", "compose", "revision", "store"}]
    /\ snap \in [Readers -> [Key -> Nat \cup {Absent}]]
    /\ answer \in [Readers -> [Key -> Meta \cup {NoMeta}]]
    /\ rkey \in [Readers -> Key]
    /\ rrev \in [Readers -> Nat]
    /\ calm \in [Readers -> BOOLEAN]
    /\ filled \in SUBSET Key

AnyKey == CHOOSE k \in Key : TRUE

Init ==
    /\ cache = [k \in Key |-> Absent]
    /\ revision = 0
    /\ metaCache = [k \in Key |-> NoMeta]
    /\ pc = "recv"
    /\ events = <<>>
    /\ at = 0
    /\ m = NoMeta
    /\ rpc = [r \in Readers |-> "idle"]
    /\ snap = [r \in Readers |-> [k \in Key |-> Absent]]
    /\ answer = [r \in Readers |-> [k \in Key |-> NoMeta]]
    /\ rkey = [r \in Readers |-> AnyKey]
    /\ rrev = [r \in Readers |-> 0]
    /\ calm = [r \in Readers |-> FALSE]
    /\ filled = {}
-----------------------------------------------------------------------------
(***************************************************************************)
(* The sidecar goroutine.                                                  *)
(***************************************************************************)

\* A batch as the provisioner sends it: Event.Revision is not set yet.
Batch ==
    UNION {[1..n -> [type : EventType, key : Key, rev : {0}]] : n \in 1..MaxBatch}

\* Sidecar.Run takes a batch from provisioner.Channel().  Batches are sent by
\* independent goroutines, so an add may come for a cached object and a delete
\* for a missing one.  An empty batch changes nothing and is left out.
RecvEvents ==
    /\ pc = "recv"
    /\ \E b \in Batch :
        /\ revision + Len(b) <= MaxRevision
        /\ events' = b
    /\ at' = 1
    /\ pc' = "cache"
    /\ calm' = [r \in Readers |-> FALSE]
    /\ UNCHANGED <<cache, revision, metaCache, m, rangeVars, filled>>

\* Route().Insert / Upstream().Insert: insert or overwrite by id.
Insert(store, k, obj) == [store EXCEPT ![k] = obj]

\* Route().Delete / Upstream().Delete: a missing id is an error that the
\* caller only logs, and the store is left as it is.
Delete(store, k) == [store EXCEPT ![k] = Absent]

\* reflectToCache, the switch on the event type.
ReflectToCache ==
    /\ pc = "cache"
    /\ cache' = IF events[at].type = "delete"
                THEN Delete(cache, events[at].key)
                ELSE Insert(cache, events[at].key, revision)
    /\ pc' = "bump"
    /\ UNCHANGED <<revision, metaCache, events, at, m, rangeVars, calm, filled>>

\* Mutant: an event that deletes does not count.
BumpRevision_SkipDelete ==
    /\ pc = "bump"
    /\ events' = [events EXCEPT ![at].rev = revision]
    /\ revision' = IF events[at].type = "delete" THEN revision ELSE revision + 1
    /\ IF at < Len(events)
       THEN at' = at + 1 /\ pc' = "cache"
       ELSE at' = 1 /\ pc' = "load"
    /\ UNCHANGED <<cache, metaCache, m, rangeVars, calm, filled>>

\* Mutant: the index of the batch is not reset before the pushes.
BumpRevision_NoReset ==
    /\ pc = "bump"
    /\ events' = [events EXCEPT ![at].rev = revision]
    /\ revision' = revision + 1
    /\ at' = at + 1
    /\ pc' = IF at < Len(events) THEN "cache" ELSE "load"
    /\ UNCHANGED <<cache, metaCache, m, rangeVars, calm, filled>>

\* reflectToCache, the compare-and-swap loop.  The sidecar goroutine is the only
\* writer of the revision, so the swap succeeds.  The event gets the revision
\* the counter had before.
BumpRevision ==
    /\ pc = "bump"
    /\ events' = [events EXCEPT ![at].rev = revision]
    /\ revision' = revision + 1
    /\ IF at < Len(events)
       THEN /\ at' = at + 1
            /\ pc' = "cache"
       ELSE /\ at' = 1
            /\ pc' = "load"
    /\ UNCHANGED <<cache, metaCache, m, rangeVars, calm, filled>>

\* pushEvent up to the construction of the etcd event: metaCache is read under
\* the read lock, and m is the metadata the event will carry.
PushLoadMeta ==
    /\ pc = "load"
    /\ LET ev  == events[at]
           old == metaCache[ev.key]
       IN  m' = [create |-> IF old = NoMeta THEN ev.rev ELSE old.create,
                 mod    |-> ev.rev]
    /\ pc' = "store"
    /\ UNCHANGED <<cache, revision, metaCache, events, at, rangeVars, calm, filled>>

\* Mutant: the metadata of a deleted key is kept.
PushStoreMeta_KeepDeleted ==
    /\ pc = "store"
    /\ metaCache' = [metaCache EXCEPT ![events[at].key] = m]
    /\ pc' = "fanout"
    /\ UNCHANGED <<cache, revision, events, at, m, rangeVars, calm, filled>>

\* pushEvent, the update of metaCache under the write lock.
PushStoreMeta ==
    /\ pc = "store"
    /\ LET ev == events[at]
       IN  IF ev.type = "delete"
           THEN /\ metaCache' = [metaCache EXCEPT ![ev.key] = NoMeta]
                /\ filled' = filled \ {ev.key}
           ELSE /\ metaCache' = [metaCache EXCEPT ![ev.key] = m]
                /\ UNCHANGED filled
    /\ pc' = "fanout"
    /\ UNCHANGED <<cache, revision, events, at, m, rangeVars, calm>>

\* Mutant: the last event of a batch of several is not pushed.
PushDone_DropLast ==
    /\ pc = "fanout"
    /\ m' = NoMeta
    /\ IF at + 1 < Len(events)
       THEN at' = at + 1 /\ pc' = "load" /\ UNCHANGED events
       ELSE at' = 0 /\ pc' = "recv" /\ events' = <<>>
    /\ UNCHANGED <<cache, revision, metaCache, rangeVars, calm, filled>>

\* Mutant: after the last event the batch is pushed again.
PushDone_Again ==
    /\ pc = "fanout"
    /\ m' = NoMeta
    /\ at' = IF at < Len(events) THEN at + 1 ELSE 1
    /\ pc' = "load"
    /\ UNCHANGED <<cache, revision, metaCache, events, rangeVars, calm, filled>>

\* The end of pushEvent (the watchers are module Watch's) and of an iteration
\* of PushEvents; after the last event Sidecar.Run waits for a batch again.
PushDone ==
    /\ pc = "fanout"
    /\ m' = NoMeta
    /\ IF at < Len(events)
       THEN /\ at' = at + 1
            /\ pc' = "load"
            /\ UNCHANGED events
       ELSE /\ at' = 0
            /\ pc' = "recv"
            /\ events' = <<>>
    /\ UNCHANGED <<cache, revision, metaCache, rangeVars, calm, filled>>

SidecarStep ==
    \/ RecvEvents
    \/ ReflectToCache
    \/ BumpRevision
    \/ PushLoadMeta
    \/ PushStoreMeta
    \/ PushDone
-----------------------------------------------------------------------------
(***************************************************************************)
(* Range requests.  An exact key query reads one object and a "readdir"    *)
(* query one kind of objects, each in one critical section of the cache;   *)
(* the metadata is looked up afterwards, key by key in the order of a map  *)
(* iteration.                                                              *)
(***************************************************************************)

\* The sets of keys a conforming RangeRequest can ask for.
RangeTargets == {{k} : k \in Key} \cup {Routes, Upstreams}

\* The objects r has read and not composed a key-value pair for.
Uncomposed(r) == {k \in Key : snap[r][k] # Absent /\ answer[r][k] = NoMeta}

\* Range up to findExactKey's Get or findAllKeys's List.  When nothing is found
\* the (empty) answer is complete at once.
Range(r) ==
    /\ rpc[r] = "idle"
    /\ \E target \in RangeTargets :
        /\ snap' = [snap EXCEPT ![r] =
                      [k \in Key |-> IF k \in target THEN cache[k] ELSE Absent]]
        /\ rpc' = [rpc EXCEPT ![r] =
                     IF \E k \in target : cache[k] # Absent THEN "compose" ELSE "idle"]
    /\ answer' = [answer EXCEPT ![r] = [k \in Key |-> NoMeta]]
    /\ calm' = [calm EXCEPT ![r] = (pc = "recv")]
    /\ UNCHANGED <<sidecarVars, rkey, rrev, filled>>

\* Mutant: the mod revision of the pair is taken from the create revision.
Compose_CreateAsMod(r, k, meta) ==
    /\ answer' = [answer EXCEPT ![r][k] = [meta EXCEPT !.mod = meta.create]]
    /\ rpc' = [rpc EXCEPT ![r] =
                 IF Uncomposed(r) = {k} THEN "idle" ELSE "compose"]

\* The key-value pair of k is composed; the handler goes on with the next object
\* it read, if any.
Compose(r, k, meta) ==
    /\ answer' = [answer EXCEPT ![r][k] = meta]
    /\ rpc' = [rpc EXCEPT ![r] =
                 IF Uncomposed(r) = {k} THEN "idle" ELSE "compose"]

\* Mutant: a handler that finds no metadata waits for pushEvent to bring it.
LookupMeta_Wait(r) ==
    /\ rpc[r] = "compose"
    /\ \E k \in Uncomposed(r) :
        IF metaCache[k] # NoMeta
        THEN Compose(r, k, metaCache[k])
        ELSE UNCHANGED <<rpc, answer>>
    /\ UNCHANGED <<sidecarVars, snap, rkey, rrev, calm, filled>>

\* composeKeyValue, the lookup under the read lock.
LookupMeta(r) ==
    /\ rpc[r] = "compose"
    /\ \E k \in Uncomposed(r) :
        \/ /\ metaCache[k] # NoMeta
           /\ Compose(r, k, metaCache[k])
           /\ UNCHANGED rkey
        \/ /\ metaCache[k] = NoMeta
           /\ rkey' = [rkey EXCEPT ![r] = k]
           /\ rpc' = [rpc EXCEPT ![r] = "revision"]
           /\ UNCHANGED answer
    /\ UNCHANGED <<sidecarVars, snap, rrev, calm, filled>>

\* composeKeyValue, rev := e.revisioner.Revision().
ReadRevision(r) ==
    /\ rpc[r] = "revision"
    /\ rrev' = [rrev EXCEPT ![r] = revision]
    /\ rpc' = [rpc EXCEPT ![r] = "store"]
    /\ UNCHANGED <<sidecarVars, snap, answer, rkey, calm, filled>>

\* composeKeyValue, the write under the write lock.  The lookup is not repeated.
FillMeta(r) ==
    LET meta == [create |-> rrev[r], mod |-> rrev[r]]
    IN  /\ rpc[r] = "store"
        /\ metaCache' = [metaCache EXCEPT ![rkey[r]] = meta]
        /\ filled' = filled \cup {rkey[r]}
        /\ Compose(r, rkey[r], meta)
        /\ rkey' = [rkey EXCEPT ![r] = AnyKey]
        /\ rrev' = [rrev EXCEPT ![r] = 0]
        /\ UNCHANGED <<cache, revision, pc, events, at, m, snap, calm>>

RangeStep ==
    \E r \in Readers : Range(r) \/ LookupMeta(r) \/ ReadRevision(r) \/ FillMeta(r)
-----------------------------------------------------------------------------
Next == SidecarStep \/ RangeStep

\* Go runs every goroutine that can run: the sidecar goroutine finishes a batch
\* it has taken, and a handler finishes its request.  No batch and no request
\* has to come.
Fairness ==
    /\ WF_vars(ReflectToCache \/ BumpRevision \/ PushLoadMeta \/ PushStoreMeta \/ PushDone)
    /\ \A r \in Readers : WF_vars(LookupMeta(r) \/ ReadRevision(r) \/ FillMeta(r))

Spec == Init /\ [][Next]_vars

FairSpec == Spec /\ Fairness
-----------------------------------------------------------------------------
(***************************************************************************)
(* Properties.                                                             *)
(***************************************************************************)

\* Event i of the batch is in the cache already, and has got its revision.
Reflected(i) ==
    CASE pc = "cache" -> i < at
      [] pc = "bump"  -> i <= at
      [] OTHER        -> TRUE

Numbered(i) == pc \in {"cache", "bump"} => i < at

\* pushEvent has updated metaCache for event i of the batch.
Pushed(i) ==
    CASE pc \in {"load", "store"} -> i < at
      [] pc = "fanout"            -> i <= at
      [] OTHER                    -> FALSE

\* The events of the batch that the cache shows and metaCache does not.
Pending == {i \in DOMAIN events : Reflected(i) /\ ~Pushed(i)}

PendingKeys == {events[i].key : i \in Pending}

\* Every cached object has metadata, except while an event of it is between
\* reflectToCache and pushEvent.  In particular every cached object has metadata
\* when no batch is in work, which is what lets findAllRoutes and
\* findAllUpstreams (watch.go) skip objects without metadata.
MetaCoversCache ==
    \A k \in Key \ PendingKeys : cache[k] # Absent => metaCache[k] # NoMeta

\* Outside that window, metadata that no Range handler wrote is exact: a key has
\* metadata iff it is cached, its mod revision is that of the event that wrote
\* the cached object, and it was created no later.  composeKeyValue is thus the
\* only way metadata can go wrong.
PushedMetaExact ==
    \A k \in Key \ (PendingKeys \cup filled) :
        /\ metaCache[k] = NoMeta <=> cache[k] = Absent
        /\ metaCache[k] # NoMeta => /\ metaCache[k].mod = cache[k]
                                   /\ metaCache[k].create <= metaCache[k].mod

\* A Range that overlaps no batch never writes metadata, and answers with the
\* objects that are still cached, each with the mod revision of the event that
\* wrote it (unless another, overlapping Range disturbed it).
CalmRangeExact ==
    \A r \in Readers : calm[r] =>
        /\ rpc[r] \in {"idle", "compose"}
        /\ \A k \in Key :
            /\ snap[r][k] # Absent => snap[r][k] = cache[k]
            /\ answer[r][k] # NoMeta /\ k \notin filled =>
                    answer[r][k].mod = snap[r][k]

\* What makes MetaCoversCache and PushedMetaExact inductive.  The events of a
\* batch get increasing revisions below the counter; the last pending event of a
\* key is the one the cache shows; metadata no Range wrote is older than every
\* pending event of its key; and so is what pushEvent has loaded.
RevisionsIncrease ==
    /\ pc = "recv" => events = <<>>
    /\ \A i \in DOMAIN events : Numbered(i) =>
        /\ events[i].rev < revision
        /\ \A j \in DOMAIN events :
            Numbered(j) /\ i < j => events[i].rev < events[j].rev

LastPendingCached ==
    \A i \in Pending :
        (\A j \in Pending : i < j => events[j].key # events[i].key) =>
            cache[events[i].key] = IF events[i].type = "delete" THEN Absent
                                   ELSE IF Numbered(i) THEN events[i].rev
                                   ELSE revision

MetaPrecedesPending ==
    /\ \A k \in Key \ filled : metaCache[k] # NoMeta =>
        /\ metaCache[k].create <= metaCache[k].mod
        /\ metaCache[k].mod < revision
        /\ \A i \in Pending : Numbered(i) /\ events[i].key = k =>
                metaCache[k].mod < events[i].rev
    /\ pc = "store" =>
        /\ m.mod = events[at].rev
        /\ events[at].key \notin filled => m.create <= m.mod

MetaInv ==
    /\ RevisionsIncrease
    /\ LastPendingCached
    /\ MetaPrecedesPending
    /\ MetaCoversCache
    /\ PushedMetaExact

\* A batch the sidecar goroutine took is reflected and pushed to its end,
\* whatever the Range handlers do.
BatchPushed == pc # "recv" ~> pc = "recv"

\* Every Range request is answered, whatever the sidecar goroutine does.
RangeAnswered == \A r \in Readers : rpc[r] # "idle" ~> rpc[r] = "idle"

\* To a reader the cache is a store on which each event takes effect at once
\* together with its revision, and a Range reads one state of it: the revision
\* that reflectToCache has yet to bump is counted already.
Store == INSTANCE ConfigStore
         WITH Targets <- RangeTargets,
              store <- cache,
              rev <- IF pc = "bump" THEN revision + 1 ELSE revision,
              read <- snap

ImplementsStore == Store!Spec
=============================================================================
