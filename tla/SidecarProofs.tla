--------------------------- MODULE SidecarProofs ---------------------------
(***************************************************************************)
(* Proofs about module Sidecar, for every set of routes, upstreams and     *)
(* Range handlers and every bound on batches and revisions.                *)
(***************************************************************************)
EXTENDS Sidecar, TLAPS
-----------------------------------------------------------------------------
(***************************************************************************)
(* Type correctness.                                                       *)
(***************************************************************************)

\* What Sidecar.Run receives is a non-empty sequence of events.
LEMMA BatchType ==
    ASSUME NEW b \in Batch
    PROVE  b \in Seq(Event) /\ Len(b) \in Nat \ {0}
<1>1. PICK n \in 1..MaxBatch : b \in [1..n -> [type : EventType, key : Key, rev : {0}]]
  BY DEF Batch
<1>2. n \in Nat \ {0}
  BY SidecarAssumption
<1>3. \A i \in 1..n : b[i] \in Event
  BY <1>1 DEF Event
<1>4. DOMAIN b = 1..n /\ b = [i \in 1..n |-> b[i]]
  BY <1>1
<1>5. b \in [1..n -> Event]
  BY <1>3, <1>4
<1> QED
  BY <1>2, <1>5

LEMMA AnyKeyType == AnyKey \in Key
BY SidecarAssumption DEF AnyKey

LEMMA InitType == Init => TypeOK
<1> SUFFICES ASSUME Init PROVE TypeOK
  OBVIOUS
<1>1. events \in Seq(Event)
  BY DEF Init
<1> QED
  BY <1>1, AnyKeyType DEF Init, TypeOK, Absent, NoMeta

\* A pair of revisions that composeKeyValue or pushEvent builds is metadata.
LEMMA MetaType ==
    ASSUME NEW c \in Nat, NEW d \in Nat
    PROVE  [create |-> c, mod |-> d] \in Meta
BY DEF Meta

\* The steps of the sidecar goroutine preserve the types.
LEMMA SidecarStepType ==
    ASSUME TypeOK, SidecarStep
    PROVE  TypeOK'
<1> USE DEF sidecarVars, rangeVars
<1>1. CASE RecvEvents
  <2>1. PICK b \in Batch : events' = b
    BY <1>1 DEF RecvEvents
  <2>2. events' \in Seq(Event) /\ Len(events') \in Nat \ {0}
    BY <2>1, BatchType
  <2> QED
    BY <1>1, <2>2 DEF RecvEvents, TypeOK
<1>2. CASE ReflectToCache
  <2>1. events[at] \in Event
    BY <1>2 DEF ReflectToCache, TypeOK
  <2>2. cache' \in [Key -> Nat \cup {Absent}]
    BY <1>2, <2>1 DEF ReflectToCache, TypeOK, Insert, Delete, Event
  <2> QED
    BY <1>2, <2>2 DEF ReflectToCache, TypeOK
<1>3. CASE BumpRevision
  <2>1. at \in 1..Len(events) /\ events[at] \in Event /\ revision \in Nat
    BY <1>3 DEF BumpRevision, TypeOK
  <2>2. [events[at] EXCEPT !.rev = revision] \in Event
    BY <2>1 DEF Event
  <2>3. events' \in Seq(Event) /\ Len(events') = Len(events)
    BY <1>3, <2>1, <2>2 DEF BumpRevision, TypeOK
  <2> QED
    BY <1>3, <2>1, <2>3 DEF BumpRevision, TypeOK
<1>4. CASE PushLoadMeta
  <2>1. events[at] \in Event
    BY <1>4 DEF PushLoadMeta, TypeOK
  <2>2. metaCache[events[at].key] \in Meta \cup {NoMeta} /\ events[at].rev \in Nat
    BY <2>1 DEF TypeOK, Event
  <2>3. m' \in Meta
    BY <1>4, <2>2 DEF PushLoadMeta, Meta, NoMeta
  <2> QED
    BY <1>4, <2>3 DEF PushLoadMeta, TypeOK
<1>5. CASE PushStoreMeta
  <2>1. events[at] \in Event
    BY <1>5 DEF PushStoreMeta, TypeOK
  <2> QED
    BY <1>5, <2>1 DEF PushStoreMeta, TypeOK, Event
<1>6. CASE PushDone
  <2>1. CASE at < Len(events)
    BY <1>6, <2>1 DEF PushDone, TypeOK
  <2>2. CASE ~(at < Len(events))
    <3>1. events' = <<>> /\ <<>> \in Seq(Event)
      BY <1>6, <2>2 DEF PushDone
    <3>2. events' \in Seq(Event)
      BY <3>1
    <3> QED
      BY <1>6, <2>2, <3>2 DEF PushDone, TypeOK
  <2> QED
    BY <2>1, <2>2
<1> QED
  BY <1>1, <1>2, <1>3, <1>4, <1>5, <1>6 DEF SidecarStep

\* Composing a key-value pair keeps the types of the handler's state.
LEMMA ComposeType ==
    ASSUME TypeOK,
           NEW r \in Readers, NEW k \in Key, NEW meta \in Meta \cup {NoMeta},
           Compose(r, k, meta)
    PROVE  /\ answer' \in [Readers -> [Key -> Meta \cup {NoMeta}]]
           /\ rpc' \in [Readers -> {"idle", "compose", "revision", "store"}]
<1>1. [answer[r] EXCEPT ![k] = meta] \in [Key -> Meta \cup {NoMeta}]
  BY DEF TypeOK
<1>2. answer' = [answer EXCEPT ![r] = [answer[r] EXCEPT ![k] = meta]]
  BY DEF Compose
<1>3. answer' \in [Readers -> [Key -> Meta \cup {NoMeta}]]
  BY <1>1, <1>2 DEF TypeOK
<1> QED
  BY <1>3 DEF Compose, TypeOK

\* The steps of the Range handlers preserve the types.
LEMMA RangeStepType ==
    ASSUME TypeOK, RangeStep
    PROVE  TypeOK'
<1> USE DEF sidecarVars, rangeVars
<1>0. PICK r \in Readers : Range(r) \/ LookupMeta(r) \/ ReadRevision(r) \/ FillMeta(r)
  BY DEF RangeStep
<1>1. CASE Range(r)
  <2>1. snap' \in [Readers -> [Key -> Nat \cup {Absent}]]
    BY <1>1 DEF Range, TypeOK
  <2>2. answer' \in [Readers -> [Key -> Meta \cup {NoMeta}]]
    BY <1>1 DEF Range, TypeOK
  <2> QED
    BY <1>1, <2>1, <2>2 DEF Range, TypeOK
<1>2. CASE LookupMeta(r)
  <2>1. PICK k \in Uncomposed(r) :
             \/ Compose(r, k, metaCache[k]) /\ UNCHANGED rkey
             \/ /\ rkey' = [rkey EXCEPT ![r] = k]
                /\ rpc' = [rpc EXCEPT ![r] = "revision"]
                /\ UNCHANGED answer
    BY <1>2 DEF LookupMeta
  <2>2. k \in Key /\ metaCache[k] \in Meta \cup {NoMeta}
    BY <2>1 DEF Uncomposed, TypeOK
  <2>3. answer' \in [Readers -> [Key -> Meta \cup {NoMeta}]]
    BY <2>1, <2>2, ComposeType DEF TypeOK
  <2>4. rkey' \in [Readers -> Key]
    BY <2>1, <2>2 DEF TypeOK
  <2>5. rpc' \in [Readers -> {"idle", "compose", "revision", "store"}]
    <3>1. CASE Compose(r, k, metaCache[k])
      BY <2>2, <3>1, ComposeType
    <3>2. CASE rpc' = [rpc EXCEPT ![r] = "revision"]
      BY <3>2 DEF TypeOK
    <3> QED
      BY <2>1, <3>1, <3>2
  <2> QED
    BY <1>2, <2>3, <2>4, <2>5 DEF LookupMeta, TypeOK
<1>3. CASE ReadRevision(r)
  BY <1>3 DEF ReadRevision, TypeOK
<1>4. CASE FillMeta(r)
  <2>1. rkey[r] \in Key /\ [create |-> rrev[r], mod |-> rrev[r]] \in Meta
    BY MetaType DEF TypeOK
  <2>2. Compose(r, rkey[r], [create |-> rrev[r], mod |-> rrev[r]])
    BY <1>4 DEF FillMeta
  <2>3. /\ answer' \in [Readers -> [Key -> Meta \cup {NoMeta}]]
        /\ rpc' \in [Readers -> {"idle", "compose", "revision", "store"}]
    BY <2>1, <2>2, ComposeType
  <2> QED
    BY <1>4, <2>1, <2>3, AnyKeyType DEF FillMeta, TypeOK
<1> QED
  BY <1>0, <1>1, <1>2, <1>3, <1>4

\* Type correctness of the sidecar goroutine, the cache, the metadata and the
\* Range handlers, with the index of the batch always inside the batch.
THEOREM TypeCorrect == Spec => []TypeOK
<1>1. ASSUME TypeOK, [Next]_vars PROVE TypeOK'
  <2>1. CASE UNCHANGED vars
    BY <1>1, <2>1 DEF TypeOK, vars, sidecarVars, rangeVars
  <2> QED
    BY <1>1, <2>1, SidecarStepType, RangeStepType DEF Next
<1> QED
  BY <1>1, InitType, PTL DEF Spec
-----------------------------------------------------------------------------
(***************************************************************************)
(* The metadata of pushed keys.  MetaInv is inductive relative to TypeOK.  *)
(***************************************************************************)

\* With no batch in work nothing is pending.
LEMMA RecvPending ==
    ASSUME pc = "recv", events = <<>>
    PROVE  Pending = {} /\ PendingKeys = {}
BY DEF Pending, PendingKeys

\* The batch in work and the index into it.
LEMMA BatchInWork ==
    ASSUME TypeOK, pc # "recv"
    PROVE  /\ DOMAIN events = 1..Len(events) /\ Len(events) \in Nat
           /\ at \in DOMAIN events /\ at \in Nat
           /\ \A i \in DOMAIN events :
                /\ i \in Nat
                /\ events[i].key \in Key /\ events[i].rev \in Nat
                /\ events[i].type \in EventType
<1>1. /\ events \in Seq(Event) /\ at \in 1..Len(events)
      /\ DOMAIN events = 1..Len(events) /\ Len(events) \in Nat
  BY DEF TypeOK
<1>2. \A i \in DOMAIN events : events[i] \in Event
  BY <1>1
<1> QED
  BY <1>1, <1>2 DEF Event

LEMMA InitMeta == Init => MetaInv
<1> SUFFICES ASSUME Init PROVE MetaInv
  OBVIOUS
<1>1. Pending = {} /\ PendingKeys = {}
  BY RecvPending DEF Init
<1>2. RevisionsIncrease
  BY DEF Init, RevisionsIncrease
<1>3. LastPendingCached
  BY <1>1 DEF LastPendingCached
<1>4. MetaPrecedesPending
  BY DEF Init, MetaPrecedesPending
<1>5. MetaCoversCache /\ PushedMetaExact
  BY DEF Init, MetaCoversCache, PushedMetaExact
<1> QED
  BY <1>2, <1>3, <1>4, <1>5 DEF MetaInv

\* A batch arrives: it has no effect yet.
LEMMA RecvEventsMeta ==
    ASSUME TypeOK, TypeOK', MetaInv, RecvEvents
    PROVE  MetaInv'
<1>1. Pending = {} /\ PendingKeys = {}
  BY RecvPending DEF MetaInv, RevisionsIncrease, RecvEvents
<1>2. /\ pc = "recv" /\ pc' = "cache" /\ at' = 1
      /\ UNCHANGED <<cache, revision, metaCache, m, filled>>
  BY DEF RecvEvents
<1>3. \A i \in DOMAIN events' : ~(i < at') /\ i \in Nat
  BY <1>2 DEF TypeOK
<1>4. Pending' = {} /\ PendingKeys' = {}
  BY <1>2, <1>3 DEF Pending, PendingKeys, Reflected
<1>5. RevisionsIncrease'
  BY <1>2, <1>3 DEF RevisionsIncrease, Numbered
<1>6. LastPendingCached'
  BY <1>4 DEF LastPendingCached
<1>7. MetaPrecedesPending'
  BY <1>2, <1>4 DEF MetaPrecedesPending, MetaInv
<1>8. MetaCoversCache' /\ PushedMetaExact'
  BY <1>1, <1>2, <1>4 DEF MetaCoversCache, PushedMetaExact, MetaInv
<1> QED
  BY <1>5, <1>6, <1>7, <1>8 DEF MetaInv

\* An event reaches the cache: it is the last pending one of its key.
LEMMA ReflectToCacheMeta ==
    ASSUME TypeOK, TypeOK', MetaInv, ReflectToCache
    PROVE  MetaInv'
<1> DEFINE e == events[at]
<1>1. /\ pc = "cache" /\ pc' = "bump"
      /\ UNCHANGED <<revision, metaCache, events, at, m, filled>>
  BY DEF ReflectToCache
<1>2. /\ DOMAIN events = 1..Len(events) /\ Len(events) \in Nat
      /\ at \in DOMAIN events /\ at \in Nat
      /\ \A i \in DOMAIN events : events[i].key \in Key
  BY <1>1, BatchInWork
<1>3. /\ \A k \in Key \ {e.key} : cache'[k] = cache[k]
      /\ cache'[e.key] = IF e.type = "delete" THEN Absent ELSE revision
  BY <1>2 DEF ReflectToCache, Insert, Delete, TypeOK
<1>4. /\ Pending' = Pending \cup {at}
      /\ \A i \in Pending : i < at /\ i \in DOMAIN events
  BY <1>1, <1>2 DEF Pending, Reflected, Pushed
<1>5. \A i : Numbered(i)' <=> Numbered(i)
  BY <1>1 DEF Numbered
<1>6. ~Numbered(at)
  BY <1>1, <1>2 DEF Numbered
<1>7. PendingKeys' = PendingKeys \cup {e.key}
  BY <1>1, <1>4 DEF PendingKeys
<1>8. RevisionsIncrease'
  BY <1>1, <1>5 DEF RevisionsIncrease, MetaInv
<1>9. LastPendingCached'
  <2> SUFFICES ASSUME NEW i \in Pending',
                      \A j \in Pending' : i < j => events[j].key # events[i].key
               PROVE  cache'[events[i].key] =
                        IF events[i].type = "delete" THEN Absent
                        ELSE IF Numbered(i) THEN events[i].rev ELSE revision
    BY <1>1, <1>5 DEF LastPendingCached
  <2>1. CASE i = at
    BY <2>1, <1>3, <1>6
  <2>2. CASE i # at
    <3>1. i \in Pending /\ i < at /\ events[i].key \in Key \ {e.key}
      BY <2>2, <1>2, <1>4
    <3>2. \A j \in Pending : i < j => events[j].key # events[i].key
      BY <1>4
    <3> QED
      BY <3>1, <3>2, <1>3 DEF LastPendingCached, MetaInv
  <2> QED
    BY <2>1, <2>2
<1>10. MetaPrecedesPending'
  BY <1>1, <1>4, <1>5, <1>6 DEF MetaPrecedesPending, MetaInv
<1>11. MetaCoversCache' /\ PushedMetaExact'
  BY <1>1, <1>3, <1>7 DEF MetaCoversCache, PushedMetaExact, MetaInv
<1> QED
  BY <1>8, <1>9, <1>10, <1>11 DEF MetaInv

\* The event gets its revision: larger than those before it in the batch, than
\* the metadata, and the one the cache shows already.
LEMMA BumpRevisionMeta ==
    ASSUME TypeOK, TypeOK', MetaInv, BumpRevision
    PROVE  MetaInv'
<1>1. /\ pc = "bump" /\ pc' \in {"cache", "load"}
      /\ revision' = revision + 1 /\ revision \in Nat
      /\ events' = [events EXCEPT ![at].rev = revision]
      /\ UNCHANGED <<cache, metaCache, m, filled>>
  BY DEF BumpRevision, TypeOK
<1>2. /\ DOMAIN events = 1..Len(events) /\ Len(events) \in Nat
      /\ at \in DOMAIN events /\ at \in Nat
      /\ \A i \in DOMAIN events :
           i \in Nat /\ events[i].key \in Key /\ events[i].rev \in Nat
  BY <1>1, BatchInWork
<1>3. /\ DOMAIN events' = DOMAIN events
      /\ \A i \in DOMAIN events : /\ events'[i].key = events[i].key
                                  /\ events'[i].type = events[i].type
                                  /\ i # at => events'[i].rev = events[i].rev
      /\ events'[at].rev = revision
  <2>1. events[at] \in Event /\ \A i \in DOMAIN events : events[i] \in Event
    BY <1>2 DEF TypeOK
  <2> QED
    BY <1>1, <1>2, <2>1 DEF Event
<1>4. \A i \in DOMAIN events : /\ Numbered(i)' <=> i <= at
                               /\ Numbered(i) <=> i < at
  BY <1>1, <1>2 DEF BumpRevision, Numbered
<1>5. /\ Pending' = Pending
      /\ \A i \in Pending : i <= at /\ i \in DOMAIN events
  BY <1>1, <1>2, <1>3 DEF BumpRevision, Pending, Reflected, Pushed
<1>6. PendingKeys' = PendingKeys
  BY <1>3, <1>5 DEF PendingKeys
<1>7. RevisionsIncrease'
  <2> SUFFICES ASSUME NEW i \in DOMAIN events, i <= at
               PROVE  /\ events'[i].rev < revision + 1
                      /\ \A j \in DOMAIN events :
                            j <= at /\ i < j => events'[i].rev < events'[j].rev
    BY <1>1, <1>3, <1>4 DEF RevisionsIncrease
  <2>1. \A j \in DOMAIN events : j < at =>
            /\ events[j].rev < revision
            /\ \A l \in DOMAIN events : l < at /\ j < l => events[j].rev < events[l].rev
    BY <1>4 DEF RevisionsIncrease, MetaInv
  <2> QED
    BY <1>1, <1>2, <1>3, <2>1
<1>8. LastPendingCached'
  <2> SUFFICES ASSUME NEW i \in Pending,
                      \A j \in Pending : i < j => events[j].key # events[i].key
               PROVE  cache[events[i].key] =
                        IF events[i].type = "delete" THEN Absent ELSE events'[i].rev
    BY <1>1, <1>3, <1>4, <1>5 DEF LastPendingCached
  <2> QED
    BY <1>2, <1>3, <1>4, <1>5 DEF LastPendingCached, MetaInv
<1>9. MetaPrecedesPending'
  <2>1. ASSUME NEW k \in Key \ filled, metaCache[k] # NoMeta
        PROVE  /\ metaCache[k].create <= metaCache[k].mod
               /\ metaCache[k].mod < revision + 1
               /\ \A i \in Pending : events[i].key = k => metaCache[k].mod < events'[i].rev
    <3>1. metaCache[k] \in Meta
      BY <2>1 DEF TypeOK
    <3>2. metaCache[k].mod \in Nat /\ metaCache[k].mod < revision
      BY <2>1, <3>1 DEF MetaPrecedesPending, MetaInv, Meta
    <3>3. ASSUME NEW i \in Pending, events[i].key = k
          PROVE  metaCache[k].mod < events'[i].rev
      BY <2>1, <3>2, <3>3, <1>2, <1>3, <1>4, <1>5 DEF MetaPrecedesPending, MetaInv
    <3> QED
      BY <2>1, <3>2, <3>3, <1>1 DEF MetaPrecedesPending, MetaInv
  <2> QED
    BY <2>1, <1>1, <1>3, <1>5 DEF MetaPrecedesPending
<1>10. MetaCoversCache' /\ PushedMetaExact'
  BY <1>1, <1>6 DEF MetaCoversCache, PushedMetaExact, MetaInv
<1> QED
  BY <1>7, <1>8, <1>9, <1>10 DEF MetaInv

\* pushEvent loads the metadata: an older one, unless a Range wrote it.
LEMMA PushLoadMetaMeta ==
    ASSUME TypeOK, TypeOK', MetaInv, PushLoadMeta
    PROVE  MetaInv'
<1>1. /\ pc = "load" /\ pc' = "store"
      /\ UNCHANGED <<cache, revision, metaCache, events, at, filled>>
  BY DEF PushLoadMeta
<1>2. /\ DOMAIN events = 1..Len(events) /\ Len(events) \in Nat
      /\ at \in DOMAIN events /\ at \in Nat
      /\ events[at].key \in Key /\ events[at].rev \in Nat
  BY <1>1, BatchInWork
<1>3. Pending' = Pending /\ PendingKeys' = PendingKeys
  BY <1>1 DEF Pending, PendingKeys, Reflected, Pushed
<1>4. \A i : Numbered(i) /\ Numbered(i)'
  BY <1>1 DEF Numbered
<1>5. at \in Pending
  BY <1>1, <1>2 DEF Pending, Reflected, Pushed
<1>6. RevisionsIncrease' /\ LastPendingCached'
  BY <1>1, <1>3, <1>4 DEF RevisionsIncrease, LastPendingCached, MetaInv
<1>7. m'.mod = events[at].rev
  BY DEF PushLoadMeta
<1>8. ASSUME events[at].key \notin filled
      PROVE  m'.create <= m'.mod
  <2> DEFINE old == metaCache[events[at].key]
  <2>1. CASE old = NoMeta
    BY <2>1, <1>2 DEF PushLoadMeta
  <2>2. CASE old # NoMeta
    <3>1. old \in Meta
      BY <2>2, <1>2 DEF TypeOK
    <3>2. old.create <= old.mod /\ old.mod < events[at].rev
      BY <1>2, <1>4, <1>5, <1>8, <2>2 DEF MetaPrecedesPending, MetaInv
    <3>3. m'.create = old.create
      BY <2>2 DEF PushLoadMeta
    <3> QED
      BY <1>2, <1>7, <3>1, <3>2, <3>3 DEF Meta
  <2> QED
    BY <2>1, <2>2
<1>9. MetaPrecedesPending'
  BY <1>1, <1>3, <1>4, <1>7, <1>8 DEF MetaPrecedesPending, MetaInv
<1>10. MetaCoversCache' /\ PushedMetaExact'
  BY <1>1, <1>3 DEF MetaCoversCache, PushedMetaExact, MetaInv
<1> QED
  BY <1>6, <1>9, <1>10 DEF MetaInv

\* pushEvent stores the metadata.  If no other event of the key is pending, the
\* event it pushes is the one the cache shows.
LEMMA PushStoreMetaMeta ==
    ASSUME TypeOK, TypeOK', MetaInv, PushStoreMeta
    PROVE  MetaInv'
<1> DEFINE e == events[at]
           put == e.type # "delete"
<1>1. /\ pc = "store" /\ pc' = "fanout"
      /\ UNCHANGED <<cache, revision, events, at, m>>
      /\ metaCache' = [metaCache EXCEPT ![e.key] = IF put THEN m ELSE NoMeta]
      /\ filled' = IF put THEN filled ELSE filled \ {e.key}
  BY DEF PushStoreMeta
<1>2. /\ DOMAIN events = 1..Len(events) /\ Len(events) \in Nat
      /\ at \in DOMAIN events /\ at \in Nat
      /\ \A i \in DOMAIN events :
           i \in Nat /\ events[i].key \in Key /\ events[i].rev \in Nat
  BY <1>1, BatchInWork
<1>3. \A i : Numbered(i) /\ Numbered(i)'
  BY <1>1 DEF Numbered
<1>4. /\ Pending' = Pending \ {at} /\ at \in Pending
      /\ \A i \in Pending : i \in DOMAIN events /\ (i # at => at < i)
  BY <1>1, <1>2 DEF Pending, Reflected, Pushed
<1>5. PendingKeys \ {e.key} = PendingKeys' \ {e.key}
  BY <1>1, <1>4 DEF PendingKeys
<1>6. /\ m.mod = e.rev /\ m # NoMeta
      /\ e.key \notin filled => m.create <= m.mod
  BY <1>1, <1>2 DEF MetaPrecedesPending, MetaInv, NoMeta, Absent
<1>7. /\ metaCache'[e.key] = IF put THEN m ELSE NoMeta
      /\ \A k \in Key \ {e.key} : metaCache'[k] = metaCache[k]
  BY <1>1, <1>2 DEF TypeOK
<1>8. ASSUME e.key \notin PendingKeys'
      PROVE  cache[e.key] = IF put THEN e.rev ELSE Absent
  <2>1. \A j \in Pending : at < j => events[j].key # e.key
    BY <1>1, <1>2, <1>4, <1>8 DEF PendingKeys
  <2> QED
    BY <2>1, <1>3, <1>4 DEF LastPendingCached, MetaInv
<1>9. RevisionsIncrease'
  BY <1>1, <1>3 DEF RevisionsIncrease, MetaInv
<1>10. LastPendingCached'
  <2> SUFFICES ASSUME NEW i \in Pending', 
                      \A j \in Pending' : i < j => events[j].key # events[i].key
               PROVE  cache[events[i].key] =
                        IF events[i].type = "delete" THEN Absent ELSE events[i].rev
    BY <1>1, <1>3 DEF LastPendingCached
  <2>1. \A j \in Pending : i < j => events[j].key # events[i].key
    BY <1>2, <1>4
  <2> QED
    BY <2>1, <1>3, <1>4 DEF LastPendingCached, MetaInv
<1>11. MetaPrecedesPending'
  <2> SUFFICES ASSUME NEW k \in Key, k \notin filled', metaCache'[k] # NoMeta
               PROVE  /\ metaCache'[k].create <= metaCache'[k].mod
                      /\ metaCache'[k].mod < revision
                      /\ \A i \in Pending' : events[i].key = k =>
                            metaCache'[k].mod < events[i].rev
    BY <1>1, <1>3 DEF MetaPrecedesPending
  <2>1. CASE k = e.key
    <3>1. metaCache'[k] = m /\ k \notin filled
      BY <2>1, <1>1, <1>7
    <3>2. e.rev < revision /\ \A i \in Pending' : e.rev < events[i].rev
      BY <1>2, <1>3, <1>4 DEF RevisionsIncrease, MetaInv
    <3> QED
      BY <2>1, <3>1, <3>2, <1>6
  <2>2. CASE k # e.key
    <3>1. metaCache'[k] = metaCache[k] /\ k \notin filled
      BY <2>2, <1>1, <1>7
    <3> QED
      BY <3>1, <1>3, <1>4 DEF MetaPrecedesPending, MetaInv
  <2> QED
    BY <2>1, <2>2
<1>12. MetaCoversCache'
  <2> SUFFICES ASSUME NEW k \in Key, k \notin PendingKeys', cache[k] # Absent
               PROVE  metaCache'[k] # NoMeta
    BY <1>1 DEF MetaCoversCache
  <2>1. CASE k = e.key
    BY <2>1, <1>6, <1>7, <1>8
  <2>2. CASE k # e.key
    BY <2>2, <1>5, <1>7 DEF MetaCoversCache, MetaInv
  <2> QED
    BY <2>1, <2>2
<1>13. PushedMetaExact'
  <2> SUFFICES ASSUME NEW k \in Key, k \notin PendingKeys', k \notin filled'
               PROVE  /\ metaCache'[k] = NoMeta <=> cache[k] = Absent
                      /\ metaCache'[k] # NoMeta =>
                            /\ metaCache'[k].mod = cache[k]
                            /\ metaCache'[k].create <= metaCache'[k].mod
    BY <1>1 DEF PushedMetaExact
  <2>1. CASE k = e.key
    <3>1. cache[k] = IF put THEN e.rev ELSE Absent
      BY <2>1, <1>8
    <3>2. CASE put
      <4>1. metaCache'[k] = m /\ k \notin filled /\ e.rev # Absent
        BY <2>1, <3>2, <1>1, <1>2, <1>7 DEF Absent
      <4> QED
        BY <2>1, <3>1, <3>2, <4>1, <1>6
    <3>3. CASE ~put
      BY <2>1, <3>1, <3>3, <1>7
    <3> QED
      BY <3>2, <3>3
  <2>2. CASE k # e.key
    <3>1. metaCache'[k] = metaCache[k] /\ k \notin filled /\ k \notin PendingKeys
      BY <2>2, <1>1, <1>5, <1>7
    <3> QED
      BY <3>1 DEF PushedMetaExact, MetaInv
  <2> QED
    BY <2>1, <2>2
<1> QED
  BY <1>9, <1>10, <1>11, <1>12, <1>13 DEF MetaInv

\* The end of pushEvent changes neither cache nor metadata.
LEMMA PushDoneMeta ==
    ASSUME TypeOK, TypeOK', MetaInv, PushDone
    PROVE  MetaInv'
<1>1. /\ pc = "fanout" /\ pc' \in {"load", "recv"}
      /\ UNCHANGED <<cache, revision, metaCache, filled>>
      /\ pc' = "load" => UNCHANGED events /\ at' = at + 1
      /\ pc' = "recv" => events' = <<>> /\ ~(at < Len(events))
  BY DEF PushDone
<1>2. /\ DOMAIN events = 1..Len(events) /\ Len(events) \in Nat
      /\ at \in DOMAIN events /\ at \in Nat
      /\ \A i \in DOMAIN events : i \in Nat
  BY <1>1, BatchInWork
<1>3. \A i : Numbered(i) /\ Numbered(i)'
  BY <1>1 DEF Numbered
<1>4. Pending' = Pending /\ PendingKeys' = PendingKeys
  <2>1. CASE pc' = "load"
    BY <2>1, <1>1, <1>2 DEF Pending, PendingKeys, Reflected, Pushed
  <2>2. CASE pc' = "recv"
    <3>1. Pending = {}
      BY <2>2, <1>1, <1>2 DEF Pending, Reflected, Pushed
    <3>2. Pending' = {}
      BY <2>2, <1>1 DEF Pending
    <3> QED
      BY <3>1, <3>2 DEF PendingKeys
  <2> QED
    BY <2>1, <2>2, <1>1
<1>5. RevisionsIncrease'
  BY <1>1, <1>3 DEF RevisionsIncrease, MetaInv
<1>6. LastPendingCached' /\ MetaPrecedesPending'
  <2>1. CASE pc' = "load"
    BY <2>1, <1>1, <1>3, <1>4 DEF LastPendingCached, MetaPrecedesPending, MetaInv
  <2>2. CASE pc' = "recv"
    <3>1. Pending' = {}
      BY <2>2, <1>1 DEF Pending
    <3> QED
      BY <2>2, <3>1, <1>1 DEF LastPendingCached, MetaPrecedesPending, MetaInv
  <2> QED
    BY <2>1, <2>2, <1>1
<1>7. MetaCoversCache' /\ PushedMetaExact'
  BY <1>1, <1>4 DEF MetaCoversCache, PushedMetaExact, MetaInv
<1> QED
  BY <1>5, <1>6, <1>7 DEF MetaInv

\* A Range handler writes nothing but metadata, of one key at a time.
LEMMA RangeWrites ==
    ASSUME TypeOK, RangeStep
    PROVE  /\ UNCHANGED <<cache, revision, pc, events, at, m>>
           /\ \/ UNCHANGED <<metaCache, filled>>
              \/ \E k \in Key : /\ filled' = filled \cup {k}
                                /\ metaCache'[k] # NoMeta
                                /\ \A j \in Key \ {k} : metaCache'[j] = metaCache[j]
<1>0. PICK r \in Readers : Range(r) \/ LookupMeta(r) \/ ReadRevision(r) \/ FillMeta(r)
  BY DEF RangeStep
<1>1. UNCHANGED <<cache, revision, pc, events, at, m>>
  BY <1>0 DEF Range, LookupMeta, ReadRevision, FillMeta, sidecarVars
<1>2. CASE FillMeta(r)
  <2>1. rkey[r] \in Key /\ rrev[r] \in Nat
    BY DEF TypeOK
  <2>2. /\ filled' = filled \cup {rkey[r]}
        /\ metaCache'[rkey[r]] = [create |-> rrev[r], mod |-> rrev[r]]
        /\ \A j \in Key \ {rkey[r]} : metaCache'[j] = metaCache[j]
    BY <1>2, <2>1 DEF FillMeta, TypeOK
  <2>3. metaCache'[rkey[r]] # NoMeta
    BY <2>1, <2>2 DEF NoMeta, Absent
  <2> QED
    BY <1>1, <2>1, <2>2, <2>3
<1>3. CASE ~FillMeta(r)
  BY <1>0, <1>1, <1>3 DEF Range, LookupMeta, ReadRevision, sidecarVars
<1> QED
  BY <1>2, <1>3

\* A handler that writes metadata for a key takes the key out of what PushedMetaExact
\* speaks of; the other steps of a handler leave the sidecar's state alone.
LEMMA RangeStepMeta ==
    ASSUME TypeOK, TypeOK', MetaInv, RangeStep
    PROVE  MetaInv'
<1>1. UNCHANGED <<cache, revision, pc, events, at, m>>
  BY RangeWrites
<1>2. Pending' = Pending /\ PendingKeys' = PendingKeys
  BY <1>1 DEF Pending, PendingKeys, Reflected, Pushed
<1>3. \A i : Numbered(i)' <=> Numbered(i)
  BY <1>1 DEF Numbered
<1>4. RevisionsIncrease' /\ LastPendingCached'
  BY <1>1, <1>2, <1>3 DEF RevisionsIncrease, LastPendingCached, MetaInv
<1>5. \/ UNCHANGED <<metaCache, filled>>
      \/ \E k \in Key : /\ filled' = filled \cup {k}
                        /\ metaCache'[k] # NoMeta
                        /\ \A j \in Key \ {k} : metaCache'[j] = metaCache[j]
  BY RangeWrites
<1>6. MetaPrecedesPending'
  BY <1>1, <1>2, <1>3, <1>5 DEF MetaPrecedesPending, MetaInv
<1>7. MetaCoversCache' /\ PushedMetaExact'
  BY <1>1, <1>2, <1>5 DEF MetaCoversCache, PushedMetaExact, MetaInv
<1> QED
  BY <1>4, <1>6, <1>7 DEF MetaInv

\* MetaInv holds in every reachable state.
LEMMA MetaInvariant == Spec => []MetaInv
<1>1. ASSUME TypeOK, TypeOK', MetaInv, [Next]_vars PROVE MetaInv'
  <2>1. CASE UNCHANGED vars
    BY <1>1, <2>1
       DEF MetaInv, RevisionsIncrease, LastPendingCached, MetaPrecedesPending,
           MetaCoversCache, PushedMetaExact, Pending, PendingKeys, Reflected, Pushed,
           Numbered, vars, sidecarVars, rangeVars
  <2> QED
    BY <1>1, <2>1, RecvEventsMeta, ReflectToCacheMeta, BumpRevisionMeta,
       PushLoadMetaMeta, PushStoreMetaMeta, PushDoneMeta, RangeStepMeta
       DEF Next, SidecarStep
<1> QED
  BY <1>1, InitMeta, TypeCorrect, PTL DEF Spec

\* A cached object always has metadata, except while one of its events is between
\* reflectToCache and pushEvent.
THEOREM CachedHasMeta == Spec => []MetaCoversCache
<1>1. MetaInv => MetaCoversCache
  BY DEF MetaInv
<1> QED
  BY <1>1, MetaInvariant, PTL

\* The metadata of pushed events is exact unless composeKeyValue has written it.
THEOREM PushedMetaIsExact == Spec => []PushedMetaExact
<1>1. MetaInv => PushedMetaExact
  BY DEF MetaInv
<1> QED
  BY <1>1, MetaInvariant, PTL
-----------------------------------------------------------------------------
(***************************************************************************)
(* Range requests that overlap no batch.                                   *)
(***************************************************************************)

CalmInv ==
    /\ \A r \in Readers : calm[r] => pc = "recv"
    /\ CalmRangeExact

\* A calm handler finds the metadata of every object it read: exact, unless a
\* Range that overlapped a batch has written it.
LEMMA CalmLookup ==
    ASSUME TypeOK, MetaInv, CalmInv, NEW r \in Readers, calm[r],
           NEW k \in Uncomposed(r)
    PROVE  /\ k \in Key /\ metaCache[k] # NoMeta
           /\ k \notin filled => metaCache[k].mod = snap[r][k]
<1>1. pc = "recv" /\ k \in Key /\ snap[r][k] # Absent
  BY DEF CalmInv, Uncomposed
<1>2. PendingKeys = {}
  BY <1>1, RecvPending DEF MetaInv, RevisionsIncrease
<1>3. snap[r][k] = cache[k]
  BY <1>1 DEF CalmInv, CalmRangeExact
<1>4. metaCache[k] # NoMeta
  BY <1>1, <1>2, <1>3 DEF MetaInv, MetaCoversCache
<1> QED
  BY <1>1, <1>2, <1>3, <1>4 DEF MetaInv, PushedMetaExact

\* The steps of the Range handlers preserve CalmInv.
LEMMA RangeStepCalm ==
    ASSUME TypeOK, TypeOK', MetaInv, CalmInv, RangeStep
    PROVE  CalmInv'
<1> USE DEF sidecarVars
<1>0. PICK r \in Readers : Range(r) \/ LookupMeta(r) \/ ReadRevision(r) \/ FillMeta(r)
  BY DEF RangeStep
<1>1. /\ UNCHANGED <<cache, pc>>
      /\ filled \subseteq filled'
  BY <1>0 DEF Range, LookupMeta, ReadRevision, FillMeta
<1>2. \A q \in Readers \ {r} :
        /\ rpc'[q] = rpc[q] /\ snap'[q] = snap[q] /\ answer'[q] = answer[q]
        /\ calm'[q] = calm[q]
  BY <1>0 DEF Range, LookupMeta, ReadRevision, FillMeta, Compose, TypeOK
<1>3. /\ calm'[r] => pc = "recv"
      /\ calm'[r] =>
          /\ rpc'[r] \in {"idle", "compose"}
          /\ \A k \in Key :
              /\ snap'[r][k] # Absent => snap'[r][k] = cache[k]
              /\ answer'[r][k] # NoMeta /\ k \notin filled' =>
                    answer'[r][k].mod = snap'[r][k]
  <2>1. CASE Range(r)
    <3>1. PICK target \in RangeTargets :
            snap' = [snap EXCEPT ![r] =
                      [k \in Key |-> IF k \in target THEN cache[k] ELSE Absent]]
      BY <2>1 DEF Range
    <3>2. \A k \in Key : /\ snap'[r][k] # Absent => snap'[r][k] = cache[k]
                         /\ answer'[r][k] = NoMeta
      BY <2>1, <3>1 DEF Range, TypeOK
    <3>3. rpc'[r] \in {"idle", "compose"} /\ calm'[r] = (pc = "recv")
      BY <2>1 DEF Range, TypeOK
    <3> QED
      BY <3>2, <3>3
  <2>2. CASE LookupMeta(r)
    <3> SUFFICES ASSUME calm[r]
                 PROVE  /\ rpc'[r] \in {"idle", "compose"}
                        /\ \A j \in Key :
                            /\ snap'[r][j] # Absent => snap'[r][j] = cache[j]
                            /\ answer'[r][j] # NoMeta /\ j \notin filled' =>
                                  answer'[r][j].mod = snap'[r][j]
      BY <2>2 DEF LookupMeta, CalmInv
    <3>1. PICK k \in Uncomposed(r) :
               \/ Compose(r, k, metaCache[k])
               \/ metaCache[k] = NoMeta
      BY <2>2 DEF LookupMeta
    <3>2. /\ k \in Key /\ metaCache[k] # NoMeta
          /\ k \notin filled => metaCache[k].mod = snap[r][k]
      BY CalmLookup
    <3>3. /\ rpc'[r] \in {"idle", "compose"}
          /\ answer'[r] = [answer[r] EXCEPT ![k] = metaCache[k]]
      BY <3>1, <3>2 DEF Compose, TypeOK
    <3>4. answer'[r][k] = metaCache[k] /\ \A j \in Key \ {k} : answer'[r][j] = answer[r][j]
      BY <3>2, <3>3 DEF TypeOK
    <3>5. snap' = snap /\ filled' = filled
      BY <2>2 DEF LookupMeta
    <3> QED
      BY <3>2, <3>3, <3>4, <3>5 DEF CalmInv, CalmRangeExact
  <2>3. CASE ReadRevision(r) \/ FillMeta(r)
    <3>1. rpc[r] \in {"revision", "store"} /\ calm' = calm
      BY <2>3 DEF ReadRevision, FillMeta
    <3>2. ~calm[r]
      BY <3>1 DEF CalmInv, CalmRangeExact
    <3> QED
      BY <3>1, <3>2
  <2> QED
    BY <2>1, <2>2, <2>3, <1>0
<1>4. \A q \in Readers : calm'[q] => pc' = "recv"
  BY <1>1, <1>2, <1>3 DEF CalmInv
<1>5. CalmRangeExact'
  <2> SUFFICES ASSUME NEW q \in Readers, calm'[q]
               PROVE  /\ rpc'[q] \in {"idle", "compose"}
                      /\ \A k \in Key :
                          /\ snap'[q][k] # Absent => snap'[q][k] = cache'[k]
                          /\ answer'[q][k] # NoMeta /\ k \notin filled' =>
                                answer'[q][k].mod = snap'[q][k]
    BY DEF CalmRangeExact
  <2>1. CASE q = r
    BY <2>1, <1>1, <1>3
  <2>2. CASE q # r
    BY <2>2, <1>1, <1>2 DEF CalmInv, CalmRangeExact
  <2> QED
    BY <2>1, <2>2
<1> QED
  BY <1>4, <1>5 DEF CalmInv

\* A Range that overlaps no batch never writes metadata and answers with objects
\* that are still cached, under the mod revisions of the events that wrote them.
THEOREM CalmRangeIsExact == Spec => []CalmRangeExact
<1>1. Init => CalmInv
  BY DEF Init, CalmInv, CalmRangeExact
<1>2. ASSUME TypeOK, TypeOK', MetaInv, CalmInv, [Next]_vars PROVE CalmInv'
  <2>1. CASE UNCHANGED vars
    BY <1>2, <2>1 DEF CalmInv, CalmRangeExact, vars, sidecarVars, rangeVars
  <2>2. CASE RecvEvents
    BY <2>2 DEF RecvEvents, CalmInv, CalmRangeExact
  <2>3. CASE SidecarStep /\ ~RecvEvents
    <3>1. pc # "recv" /\ calm' = calm
      BY <2>3 DEF SidecarStep, ReflectToCache, BumpRevision, PushLoadMeta,
                  PushStoreMeta, PushDone
    <3> QED
      BY <1>2, <3>1 DEF CalmInv, CalmRangeExact
  <2> QED
    BY <1>2, <2>1, <2>2, <2>3, RangeStepCalm DEF Next
<1>3. CalmInv => CalmRangeExact
  BY DEF CalmInv
<1> QED
  BY <1>1, <1>2, <1>3, TypeCorrect, MetaInvariant, PTL DEF Spec
-----------------------------------------------------------------------------
(***************************************************************************)
(* Refinement of ConfigStore.                                              *)
(***************************************************************************)

\* Reflecting an event to the cache is one step of the abstract store; bumping
\* the revision is not visible there.
LEMMA SidecarStepRefines ==
    ASSUME TypeOK, SidecarStep
    PROVE  [Store!Next]_(Store!storeVars)
<1> USE DEF rangeVars
<1>1. CASE ReflectToCache
  <2>1. /\ pc = "cache" /\ pc' = "bump"
        /\ UNCHANGED <<revision, snap>>
    BY <1>1 DEF ReflectToCache
  <2>2. events[at].key \in Key
    BY <2>1, BatchInWork
  <2>3. CASE events[at].type = "delete"
    <3>1. Store!Remove(events[at].key)
      BY <1>1, <2>1, <2>3 DEF ReflectToCache, Delete, Store!Remove
    <3> QED
      BY <2>2, <3>1 DEF Store!Next
  <2>4. CASE events[at].type # "delete"
    <3>1. Store!Put(events[at].key)
      BY <1>1, <2>1, <2>4 DEF ReflectToCache, Insert, Store!Put
    <3> QED
      BY <2>2, <3>1 DEF Store!Next
  <2> QED
    BY <2>3, <2>4
<1>2. CASE BumpRevision
  BY <1>2 DEF BumpRevision, Store!storeVars
<1>3. CASE RecvEvents \/ PushLoadMeta \/ PushStoreMeta \/ PushDone
  BY <1>3 DEF RecvEvents, PushLoadMeta, PushStoreMeta, PushDone, Store!storeVars
<1> QED
  BY <1>1, <1>2, <1>3 DEF SidecarStep

\* The cache, with the revision counted from the moment an event is reflected, and
\* the objects read by the Range handlers implement ConfigStore.
THEOREM CacheImplementsStore == Spec => ImplementsStore
<1>1. Init => Store!Init
  BY DEF Init, Store!Init
<1>2. ASSUME TypeOK, [Next]_vars PROVE [Store!Next]_(Store!storeVars)
  <2>1. CASE UNCHANGED vars
    BY <2>1 DEF vars, sidecarVars, rangeVars, Store!storeVars
  <2>2. CASE RangeStep
    <3>1. PICK r \in Readers :
               Range(r) \/ LookupMeta(r) \/ ReadRevision(r) \/ FillMeta(r)
      BY <2>2 DEF RangeStep
    <3>2. CASE Range(r)
      <4>1. PICK target \in RangeTargets :
              snap' = [snap EXCEPT ![r] =
                        [k \in Key |-> IF k \in target THEN cache[k] ELSE Absent]]
        BY <3>2 DEF Range
      <4>2. Store!Read(r, target)
        BY <3>2, <4>1 DEF Range, sidecarVars, Store!Read
      <4> QED
        BY <4>1, <4>2 DEF Store!Next
    <3>3. CASE LookupMeta(r) \/ ReadRevision(r) \/ FillMeta(r)
      BY <3>3 DEF LookupMeta, ReadRevision, FillMeta, sidecarVars, Store!storeVars
    <3> QED
      BY <3>1, <3>2, <3>3
  <2> QED
    BY <1>2, <2>1, <2>2, SidecarStepRefines DEF Next
<1> QED
  BY <1>1, <1>2, TypeCorrect, PTL DEF Spec, ImplementsStore, Store!Spec
=============================================================================
