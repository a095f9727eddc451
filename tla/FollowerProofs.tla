--------------------------- MODULE FollowerProofs ---------------------------
(***************************************************************************)
(* Proofs about module Follower, for any states of the world: a memory     *)
(* that applies the events of every difference always shows the last       *)
(* state, and where ids are not repeated no event is sent in vain.         *)
(***************************************************************************)
EXTENDS Follower, ManifestProofs, TLAPS

\* The memory shows the current state, id by id.
FollowInv ==
    /\ current \in Worlds
    /\ memory = [n \in AllIds |-> Shown(current, n)]

LEMMA WorldFacts ==
    ASSUME NEW v \in Worlds, NEW w \in Worlds
    PROVE  IsManifest(v, WorldObjects) /\ KindsApart(v, w)
<1>1. IsManifest(v, WorldObjects)
  BY FollowerAssumption DEF IsManifest
<1>2. KindsApart(v, w)
  <2>1. /\ Ids(v.routes) \cap Ids(w.upstreams) = {} /\ Ids(w.routes) \cap Ids(v.upstreams) = {}
        /\ Ids(v.routes) \cap Ids(v.upstreams) = {} /\ Ids(w.routes) \cap Ids(w.upstreams) = {}
    BY FollowerAssumption
  <2> QED
    BY <2>1 DEF KindsApart
<1> QED
  BY <1>1, <1>2

\* MemoryOf is what the proofs about differences call shown.
LEMMA MemoryShows ==
    ASSUME NEW w \in Worlds
    PROVE  MemoryOf(w) = [n \in AllIds |-> Shown(w, n)]
<1> DEFINE objs == w.routes \o w.upstreams
           at(n) == {i \in DOMAIN objs : objs[i].id = n}
           value(n) == IF at(n) = {} THEN NoObject
                       ELSE objs[CHOOSE i \in at(n) : \A j \in at(n) : j <= i].val
<1>1. MemoryOf(w) = [n \in AllIds |-> value(n)]
  BY DEF MemoryOf
<1>2. /\ w.routes \in Seq(WorldObjects) /\ w.upstreams \in Seq(WorldObjects)
      /\ Ids(w.routes) \cap Ids(w.upstreams) = {}
  BY FollowerAssumption
<1>3. /\ objs \in Seq(WorldObjects)
      /\ Ids(objs) = Ids(w.routes) \cup Ids(w.upstreams)
      /\ \A n \in Ids(w.upstreams) : Lookup(objs, n) = Lookup(w.upstreams, n)
      /\ \A n \in Ids(w.routes) \ Ids(w.upstreams) : Lookup(objs, n) = Lookup(w.routes, n)
  BY <1>2, ConcatLookup
<1> HIDE DEF objs
<1>4. ASSUME NEW n PROVE value(n) = Shown(w, n)
  <2>1. at(n) = {} <=> n \notin Ids(objs)
    BY DEF Ids
  <2>2. CASE n \notin Ids(objs)
    BY <1>3, <2>1, <2>2 DEF Shown
  <2>3. CASE n \in Ids(objs)
    <3>1. PICK i : IsLast(objs, i, n)
      BY <1>3, <2>3, LastExists
    <3>2. Lookup(objs, n) = objs[i]
      BY <1>3, <3>1, LookupLast
    <3>3. \A j \in at(n) : j \in Nat /\ j <= i
      BY <1>3, <3>1 DEF IsLast
    <3>4. i \in at(n)
      BY <3>1 DEF IsLast
    <3> HIDE DEF at
    <3>5. \A k \in at(n) : (\A j \in at(n) : j <= k) => k = i
      BY <3>3, <3>4
    <3>6. i = CHOOSE k \in at(n) : \A j \in at(n) : j <= k
      BY <3>3, <3>4, <3>5
    <3>7. value(n) = Lookup(objs, n).val
      BY <3>2, <3>4, <3>6
    <3> QED
      BY <1>2, <1>3, <2>3, <3>7 DEF Shown
  <2> QED
    BY <2>2, <2>3
<1> HIDE DEF value
<1> QED
  BY <1>1, <1>4

LEMMA FollowInits == FollowInit => FollowInv
<1> SUFFICES ASSUME FollowInit PROVE FollowInv
  OBVIOUS
<1>1. current = NoWorld /\ memory = [n \in AllIds |-> NoObject]
  BY DEF FollowInit
<1>2. Ids(NoWorld.routes) = {} /\ Ids(NoWorld.upstreams) = {}
  BY DEF NoWorld, Ids
<1>3. \A n : Shown(NoWorld, n) = NoObject
  BY <1>2 DEF Shown
<1> QED
  BY <1>1, <1>3, FollowerAssumption DEF FollowInv

LEMMA FollowStep == FollowInv /\ [FollowNext]_followed => FollowInv'
<1> SUFFICES ASSUME FollowInv, [FollowNext]_followed PROVE FollowInv'
  OBVIOUS
<1>1. ASSUME NEW w \in Worlds, Replace(w) PROVE FollowInv'
  <2> DEFINE evs == GenerateEvents(w, current)
  <2>1. current' = w /\ memory' = ApplyEvents(memory, evs)
    BY <1>1 DEF Replace
  <2>2. current \in Worlds /\ memory = [n \in AllIds |-> Shown(current, n)]
    BY DEF FollowInv
  <2>3. /\ IsManifest(w, WorldObjects) /\ IsManifest(current, WorldObjects)
        /\ KindsApart(w, current)
    BY <2>2, WorldFacts
  <2>4. ApplyEvents([n \in AllIds |-> Shown(current, n)], evs)
            = [n \in AllIds |-> Shown(w, n)]
    BY <2>3, DiffIsExact
  <2> HIDE DEF evs
  <2> QED
    BY <2>1, <2>2, <2>4 DEF FollowInv
<1>2. CASE UNCHANGED followed
  BY <1>2 DEF followed, FollowInv
<1> QED
  BY <1>1, <1>2 DEF FollowNext

\* Through any sequence of states of the world, of any length and with repeated ids, the
\* memory that applies the events of generateEvents shows the last one.
THEOREM MemoryAlwaysFollows == FollowSpec => []MemoryFollows
<1>1. FollowInv => MemoryFollows
  BY MemoryShows DEF FollowInv, MemoryFollows
<1> QED
  BY <1>1, FollowInits, FollowStep, PTL DEF FollowSpec
-----------------------------------------------------------------------------
(* No event is sent in vain.                                               *)

\* Each id occurs once.
Unique(s) == \A i, j \in DOMAIN s : s[i].id = s[j].id => i = j

LEMMA KeepUnique ==
    ASSUME NEW X, NEW s \in Seq(X), Unique(s), NEW set
    PROVE  Unique(Keep(s, set))
<1> DEFINE kept == Keep(s, set)
<1>1. kept \in Seq(X)
  BY KeepPicks
<1>2. PICK h : Picks(s, set, Len(s), kept, h)
  BY KeepPicks
<1> HIDE DEF kept
<1>3. DOMAIN kept = 1..Len(kept) /\ DOMAIN s = 1..Len(s) /\ Len(kept) \in Nat
  BY <1>1
<1>4. ASSUME NEW i \in DOMAIN kept, NEW j \in DOMAIN kept, kept[i].id = kept[j].id
      PROVE  i = j
  <2>1. /\ h[i] \in DOMAIN s /\ h[j] \in DOMAIN s
        /\ kept[i] = s[h[i]] /\ kept[j] = s[h[j]]
    BY <1>2, <1>3 DEF Picks
  <2>2. h[i] = h[j]
    BY <1>4, <2>1 DEF Unique
  <2>3. ~(i < j) /\ ~(j < i)
    BY <1>2, <1>3, <2>1, <2>2 DEF Picks
  <2> QED
    BY <1>3, <2>3
<1>5. Unique(kept)
  BY <1>4 DEF Unique
<1> QED
  BY <1>5 DEF kept

LEMMA ConcatUnique ==
    ASSUME NEW X, NEW s \in Seq(X), NEW t \in Seq(X), Unique(s), Unique(t),
           Ids(s) \cap Ids(t) = {}
    PROVE  Unique(s \o t)
<1> DEFINE st == s \o t
<1>1. /\ DOMAIN st = 1..(Len(s) + Len(t)) /\ DOMAIN s = 1..Len(s) /\ DOMAIN t = 1..Len(t)
      /\ Len(s) \in Nat /\ Len(t) \in Nat
      /\ \A i \in DOMAIN s : st[i] = s[i]
      /\ \A i \in DOMAIN st : i \notin DOMAIN s =>
            i - Len(s) \in DOMAIN t /\ st[i] = t[i - Len(s)]
  OBVIOUS
<1> HIDE DEF st
<1>2. /\ \A i \in DOMAIN st : i \in DOMAIN s => st[i].id \in Ids(s)
      /\ \A i \in DOMAIN st : i \notin DOMAIN s => st[i].id \in Ids(t)
  BY <1>1 DEF Ids
<1>3. ASSUME NEW i \in DOMAIN st, NEW j \in DOMAIN st, st[i].id = st[j].id
      PROVE  i = j
  <2>1. i \in DOMAIN s <=> j \in DOMAIN s
    BY <1>2, <1>3
  <2>2. CASE i \in DOMAIN s
    BY <1>1, <1>3, <2>1, <2>2 DEF Unique
  <2>3. CASE i \notin DOMAIN s
    <3>1. /\ i - Len(s) \in DOMAIN t /\ j - Len(s) \in DOMAIN t
          /\ t[i - Len(s)].id = t[j - Len(s)].id
      BY <1>1, <1>3, <2>1, <2>3
    <3>2. i - Len(s) = j - Len(s)
      BY <3>1 DEF Unique
    <3> QED
      BY <1>1, <3>2
  <2> QED
    BY <2>2, <2>3
<1>4. Unique(st)
  BY <1>3 DEF Unique
<1> QED
  BY <1>4 DEF st

\* Of a slice that repeats no id, Lookup finds the object itself.
LEMMA UniqueLookup ==
    ASSUME NEW X, NEW s \in Seq(X), Unique(s), NEW o \in ToSet(s)
    PROVE  o.id \in Ids(s) /\ Lookup(s, o.id) = o
<1>1. PICK i \in DOMAIN s : o = s[i]
  BY DEF ToSet
<1>2. \A j \in DOMAIN s : s[j].id = o.id => j <= i
  <2> TAKE j \in DOMAIN s
  <2>1. s[j].id = o.id => j = i
    BY <1>1 DEF Unique
  <2> QED
    BY <2>1
<1>3. IsLast(s, i, o.id)
  BY <1>1, <1>2 DEF IsLast
<1> QED
  BY <1>1, <1>3, LookupLast

\* A difference names each id once, and what it updates is not the same in both.
LEMMA CompareUnique ==
    ASSUME NEW X, NEW s1 \in Seq(X), NEW s2 \in Seq(X), Unique(s1), Unique(s2)
    PROVE  LET d == Compare(s1, s2)
           IN  /\ Unique(d.added) /\ Unique(d.deleted) /\ Unique(d.updated)
               /\ \A n \in Ids(d.updated) : Lookup(s1, n) # Lookup(s2, n)
<1> DEFINE new == {o \in ToSet(s2) : o.id \notin Ids(s1)}
           gone == {o \in ToSet(s1) : o.id \notin Ids(s2)}
           differ == {o \in ToSet(s1) : o.id \in Ids(s2) /\ Lookup(s2, o.id) # o}
           changed == Keep(s1, differ)
           added == Keep(s2, new)
           deleted == Keep(s1, gone)
           updated == [i \in DOMAIN changed |-> Lookup(s2, changed[i].id)]
<1>1. /\ Compare(s1, s2).added = added
      /\ Compare(s1, s2).deleted = deleted
      /\ Compare(s1, s2).updated = updated
  BY DEF Compare
<1>2. Unique(added) /\ Unique(deleted) /\ Unique(changed)
  <2> HIDE DEF new, gone, differ
  <2> QED
    BY KeepUnique
<1>3. ToSet(changed) = ToSet(s1) \cap differ
  <2> HIDE DEF differ
  <2> QED
    BY KeepSet
<1>4. \A i \in DOMAIN changed : changed[i] \in differ
  <2>1. \A i \in DOMAIN changed : changed[i] \in ToSet(changed)
    BY DEF ToSet
  <2> QED
    BY <1>3, <2>1
<1> HIDE DEF added, deleted, changed
<1>5. /\ DOMAIN updated = DOMAIN changed
      /\ \A i \in DOMAIN changed : updated[i] = Lookup(s2, changed[i].id)
  OBVIOUS
<1> HIDE DEF updated
<1>6. \A i \in DOMAIN changed : updated[i].id = changed[i].id
  <2> TAKE i \in DOMAIN changed
  <2>1. changed[i].id \in Ids(s2)
    BY <1>4
  <2> QED
    BY <1>5, <2>1, LookupFinds
<1>7. Unique(updated)
  BY <1>2, <1>5, <1>6 DEF Unique
<1>8. ASSUME NEW n \in Ids(updated) PROVE Lookup(s1, n) # Lookup(s2, n)
  <2>1. PICK i \in DOMAIN changed : n = changed[i].id
    BY <1>5, <1>6, <1>8 DEF Ids
  <2> DEFINE o == changed[i]
  <2>2. o \in ToSet(s1) /\ Lookup(s2, o.id) # o
    BY <1>4
  <2> HIDE DEF o
  <2>3. Lookup(s1, o.id) = o
    BY <2>2, UniqueLookup
  <2> QED
    BY <2>1, <2>2, <2>3 DEF o
<1> QED
  BY <1>1, <1>2, <1>7, <1>8

LEMMA EventsUnique ==
    ASSUME NEW X, NEW m, IsManifest(m, X), NEW y \in EventType, Unique(m.routes),
           Unique(m.upstreams), Ids(m.routes) \cap Ids(m.upstreams) = {}
    PROVE  /\ Events(m, y) \in Seq(EventOf(X))
           /\ Ids(Events(m, y)) = Ids(m.routes) \cup Ids(m.upstreams)
           /\ Unique(Events(m, y))
<1> DEFINE objs == m.routes \o m.upstreams
           evs == Events(m, y)
<1>1. evs \in Seq(EventOf(X)) /\ Ids(evs) = Ids(m.routes) \cup Ids(m.upstreams)
  BY EventsExact
<1>2. Unique(objs)
  BY ConcatUnique DEF IsManifest
<1>3. DOMAIN evs = DOMAIN objs /\ \A i \in DOMAIN objs : evs[i].id = objs[i].id
  BY DEF Events
<1> HIDE DEF evs, objs
<1>4. Unique(evs)
  BY <1>2, <1>3 DEF Unique
<1> QED
  BY <1>1, <1>4 DEF evs

\* The objects of the two states are records, and none is taken for a missing one.
Proper(s) == \A o \in ToSet(s) : o = [id |-> o.id, val |-> o.val] /\ o.val # NoObject

\* What Compare has to do with what the two slices hold under an id.
LEMMA CompareChanges ==
    ASSUME NEW X, NEW s1 \in Seq(X), NEW s2 \in Seq(X), Unique(s1), Unique(s2),
           Proper(s1), Proper(s2)
    PROVE  LET d == Compare(s1, s2)
           IN  /\ d.added \in Seq(X) /\ d.deleted \in Seq(X) /\ d.updated \in Seq(X)
               /\ Unique(d.added) /\ Unique(d.deleted) /\ Unique(d.updated)
               /\ \A n \in Ids(d.added) :
                    n \notin Ids(s1) /\ n \in Ids(s2) /\ Lookup(s2, n).val # NoObject
               /\ \A n \in Ids(d.deleted) :
                    n \in Ids(s1) /\ n \notin Ids(s2) /\ Lookup(s1, n).val # NoObject
               /\ \A n \in Ids(d.updated) :
                    n \in Ids(s1) /\ n \in Ids(s2) /\ Lookup(s1, n).val # Lookup(s2, n).val
<1> DEFINE d == Compare(s1, s2)
<1>1. /\ d.added \in Seq(X) /\ d.deleted \in Seq(X) /\ d.updated \in Seq(X)
      /\ Ids(d.added) = Ids(s2) \ Ids(s1)
      /\ Ids(d.deleted) = Ids(s1) \ Ids(s2)
      /\ Ids(d.updated) \subseteq Ids(s1) \cap Ids(s2)
  BY CompareExact
<1>2. /\ Unique(d.added) /\ Unique(d.deleted) /\ Unique(d.updated)
      /\ \A n \in Ids(d.updated) : Lookup(s1, n) # Lookup(s2, n)
  BY CompareUnique
<1> HIDE DEF d
<1>3. /\ \A n \in Ids(s1) : Lookup(s1, n) \in ToSet(s1) /\ Lookup(s1, n).id = n
      /\ \A n \in Ids(s2) : Lookup(s2, n) \in ToSet(s2) /\ Lookup(s2, n).id = n
  BY LookupFinds
<1>4. ASSUME NEW n \in Ids(d.updated) PROVE Lookup(s1, n).val # Lookup(s2, n).val
  <2> DEFINE a == Lookup(s1, n)
             b == Lookup(s2, n)
  <2>1. a \in ToSet(s1) /\ b \in ToSet(s2) /\ a.id = n /\ b.id = n /\ a # b
    BY <1>1, <1>2, <1>3
  <2> HIDE DEF a, b
  <2>2. a = [id |-> n, val |-> a.val] /\ b = [id |-> n, val |-> b.val]
    BY <2>1 DEF Proper
  <2>3. a.val # b.val
    BY <2>1, <2>2
  <2> QED
    BY <2>3 DEF a, b
<1>5. /\ \A n \in Ids(s1) : Lookup(s1, n).val # NoObject
      /\ \A n \in Ids(s2) : Lookup(s2, n).val # NoObject
  BY <1>3 DEF Proper
<1> QED
  BY <1>1, <1>2, <1>4, <1>5 DEF d

\* The events of a difference are about different ids, under each of which the two states
\* show something else.
LEMMA GenerateChanges ==
    ASSUME NEW X, NEW m, NEW o, IsManifest(m, X), IsManifest(o, X), KindsApart(m, o),
           Unique(m.routes), Unique(m.upstreams), Unique(o.routes), Unique(o.upstreams),
           Proper(m.routes), Proper(m.upstreams), Proper(o.routes), Proper(o.upstreams)
    PROVE  /\ GenerateEvents(m, o) \in Seq(EventOf(X))
           /\ Unique(GenerateEvents(m, o))
           /\ \A n \in Ids(GenerateEvents(m, o)) : Shown(o, n) # Shown(m, n)
<1> DEFINE r == Compare(o.routes, m.routes)
           u == Compare(o.upstreams, m.upstreams)
           A == [routes |-> r.added, upstreams |-> u.added]
           D == [routes |-> r.deleted, upstreams |-> u.deleted]
           U == [routes |-> r.updated, upstreams |-> u.updated]
           EA == Events(A, "add")
           ED == Events(D, "delete")
           EU == Events(U, "update")
           AD == EA \o ED
           evs == AD \o EU
<1>1. GenerateEvents(m, o) = evs
  BY DEF GenerateEvents, DiffFrom, CompareRoutes, CompareUpstreams
<1>2. /\ r.added \in Seq(X) /\ r.deleted \in Seq(X) /\ r.updated \in Seq(X)
      /\ Unique(r.added) /\ Unique(r.deleted) /\ Unique(r.updated)
      /\ \A n \in Ids(r.added) : /\ n \notin Ids(o.routes) /\ n \in Ids(m.routes)
                                 /\ Lookup(m.routes, n).val # NoObject
      /\ \A n \in Ids(r.deleted) : /\ n \in Ids(o.routes) /\ n \notin Ids(m.routes)
                                   /\ Lookup(o.routes, n).val # NoObject
      /\ \A n \in Ids(r.updated) : /\ n \in Ids(o.routes) /\ n \in Ids(m.routes)
                                   /\ Lookup(o.routes, n).val # Lookup(m.routes, n).val
  BY CompareChanges DEF IsManifest
<1>3. /\ u.added \in Seq(X) /\ u.deleted \in Seq(X) /\ u.updated \in Seq(X)
      /\ Unique(u.added) /\ Unique(u.deleted) /\ Unique(u.updated)
      /\ \A n \in Ids(u.added) : /\ n \notin Ids(o.upstreams) /\ n \in Ids(m.upstreams)
                                 /\ Lookup(m.upstreams, n).val # NoObject
      /\ \A n \in Ids(u.deleted) : /\ n \in Ids(o.upstreams) /\ n \notin Ids(m.upstreams)
                                   /\ Lookup(o.upstreams, n).val # NoObject
      /\ \A n \in Ids(u.updated) : /\ n \in Ids(o.upstreams) /\ n \in Ids(m.upstreams)
                                   /\ Lookup(o.upstreams, n).val # Lookup(m.upstreams, n).val
  BY CompareChanges DEF IsManifest
<1> HIDE DEF r, u
<1>4. \A n : ~((n \in Ids(m.routes) \/ n \in Ids(o.routes))
                 /\ (n \in Ids(m.upstreams) \/ n \in Ids(o.upstreams)))
  BY DEF KindsApart
<1>5. /\ Ids(r.added) \cap Ids(u.added) = {}
      /\ Ids(r.deleted) \cap Ids(u.deleted) = {}
      /\ Ids(r.updated) \cap Ids(u.updated) = {}
  BY <1>2, <1>3, <1>4
<1>6. IsManifest(A, X) /\ IsManifest(D, X) /\ IsManifest(U, X)
  BY <1>2, <1>3 DEF IsManifest
<1>7. /\ EA \in Seq(EventOf(X)) /\ Ids(EA) = Ids(r.added) \cup Ids(u.added) /\ Unique(EA)
      /\ ED \in Seq(EventOf(X)) /\ Ids(ED) = Ids(r.deleted) \cup Ids(u.deleted) /\ Unique(ED)
      /\ EU \in Seq(EventOf(X)) /\ Ids(EU) = Ids(r.updated) \cup Ids(u.updated) /\ Unique(EU)
  <2>1. /\ A.routes = r.added /\ A.upstreams = u.added
        /\ D.routes = r.deleted /\ D.upstreams = u.deleted
        /\ U.routes = r.updated /\ U.upstreams = u.updated
    OBVIOUS
  <2> HIDE DEF A, D, U
  <2>2. EA \in Seq(EventOf(X)) /\ Ids(EA) = Ids(A.routes) \cup Ids(A.upstreams) /\ Unique(EA)
    BY <1>2, <1>3, <1>5, <1>6, <2>1, EventsUnique DEF EventType
  <2>3. ED \in Seq(EventOf(X)) /\ Ids(ED) = Ids(D.routes) \cup Ids(D.upstreams) /\ Unique(ED)
    BY <1>2, <1>3, <1>5, <1>6, <2>1, EventsUnique DEF EventType
  <2>4. EU \in Seq(EventOf(X)) /\ Ids(EU) = Ids(U.routes) \cup Ids(U.upstreams) /\ Unique(EU)
    BY <1>2, <1>3, <1>5, <1>6, <2>1, EventsUnique DEF EventType
  <2> QED
    BY <2>1, <2>2, <2>3, <2>4
<1> HIDE DEF A, D, U, EA, ED, EU
<1>8. Ids(EA) \cap Ids(ED) = {} /\ (Ids(EA) \cup Ids(ED)) \cap Ids(EU) = {}
  BY <1>2, <1>3, <1>4, <1>7
<1>9. AD \in Seq(EventOf(X)) /\ Ids(AD) = Ids(EA) \cup Ids(ED) /\ Unique(AD)
  BY <1>7, <1>8, ConcatLookup, ConcatUnique
<1> HIDE DEF AD
<1>10. evs \in Seq(EventOf(X)) /\ Ids(evs) = Ids(AD) \cup Ids(EU) /\ Unique(evs)
  BY <1>7, <1>8, <1>9, ConcatLookup, ConcatUnique
<1> HIDE DEF evs
<1>11. ASSUME NEW n \in Ids(evs) PROVE Shown(o, n) # Shown(m, n)
  <2>1. CASE n \in Ids(r.added) \/ n \in Ids(r.deleted) \/ n \in Ids(r.updated)
    BY <1>2, <1>4, <2>1 DEF Shown
  <2>2. CASE n \in Ids(u.added) \/ n \in Ids(u.deleted) \/ n \in Ids(u.updated)
    BY <1>3, <1>4, <2>2 DEF Shown
  <2> QED
    BY <1>7, <1>9, <1>10, <2>1, <2>2
<1> QED
  BY <1>1, <1>10, <1>11

\* Between any two states of the world that name each id once, generateEvents makes one
\* event at most for an object, and every event changes what the memory holds.
THEOREM EventsAlwaysChange == FollowSpec => EventsChange
<1> DEFINE Change ==
             NoDuplicates(current) /\ NoDuplicates(current') =>
                LET evs == GenerateEvents(current', current)
                IN  \A i \in DOMAIN evs :
                        /\ memory[evs[i].id] # memory'[evs[i].id]
                        /\ \A j \in DOMAIN evs : evs[i].id = evs[j].id => i = j
<1>1. FollowInv /\ FollowInv' /\ [FollowNext]_followed => [Change]_followed
  <2> SUFFICES ASSUME FollowInv, FollowInv', NoDuplicates(current), NoDuplicates(current'),
                      NEW i \in DOMAIN GenerateEvents(current', current)
               PROVE  LET evs == GenerateEvents(current', current)
                      IN  /\ memory[evs[i].id] # memory'[evs[i].id]
                          /\ \A j \in DOMAIN evs : evs[i].id = evs[j].id => i = j
    OBVIOUS
  <2> DEFINE m == current'
             o == current
             evs == GenerateEvents(m, o)
             X == WorldObjects
  <2>1. /\ o \in Worlds /\ m \in Worlds
        /\ memory = [n \in AllIds |-> Shown(o, n)]
        /\ memory' = [n \in AllIds |-> Shown(m, n)]
    BY DEF FollowInv
  <2>2. /\ Unique(m.routes) /\ Unique(m.upstreams)
        /\ Unique(o.routes) /\ Unique(o.upstreams)
    BY DEF NoDuplicates, Unique
  <2>3. ASSUME NEW w \in Worlds
        PROVE  /\ ToSet(w.routes) \subseteq X /\ ToSet(w.upstreams) \subseteq X
               /\ Proper(w.routes) /\ Proper(w.upstreams)
    <3>1. ToSet(w.routes) \subseteq X /\ ToSet(w.upstreams) \subseteq X
      BY DEF WorldObjects
    <3> QED
      BY <3>1, FollowerAssumption DEF Proper
  <2>4. IsManifest(m, X) /\ IsManifest(o, X) /\ KindsApart(m, o)
    BY <2>1, WorldFacts
  <2> HIDE DEF m, o, X
  <2>5. /\ evs \in Seq(EventOf(X))
        /\ Unique(evs)
        /\ \A n \in Ids(evs) : Shown(o, n) # Shown(m, n)
    BY <2>1, <2>2, <2>3, <2>4, GenerateChanges
  <2>6. Ids(evs) \subseteq Ids(m.routes) \cup Ids(m.upstreams)
                            \cup Ids(o.routes) \cup Ids(o.upstreams)
    <3>1. Lead(evs, o, m, X)
      BY <2>4, GenerateLeads
    <3> QED
      BY <3>1 DEF Lead
  <2>7. Ids(evs) \subseteq AllIds
    BY <2>1, <2>3, <2>6, IdsToSet DEF AllIds, X
  <2>8. i \in DOMAIN evs
    BY DEF evs, m, o
  <2> HIDE DEF evs
  <2>9. evs[i].id \in Ids(evs)
    BY <2>8 DEF Ids
  <2>10. memory[evs[i].id] # memory'[evs[i].id]
    BY <2>1, <2>5, <2>7, <2>9
  <2>11. \A j \in DOMAIN evs : evs[i].id = evs[j].id => i = j
    BY <2>5, <2>8 DEF Unique
  <2> QED
    BY <2>10, <2>11 DEF evs, m, o
<1> QED
  BY <1>1, FollowInits, FollowStep, PTL DEF FollowSpec, EventsChange
=============================================================================
