----------------------------- MODULE FileProofs -----------------------------
(***************************************************************************)
(* Proofs about module FileProvisioner, for any files, any contents of any *)
(* length and any number of changes.                                       *)
(*                                                                         *)
(* What a file is parsed to is shown by induction over its resources.      *)
(* Handled says what a handled event does to the state, whatever the file  *)
(* holds; every property but the last is kept by it.  TypeInv adds to      *)
(* TypeOK the types of the states of the files.  FollowInv adds that a     *)
(* name in two files is in shared.  MatchInv says for the files that have  *)
(* changed since that the last event that waits fits what they hold.       *)
(***************************************************************************)
EXTENDS FileProvisioner, ManifestProofs, TLAPS

Name == RouteNames \cup Clusters
RouteObject == [id : RouteNames, val : [content : Nat]]
UpstreamObject == [id : Clusters, val : [nodes : Nat]]
Object == RouteObject \cup UpstreamObject
Event == EventOf(Object)
Thing == [content : Nat] \cup [nodes : Nat] \cup {NoObject}
ManifestType == [routes : Seq(RouteObject), upstreams : Seq(UpstreamObject)]
Cache == [Clusters -> [nodes : Nat] \cup {NoObject}]
-----------------------------------------------------------------------------
(* What a file is parsed to.                                               *)

\* f is the function that Parse defines, up to n resources.
ParsesUpto(c, n, f) ==
    f = [i \in 0..n |->
            IF i = 0
            THEN [rm |-> NoManifest, updated |-> <<>>, cache |-> upstreamCache]
            ELSE Process(f[i - 1], c[i])]

\* The recursion of Parse is well defined.
LEMMA ParseDef ==
    ASSUME NEW c \in Seq(Resource)
    PROVE  \E f : ParsesUpto(c, Len(c), f) /\ Parse(c) = f[Len(c)]
<1> DEFINE L == Len(c)
           acc[i \in 0..L] ==
               IF i = 0
               THEN [rm |-> NoManifest, updated |-> <<>>, cache |-> upstreamCache]
               ELSE Process(acc[i - 1], c[i])
           S == {n \in Nat : \E f : ParsesUpto(c, n, f)}
<1>1. 0 \in S
  <2> DEFINE g == [i \in 0..0 |-> [rm |-> NoManifest, updated |-> <<>>,
                                   cache |-> upstreamCache]]
  <2>1. ParsesUpto(c, 0, g)
    BY DEF ParsesUpto
  <2> QED
    BY <2>1
<1>2. ASSUME NEW n \in Nat, n \in S PROVE n + 1 \in S
  <2> PICK f : ParsesUpto(c, n, f)
    BY <1>2
  <2> DEFINE g == [i \in 0..(n + 1) |->
                      IF i <= n THEN f[i] ELSE Process(f[i - 1], c[i])]
  <2>1. ParsesUpto(c, n + 1, g)
    BY DEF ParsesUpto
  <2> HIDE DEF g
  <2> QED
    BY <2>1
<1>3. L \in S
  <2> HIDE DEF S
  <2> QED
    BY <1>1, <1>2, Induct
<1>4. PICK f : ParsesUpto(c, L, f)
  BY <1>3
<1>5. f = [i \in 0..L |->
              IF i = 0
              THEN [rm |-> NoManifest, updated |-> <<>>, cache |-> upstreamCache]
              ELSE Process(f[i - 1], c[i])]
  BY <1>4 DEF ParsesUpto
<1>6. acc = [i \in 0..L |->
                IF i = 0
                THEN [rm |-> NoManifest, updated |-> <<>>, cache |-> upstreamCache]
                ELSE Process(acc[i - 1], c[i])]
  BY <1>5
<1>7. Parse(c) = acc[L]
  BY DEF Parse
<1> HIDE DEF acc
<1>8. ParsesUpto(c, L, acc)
  BY <1>6 DEF ParsesUpto
<1> QED
  BY <1>7, <1>8

\* What is collected of a response has its type, and one upstream for each cluster and
\* one route for each route configuration so far.
Collected == [rm : ManifestType, updated : Seq(UpstreamObject), cache : Cache]

Parsed(acc, ups, rts) ==
    /\ acc \in Collected
    /\ Ids(acc.rm.upstreams) = ups
    /\ Ids(acc.rm.routes) = rts

\* An object that is appended adds its id.
LEMMA AppendIds ==
    ASSUME NEW X, NEW s \in Seq(X), NEW o \in X
    PROVE  Append(s, o) \in Seq(X) /\ Ids(Append(s, o)) = Ids(s) \cup {o.id}
<1>1. /\ Append(s, o) \in Seq(X)
      /\ DOMAIN s = 1..Len(s) /\ Len(s) \in Nat
      /\ DOMAIN Append(s, o) = 1..(Len(s) + 1)
      /\ \A i \in DOMAIN s : Append(s, o)[i] = s[i]
      /\ Append(s, o)[Len(s) + 1] = o
  OBVIOUS
<1>2. DOMAIN Append(s, o) = DOMAIN s \cup {Len(s) + 1} /\ Len(s) + 1 \notin DOMAIN s
  BY <1>1
<1> QED
  BY <1>1, <1>2 DEF Ids

\* An object that replaces the first one, of the same id, keeps the ids.
LEMMA ReplaceIds ==
    ASSUME NEW X, NEW s \in Seq(X), s # <<>>, NEW o \in X, Head(s).id = o.id
    PROVE  [s EXCEPT ![1] = o] \in Seq(X) /\ Ids([s EXCEPT ![1] = o]) = Ids(s)
<1> DEFINE t == [s EXCEPT ![1] = o]
<1>1. Len(s) \in Nat /\ DOMAIN s = 1..Len(s) /\ 1 \in DOMAIN s /\ s[1].id = o.id
      /\ \A i \in 1..Len(s) : s[i] \in X
  OBVIOUS
<1>2. DOMAIN t = 1..Len(s) /\ t[1] = o /\ \A i \in 1..Len(s) : i # 1 => t[i] = s[i]
  BY <1>1
<1>3. t = [i \in 1..Len(s) |-> t[i]]
  BY <1>1
<1> HIDE DEF t
<1>4. t \in [1..Len(s) -> X]
  BY <1>1, <1>2, <1>3
<1>5. t \in Seq(X)
  BY <1>1, <1>4
<1>6. \A i \in 1..Len(s) : t[i].id = s[i].id
  BY <1>1, <1>2
<1>7. Ids(t) = Ids(s)
  BY <1>1, <1>2, <1>6 DEF Ids
<1> QED
  BY <1>5, <1>7 DEF t

\* processRouteConfigurationV3 adds a route.
LEMMA RouteParsed ==
    ASSUME NEW acc, NEW ups, NEW rts, Parsed(acc, ups, rts),
           NEW res \in [type : {"RDS"}, name : RouteNames, value : Nat]
    PROVE  Parsed(ProcessRouteConfigurationV3(acc, res), ups, rts \cup {res.name})
<1> DEFINE o == [id |-> res.name, val |-> [content |-> res.value]]
           new == Append(acc.rm.routes, o)
<1>1. ProcessRouteConfigurationV3(acc, res) = [acc EXCEPT !.rm.routes = new]
  BY DEF ProcessRouteConfigurationV3
<1>2. o \in RouteObject /\ o.id = res.name
  BY DEF RouteObject
<1>3. new \in Seq(RouteObject) /\ Ids(new) = rts \cup {res.name}
  <2> HIDE DEF o
  <2> QED
    BY <1>2, AppendIds DEF Parsed, Collected, ManifestType
<1> HIDE DEF new
<1>4. /\ [acc EXCEPT !.rm.routes = new] \in Collected
      /\ [acc EXCEPT !.rm.routes = new].rm.routes = new
      /\ [acc EXCEPT !.rm.routes = new].rm.upstreams = acc.rm.upstreams
  BY <1>3 DEF Parsed, Collected, ManifestType
<1> QED
  BY <1>1, <1>3, <1>4 DEF Parsed

\* processClusterV3 adds an upstream.
LEMMA ClusterParsed ==
    ASSUME NEW acc, NEW ups, NEW rts, Parsed(acc, ups, rts),
           NEW res \in [type : {"CDS"}, name : Clusters, value : Nat]
    PROVE  Parsed(ProcessClusterV3(acc, res), ups \cup {res.name}, rts)
<1> DEFINE o == [id |-> res.name, val |-> [nodes |-> res.value]]
           new == Append(acc.rm.upstreams, o)
           cache == [acc.cache EXCEPT ![res.name] = [nodes |-> res.value]]
<1>1. ProcessClusterV3(acc, res) = [acc EXCEPT !.rm.upstreams = new, !.cache = cache]
  BY DEF ProcessClusterV3
<1>2. o \in UpstreamObject /\ o.id = res.name
  BY DEF UpstreamObject
<1>3. new \in Seq(UpstreamObject) /\ Ids(new) = ups \cup {res.name}
  <2> HIDE DEF o
  <2> QED
    BY <1>2, AppendIds DEF Parsed, Collected, ManifestType
<1>4. cache \in Cache
  BY DEF Parsed, Collected, Cache
<1> HIDE DEF new, cache
<1> DEFINE a == [acc EXCEPT !.rm.upstreams = new, !.cache = cache]
<1>5. a \in Collected /\ a.rm.upstreams = new /\ a.rm.routes = acc.rm.routes
  BY <1>3, <1>4 DEF Parsed, Collected, ManifestType
<1> QED
  BY <1>1, <1>3, <1>5 DEF Parsed

\* processClusterLoadAssignmentV3 adds no name.
LEMMA AssignmentParsed ==
    ASSUME NEW acc, NEW ups, NEW rts, Parsed(acc, ups, rts),
           NEW res \in [type : {"EDS"}, name : Clusters, value : Nat]
    PROVE  Parsed(ProcessClusterLoadAssignmentV3(acc, res), ups, rts)
<1> DEFINE o == [id |-> res.name, val |-> [nodes |-> res.value]]
           merged == acc.rm.upstreams # <<>> /\ Head(acc.rm.upstreams).id = res.name
           P == ProcessClusterLoadAssignmentV3(acc, res)
           first == [acc.rm.upstreams EXCEPT ![1] = o]
           new == Append(acc.updated, o)
           cache == [acc.cache EXCEPT ![res.name] = [nodes |-> res.value]]
<1>1. \/ P = acc
      \/ merged /\ P = [acc EXCEPT !.rm.upstreams = first, !.cache = cache]
      \/ P = [acc EXCEPT !.updated = new, !.cache = cache]
  BY DEF ProcessClusterLoadAssignmentV3
<1>2. o \in UpstreamObject /\ o.id = res.name
  BY DEF UpstreamObject
<1>3. cache \in Cache
  BY DEF Parsed, Collected, Cache
<1>4. new \in Seq(UpstreamObject)
  <2> HIDE DEF o
  <2> QED
    BY <1>2 DEF Parsed, Collected
<1>5. merged => first \in Seq(UpstreamObject) /\ Ids(first) = ups
  <2> HIDE DEF o
  <2> QED
    BY <1>2, ReplaceIds DEF Parsed, Collected, ManifestType
<1> HIDE DEF first, new, cache, P
<1>6. CASE merged /\ P = [acc EXCEPT !.rm.upstreams = first, !.cache = cache]
  <2> DEFINE a == [acc EXCEPT !.rm.upstreams = first, !.cache = cache]
  <2>1. a \in Collected /\ a.rm.upstreams = first /\ a.rm.routes = acc.rm.routes
    BY <1>3, <1>5, <1>6 DEF Parsed, Collected, ManifestType
  <2> QED
    BY <1>5, <1>6, <2>1 DEF Parsed, P
<1>7. CASE P = [acc EXCEPT !.updated = new, !.cache = cache]
  <2> DEFINE a == [acc EXCEPT !.updated = new, !.cache = cache]
  <2>1. a \in Collected /\ a.rm = acc.rm
    BY <1>3, <1>4 DEF Parsed, Collected
  <2> QED
    BY <1>7, <2>1 DEF Parsed, P
<1> QED
  BY <1>1, <1>6, <1>7 DEF P

\* The names of the resources of a type, among the first n of them.
NamesUpto(c, n, type) == {c[i].name : i \in {j \in 1..n : c[j].type = type}}

\* What Process makes of the next resource.
LEMMA ProcessParsed ==
    ASSUME NEW c \in Seq(Resource), NEW n \in Nat, n + 1 \in 1..Len(c), NEW acc,
           Parsed(acc, NamesUpto(c, n, "CDS"), NamesUpto(c, n, "RDS"))
    PROVE  Parsed(Process(acc, c[n + 1]), NamesUpto(c, n + 1, "CDS"),
                  NamesUpto(c, n + 1, "RDS"))
<1> DEFINE res == c[n + 1]
<1>1. res \in Resource
  OBVIOUS
<1>2. ASSUME NEW t
      PROVE  NamesUpto(c, n + 1, t) =
               IF res.type = t THEN NamesUpto(c, n, t) \cup {res.name}
               ELSE NamesUpto(c, n, t)
  <2>1. 1..(n + 1) = 1..n \cup {n + 1}
    OBVIOUS
  <2> QED
    BY <2>1 DEF NamesUpto
<1> HIDE DEF res
<1>3. CASE res \in [type : {"RDS"}, name : RouteNames, value : Nat]
  <2>1. res.type = "RDS" /\ Process(acc, res) = ProcessRouteConfigurationV3(acc, res)
    BY <1>3 DEF Process
  <2>2. Parsed(Process(acc, res), NamesUpto(c, n, "CDS"),
               NamesUpto(c, n, "RDS") \cup {res.name})
    BY <1>3, <2>1, RouteParsed
  <2> QED
    BY <1>2, <2>1, <2>2 DEF res
<1>4. CASE res \in [type : {"CDS"}, name : Clusters, value : Nat]
  <2>1. res.type = "CDS" /\ Process(acc, res) = ProcessClusterV3(acc, res)
    BY <1>4 DEF Process
  <2>2. Parsed(Process(acc, res), NamesUpto(c, n, "CDS") \cup {res.name},
               NamesUpto(c, n, "RDS"))
    BY <1>4, <2>1, ClusterParsed
  <2> QED
    BY <1>2, <2>1, <2>2 DEF res
<1>5. CASE res \in [type : {"EDS"}, name : Clusters, value : Nat]
  <2>1. res.type = "EDS" /\ Process(acc, res) = ProcessClusterLoadAssignmentV3(acc, res)
    BY <1>5 DEF Process
  <2>2. Parsed(Process(acc, res), NamesUpto(c, n, "CDS"),
               NamesUpto(c, n, "RDS"))
    BY <1>5, <2>1, AssignmentParsed
  <2>3. /\ NamesUpto(c, n + 1, "CDS") = NamesUpto(c, n, "CDS")
        /\ NamesUpto(c, n + 1, "RDS") = NamesUpto(c, n, "RDS")
    BY <1>2, <2>1
  <2> QED
    BY <2>2, <2>3 DEF res
<1>6. CASE res \in [type : {"bad"}]
  <2>1. res.type = "bad" /\ Process(acc, res) = acc
    BY <1>6 DEF Process
  <2> QED
    BY <1>2, <2>1 DEF res
<1> QED
  BY <1>1, <1>3, <1>4, <1>5, <1>6 DEF Resource

\* A file is parsed to the routes of its route configurations and the upstreams of its
\* clusters, whatever else it holds.
LEMMA ParseExact ==
    ASSUME NEW c \in Seq(Resource), upstreamCache \in Cache
    PROVE  Parsed(Parse(c), NamesIn(c, "CDS"), NamesIn(c, "RDS"))
<1> DEFINE L == Len(c)
           Good(a, n) == Parsed(a, NamesUpto(c, n, "CDS"), NamesUpto(c, n, "RDS"))
<1>1. PICK f : ParsesUpto(c, L, f) /\ Parse(c) = f[L]
  BY ParseDef
<1> DEFINE S == {n \in Nat : n <= L => Good(f[n], n)}
<1>2. 0 \in S
  <2> DEFINE a == [rm |-> NoManifest, updated |-> <<>>, cache |-> upstreamCache]
  <2>1. f[0] = a
    BY <1>1 DEF ParsesUpto
  <2>2. NamesUpto(c, 0, "CDS") = {} /\ NamesUpto(c, 0, "RDS") = {}
    BY DEF NamesUpto
  <2>3. Ids(<<>>) = {}
    BY DEF Ids
  <2>4. <<>> \in Seq(UpstreamObject) /\ <<>> \in Seq(RouteObject)
    OBVIOUS
  <2>5. Parsed(a, {}, {})
    BY <2>3, <2>4 DEF Parsed, Collected, ManifestType, NoManifest
  <2> QED
    BY <2>1, <2>2, <2>5
<1>3. ASSUME NEW n \in Nat, n \in S PROVE n + 1 \in S
  <2> SUFFICES ASSUME n + 1 <= L PROVE Good(f[n + 1], n + 1)
    OBVIOUS
  <2>1. n + 1 \in 1..L /\ n <= L /\ L \in Nat
    OBVIOUS
  <2>2. f[n + 1] = Process(f[n], c[n + 1])
    BY <1>1, <2>1 DEF ParsesUpto
  <2>3. Good(f[n], n)
    BY <1>3, <2>1
  <2> QED
    BY <2>1, <2>2, <2>3, ProcessParsed
<1>4. L \in S
  <2> HIDE DEF S
  <2> QED
    BY <1>2, <1>3, Induct
<1>5. Good(f[L], L)
  BY <1>4
<1>6. \A t : NamesUpto(c, L, t) = NamesIn(c, t)
  BY DEF NamesUpto, NamesIn
<1> QED
  BY <1>1, <1>5, <1>6
-----------------------------------------------------------------------------
(* Types.                                                                  *)

WatchEvent == [file : Files, op : {"create", "write", "remove", "rename"}]

BatchOK(b, n) == b.num \in 1..n /\ b.evs # <<>>

\* The types of the state of the provisioner.
StateType ==
    /\ state \in [Files -> ManifestType]
    /\ upstreamCache \in Cache
    /\ updatedFromEDS \in [Files -> Seq(UpstreamObject)]
    /\ made \in Nat
    /\ \A b \in batches : BatchOK(b, made)
    /\ emitted \in [Name -> Thing]
    /\ shared \in SUBSET Name

\* The types of the files and of what Run is at.
FileType ==
    /\ content \in [Files -> Contents \cup {Missing, Garbage}]
    /\ run \in {"list", "read", "select", "closed", "panic"}
    /\ todo \in SUBSET Files
    /\ notified \in Seq(WatchEvent)
    /\ changes \in 0..MaxChanges
    /\ missed \in SUBSET Files

TypeInv == FileType /\ StateType

\* The ids of a slice of objects.
LEMMA IdsTyped ==
    ASSUME NEW D, NEW V, NEW s \in Seq([id : D, val : V])
    PROVE  /\ Ids(s) \subseteq D
           /\ \A n \in Ids(s) : Lookup(s, n) \in [id : D, val : V] /\ Lookup(s, n).id = n
           /\ \A n \in Ids(s) : Lookup(s, n).val \in V /\ Lookup(s, n) \in ToSet(s)
<1> DEFINE X == [id : D, val : V]
<1>1. \A i \in DOMAIN s : s[i] \in X
  <2>1. s \in Seq(X)
    OBVIOUS
  <2> HIDE DEF X
  <2> QED
    BY <2>1
<1>2. Ids(s) \subseteq D
  BY <1>1 DEF Ids
<1>3. \A n \in Ids(s) : Lookup(s, n) \in ToSet(s) /\ Lookup(s, n).id = n
  BY LookupFinds
<1>4. ToSet(s) \subseteq [id : D, val : V]
  BY <1>1 DEF ToSet
<1> QED
  BY <1>2, <1>3, <1>4

\* The names of a manifest.
LEMMA NamedTyped ==
    ASSUME NEW m \in ManifestType
    PROVE  /\ Ids(m.routes) \subseteq RouteNames
           /\ Ids(m.upstreams) \subseteq Clusters
           /\ Named(m) \subseteq Name
<1>1. m.routes \in Seq(RouteObject) /\ m.upstreams \in Seq(UpstreamObject)
  BY DEF ManifestType
<1> QED
  BY <1>1, IdsTyped DEF RouteObject, UpstreamObject, Named, Name

LEMMA TypeInvTypes == TypeInv => TypeOK
<1> SUFFICES ASSUME TypeInv PROVE TypeOK
  OBVIOUS
<1>1. ASSUME NEW f \in Files
      PROVE  /\ Ids(state[f].routes) \subseteq RouteNames
             /\ Ids(state[f].upstreams) \subseteq Clusters
             /\ Ids(updatedFromEDS[f]) \subseteq Clusters
  <2>1. state[f] \in ManifestType /\ updatedFromEDS[f] \in Seq(UpstreamObject)
    BY DEF TypeInv, StateType
  <2> QED
    BY <2>1, NamedTyped, IdsTyped DEF UpstreamObject
<1> QED
  BY <1>1 DEF TypeInv, StateType, FileType, TypeOK, WatchEvent, BatchOK, Cache, Name, Thing

LEMMA NoManifestTyped ==
    NoManifest \in ManifestType /\ Ids(NoManifest.routes) = {} /\ Ids(NoManifest.upstreams) = {}
<1>1. <<>> \in Seq(UpstreamObject) /\ <<>> \in Seq(RouteObject)
  OBVIOUS
<1> QED
  BY <1>1 DEF NoManifest, ManifestType, Ids

LEMMA TypeInit == Init => TypeInv
<1> SUFFICES ASSUME Init PROVE TypeInv
  OBVIOUS
<1>1. FileType
  BY FileAssumption DEF Init, FileType
<1>2. \A f \in Files : <<>> \in Seq(UpstreamObject)
  OBVIOUS
<1>3. updatedFromEDS \in [Files -> Seq(UpstreamObject)]
  BY <1>2 DEF Init
<1>4. StateType
  BY <1>3, NoManifestTyped DEF Init, StateType, Cache, Thing, Name
<1> QED
  BY <1>1, <1>4 DEF TypeInv
-----------------------------------------------------------------------------
(* What handling an event does.                                            *)

\* What a batch of events makes of a memory.
LEMMA ApplyTyped ==
    ASSUME NEW mem \in [Name -> Thing], NEW evs \in Seq(Event)
    PROVE  /\ ApplyEvents(mem, evs) \in [Name -> Thing]
           /\ \A n \in Name : ApplyEvents(mem, evs)[n] =
                IF n \in Ids(evs) THEN Outcome(Lookup(evs, n)) ELSE mem[n]
<1>1. mem = [n \in Name |-> mem[n]]
  OBVIOUS
<1>2. ApplyEvents(mem, evs) =
        [n \in Name |-> IF n \in Ids(evs) THEN Outcome(Lookup(evs, n)) ELSE mem[n]]
  BY <1>1, ApplyExact
<1>3. ASSUME NEW ev \in Event PROVE Outcome(ev) \in Thing
  BY <1>3 DEF Event, EventOf, EventType, Object, RouteObject, UpstreamObject, Outcome, Thing
<1>4. \A n \in Ids(evs) : Lookup(evs, n) \in Event
  BY LookupFinds
<1> QED
  BY <1>2, <1>3, <1>4

\* The update events of a slice of upstreams.
LEMMA UpdatesExact ==
    ASSUME NEW s \in Seq(UpstreamObject)
    PROVE  /\ Updates(s) \in Seq(Event)
           /\ Ids(Updates(s)) = Ids(s)
           /\ \A n \in Ids(s) : Outcome(Lookup(Updates(s), n)) = Lookup(s, n).val
<1> DEFINE u == Updates(s)
<1>1. /\ Len(s) \in Nat /\ DOMAIN s = 1..Len(s)
      /\ \A i \in 1..Len(s) : s[i] \in UpstreamObject
  OBVIOUS
<1>2. /\ DOMAIN u = 1..Len(s)
      /\ u = [i \in 1..Len(s) |-> u[i]]
      /\ \A i \in 1..Len(s) : u[i] = [type |-> "update", id |-> s[i].id, val |-> s[i].val]
  BY <1>1 DEF Updates
<1>3. \A i \in 1..Len(s) : u[i].id = s[i].id /\ u[i].val = s[i].val /\ u[i].type = "update"
  BY <1>2
<1>4. \A i \in 1..Len(s) : u[i] \in Event
  <2>1. \A i \in 1..Len(s) : s[i] \in Object
    BY <1>1 DEF Object
  <2> QED
    BY <1>2, <2>1 DEF Event, EventOf, EventType
<1> HIDE DEF u
<1>5. u \in [1..Len(s) -> Event]
  BY <1>2, <1>4
<1>6. u \in Seq(Event)
  BY <1>1, <1>5
<1>7. Ids(u) = Ids(s)
  BY <1>1, <1>2, <1>3 DEF Ids
<1>8. ASSUME NEW n \in Ids(s) PROVE Outcome(Lookup(u, n)) = Lookup(s, n).val
  <2>1. PICK i : IsLast(s, i, n)
    BY LastExists
  <2>2. i \in 1..Len(s) /\ IsLast(u, i, n)
    BY <1>1, <1>2, <1>3, <2>1 DEF IsLast
  <2>3. Lookup(s, n) = s[i] /\ Lookup(u, n) = u[i]
    BY <1>6, <2>1, <2>2, LookupLast
  <2> QED
    BY <1>3, <2>2, <2>3 DEF Outcome
<1> QED
  BY <1>6, <1>7, <1>8 DEF u

\* The manifest of a file becomes rm, and the batch that is made of it has the events of
\* the difference, which are about the names in ids, and then updates with upd.
Effect(f, rm, upd, ids) ==
    /\ state' = [state EXCEPT ![f] = rm]
    /\ made' \in Nat
    /\ \A b \in batches' : BatchOK(b, made')
    /\ shared' \in SUBSET Name
    /\ shared \subseteq shared'
    /\ \A g \in Files \ {f} : Named(rm) \cap Named(state[g]) \subseteq shared'
    /\ emitted' \in [Name -> Thing]
    /\ ids \subseteq Named(rm) \cup Named(state[f])
    /\ \A n \in Name : emitted'[n] = IF n \in Ids(upd) THEN Lookup(upd, n).val
                                     ELSE IF n \in ids THEN Shown(rm, n) ELSE emitted[n]
    /\ \A n \in Name \ ids : Shown(rm, n) = Shown(state[f], n)
    /\ \A x \in ToSet(state[f].upstreams) : x.id \notin ids => x \in ToSet(rm.upstreams)

LEMMA SendsEffect ==
    ASSUME StateType, NEW f \in Files, NEW rm \in ManifestType,
           NEW upd \in Seq(UpstreamObject),
           Emit(GenerateEvents(rm, state[f]) \o Updates(upd)), SetState(f, rm)
    PROVE  Effect(f, rm, upd, Ids(GenerateEvents(rm, state[f])))
<1> DEFINE o == state[f]
           evs == GenerateEvents(rm, o)
           all == evs \o Updates(upd)
<1>1. o \in ManifestType
  BY DEF StateType
<1>2. IsManifest(rm, Object) /\ IsManifest(o, Object)
  <2>1. ASSUME NEW m \in ManifestType PROVE IsManifest(m, Object)
    <3>1. m.routes \in Seq(RouteObject) /\ m.upstreams \in Seq(UpstreamObject)
      BY DEF ManifestType
    <3>2. RouteObject \subseteq Object /\ UpstreamObject \subseteq Object
      BY DEF Object
    <3> QED
      BY <3>1, <3>2, SeqLarger DEF IsManifest
  <2> QED
    BY <1>1, <2>1
<1>3. KindsApart(rm, o)
  BY <1>1, NamedTyped, FileAssumption DEF KindsApart
<1>4. Lead(evs, o, rm, Object)
  BY <1>2, <1>3, GenerateLeads
<1>5. /\ evs \in Seq(Event)
      /\ Ids(evs) \subseteq Named(rm) \cup Named(o)
      /\ \A n \in Ids(evs) : Outcome(Lookup(evs, n)) = Shown(rm, n)
      /\ \A n : n \notin Ids(evs) => Shown(rm, n) = Shown(o, n)
      /\ \A x \in ToSet(o.upstreams) : x.id \notin Ids(evs) => x \in ToSet(rm.upstreams)
  BY <1>4 DEF Lead, Named, Event
<1> HIDE DEF evs
<1>6. /\ Updates(upd) \in Seq(Event)
      /\ Ids(Updates(upd)) = Ids(upd)
      /\ \A n \in Ids(upd) : Outcome(Lookup(Updates(upd), n)) = Lookup(upd, n).val
  BY UpdatesExact
<1>7. /\ all \in Seq(Event)
      /\ Ids(all) = Ids(evs) \cup Ids(upd)
      /\ \A n \in Ids(upd) : Lookup(all, n) = Lookup(Updates(upd), n)
      /\ \A n \in Ids(evs) \ Ids(upd) : Lookup(all, n) = Lookup(evs, n)
  <2>1. /\ all \in Seq(Event)
        /\ Ids(all) = Ids(evs) \cup Ids(Updates(upd))
        /\ \A n \in Ids(Updates(upd)) : Lookup(all, n) = Lookup(Updates(upd), n)
        /\ \A n \in Ids(evs) \ Ids(Updates(upd)) : Lookup(all, n) = Lookup(evs, n)
    BY <1>5, <1>6, ConcatLookup
  <2> QED
    BY <1>6, <2>1
<1>8. emitted' = ApplyEvents(emitted, all)
  BY DEF Emit, evs
<1>9. Emit(all)
  BY DEF evs
<1> HIDE DEF all
<1>10. /\ emitted' \in [Name -> Thing]
       /\ \A n \in Name : emitted'[n] =
            IF n \in Ids(all) THEN Outcome(Lookup(all, n)) ELSE emitted[n]
  BY <1>7, <1>8, ApplyTyped DEF StateType
<1>11. \A n \in Name : emitted'[n] = IF n \in Ids(upd) THEN Lookup(upd, n).val
                                     ELSE IF n \in Ids(evs) THEN Shown(rm, n)
                                     ELSE emitted[n]
  BY <1>5, <1>6, <1>7, <1>10
<1>12. made' \in Nat /\ \A b \in batches' : BatchOK(b, made')
  <2>1. CASE all = <<>>
    BY <1>9, <2>1 DEF Emit, StateType
  <2>2. CASE all # <<>>
    <3>1. made' = made + 1 /\ batches' = batches \cup {[num |-> made + 1, evs |-> all]}
      BY <1>9, <2>2 DEF Emit
    <3>2. \A b \in batches : BatchOK(b, made + 1)
      BY DEF StateType, BatchOK
    <3>3. BatchOK([num |-> made + 1, evs |-> all], made + 1)
      BY <2>2 DEF BatchOK, StateType
    <3> QED
      BY <3>1, <3>2, <3>3 DEF StateType
  <2> QED
    BY <2>1, <2>2
<1>13. /\ shared' \in SUBSET Name
       /\ shared \subseteq shared'
       /\ \A g \in Files \ {f} : Named(rm) \cap Named(state[g]) \subseteq shared'
  <2>1. shared' = shared \cup UNION {Named(rm) \cap Named(state[g]) : g \in Files \ {f}}
    BY DEF SetState
  <2>2. Named(rm) \subseteq Name
    BY NamedTyped
  <2> QED
    BY <2>1, <2>2 DEF StateType
<1>14. state' = [state EXCEPT ![f] = rm]
  BY DEF SetState
<1> QED
  BY <1>5, <1>10, <1>11, <1>12, <1>13, <1>14 DEF Effect, evs

\* What a step of HandleWrite or HandleRemove makes of the state: load assignments are
\* remembered, or those of the file are taken back.
Handled(f, rm, upd) ==
    /\ rm \in ManifestType
    /\ upd \in Seq(UpstreamObject)
    /\ Effect(f, rm, upd, Ids(GenerateEvents(rm, state[f])))
    /\ upstreamCache' \in Cache
    /\ updatedFromEDS' \in [Files -> Seq(UpstreamObject)]
    /\ \A g \in Files \ {f} : updatedFromEDS'[g] = updatedFromEDS[g]
    /\ \/ ToSet(updatedFromEDS[f]) \cup ToSet(upd) \subseteq ToSet(updatedFromEDS'[f])
       \/ /\ Ids(upd) = Ids(updatedFromEDS[f])
          /\ \A n \in Ids(upd) : Lookup(upd, n).val = [nodes |-> 0]

\* What a file holds is a response, or it is missing or garbage.
LEMMA ContentsApart ==
    /\ Missing # Garbage
    /\ \A c \in Contents : c \in Seq(Resource) /\ c # Missing /\ c # Garbage
<1>1. Missing[1].type = "missing" /\ Garbage[1].type = "garbage"
  BY DEF Missing, Garbage
<1>2. ASSUME NEW c \in Contents PROVE c \in Seq(Resource) /\ c # Missing /\ c # Garbage
  <2>1. c \in Seq(Resource)
    BY FileAssumption
  <2>2. ASSUME c = Missing \/ c = Garbage PROVE FALSE
    <3>1. Len(c) = 1
      BY <2>2 DEF Missing, Garbage
    <3>2. c[1] \in Resource
      BY <2>1, <3>1
    <3>3. c[1].type \in {"RDS", "CDS", "EDS", "bad"}
      BY <3>2 DEF Resource
    <3> QED
      BY <1>1, <2>2, <3>3
  <2> QED
    BY <2>1, <2>2
<1> QED
  BY <1>1, <1>2

\* A file that is written.
LEMMA WriteHandled ==
    ASSUME TypeInv, NEW f \in Files, HandleWrite(f)
    PROVE  \/ content[f] \in {Missing, Garbage} /\ UNCHANGED stateVars
           \/ /\ content[f] \notin {Missing, Garbage}
              /\ \E rm, upd : /\ Handled(f, rm, upd)
                              /\ Ids(rm.upstreams) = NamesIn(content[f], "CDS")
                              /\ Ids(rm.routes) = NamesIn(content[f], "RDS")
<1> SUFFICES ASSUME ~(content[f] \in {Missing, Garbage} /\ UNCHANGED stateVars)
             PROVE  /\ content[f] \notin {Missing, Garbage}
                    /\ \E rm, upd : /\ Handled(f, rm, upd)
                                    /\ Ids(rm.upstreams) = NamesIn(content[f], "CDS")
                                    /\ Ids(rm.routes) = NamesIn(content[f], "RDS")
  OBVIOUS
<1> DEFINE p == Parse(content[f])
<1>1. /\ content[f] \notin {Missing, Garbage}
      /\ Emit(GenerateEvents(p.rm, state[f]) \o Updates(p.updated))
      /\ SetState(f, p.rm)
      /\ upstreamCache' = p.cache
      /\ updatedFromEDS' = [updatedFromEDS EXCEPT ![f] = @ \o p.updated]
  BY DEF HandleWrite
<1>2. content[f] \in Seq(Resource)
  BY <1>1, ContentsApart DEF TypeInv, FileType
<1>3. Parsed(p, NamesIn(content[f], "CDS"), NamesIn(content[f], "RDS"))
  BY <1>2, ParseExact DEF TypeInv, StateType
<1> HIDE DEF p
<1>4. p.rm \in ManifestType /\ p.updated \in Seq(UpstreamObject) /\ p.cache \in Cache
  BY <1>3 DEF Parsed, Collected
<1>5. Effect(f, p.rm, p.updated, Ids(GenerateEvents(p.rm, state[f])))
  BY <1>1, <1>4, SendsEffect DEF TypeInv
<1> DEFINE u == updatedFromEDS[f]
           v == p.updated
<1>6. u \in Seq(UpstreamObject) /\ v \in Seq(UpstreamObject)
  BY <1>4 DEF TypeInv, StateType
<1>7. u \o v \in Seq(UpstreamObject) /\ ToSet(u) \cup ToSet(v) \subseteq ToSet(u \o v)
  <2> HIDE DEF u, v
  <2>1. /\ u \o v \in Seq(UpstreamObject)
        /\ DOMAIN u = 1..Len(u) /\ DOMAIN v = 1..Len(v)
        /\ Len(u) \in Nat /\ Len(v) \in Nat
        /\ DOMAIN (u \o v) = 1..(Len(u) + Len(v))
        /\ \A i \in DOMAIN u : (u \o v)[i] = u[i]
        /\ \A i \in DOMAIN v : (u \o v)[Len(u) + i] = v[i]
    BY <1>6
  <2>2. \A i \in DOMAIN u : i \in DOMAIN (u \o v)
    BY <2>1
  <2>3. \A i \in DOMAIN v : Len(u) + i \in DOMAIN (u \o v)
    BY <2>1
  <2> HIDE DEF u, v
  <2>4. ToSet(u) \subseteq ToSet(u \o v)
    BY <2>1, <2>2 DEF ToSet
  <2>5. ToSet(v) \subseteq ToSet(u \o v)
    BY <2>1, <2>3 DEF ToSet
  <2> QED
    BY <2>1, <2>4, <2>5
<1>8. /\ updatedFromEDS' \in [Files -> Seq(UpstreamObject)]
      /\ updatedFromEDS'[f] = u \o v
      /\ \A g \in Files \ {f} : updatedFromEDS'[g] = updatedFromEDS[g]
  BY <1>1, <1>7 DEF TypeInv, StateType
<1>9. Handled(f, p.rm, p.updated)
  BY <1>1, <1>4, <1>5, <1>7, <1>8 DEF Handled
<1> QED
  BY <1>1, <1>3, <1>9 DEF Parsed

\* A file that is removed.
LEMMA RemoveHandled ==
    ASSUME TypeInv, NEW f \in Files, HandleRemove(f)
    PROVE  \E upd : Handled(f, NoManifest, upd)
<1> DEFINE u == updatedFromEDS[f]
           reset == [i \in DOMAIN u |-> [id |-> u[i].id, val |-> [nodes |-> 0]]]
<1>1. /\ Emit(GenerateEvents(NoManifest, state[f]) \o Updates(reset))
      /\ SetState(f, NoManifest)
      /\ updatedFromEDS' = [updatedFromEDS EXCEPT ![f] = <<>>]
      /\ UNCHANGED upstreamCache
  BY DEF HandleRemove
<1>2. u \in Seq(UpstreamObject)
  BY DEF TypeInv, StateType
<1>3. Len(u) \in Nat /\ DOMAIN u = 1..Len(u) /\ \A i \in 1..Len(u) : u[i] \in UpstreamObject
  <2> HIDE DEF u
  <2> QED
    BY <1>2
<1> HIDE DEF u
<1>4. /\ DOMAIN reset = 1..Len(u)
      /\ reset = [i \in 1..Len(u) |-> reset[i]]
      /\ \A i \in 1..Len(u) : /\ reset[i] \in UpstreamObject
                              /\ reset[i].id = u[i].id
                              /\ reset[i].val = [nodes |-> 0]
  BY <1>3 DEF UpstreamObject
<1> HIDE DEF reset
<1>5. reset \in [1..Len(u) -> UpstreamObject]
  BY <1>4
<1>6. reset \in Seq(UpstreamObject)
  BY <1>3, <1>5
<1>7. Ids(reset) = Ids(u)
  BY <1>3, <1>4 DEF Ids
<1>8. \A n \in Ids(reset) : Lookup(reset, n).val = [nodes |-> 0]
  <2>1. \A n \in Ids(reset) : Lookup(reset, n) \in ToSet(reset)
    BY <1>6, LookupFinds
  <2> QED
    BY <1>4, <2>1 DEF ToSet
<1>9. Effect(f, NoManifest, reset, Ids(GenerateEvents(NoManifest, state[f])))
  BY <1>1, <1>6, NoManifestTyped, SendsEffect DEF TypeInv
<1>10. <<>> \in Seq(UpstreamObject)
  OBVIOUS
<1>11. /\ updatedFromEDS' \in [Files -> Seq(UpstreamObject)]
       /\ \A g \in Files \ {f} : updatedFromEDS'[g] = updatedFromEDS[g]
  BY <1>1, <1>10 DEF TypeInv, StateType
<1>12. upstreamCache' \in Cache
  BY <1>1 DEF TypeInv, StateType
<1>13. Handled(f, NoManifest, reset)
  BY <1>6, <1>7, <1>8, <1>9, <1>11, <1>12, NoManifestTyped DEF Handled, u
<1> QED
  BY <1>13

\* The handled event keeps the types of the state.
LEMMA HandledTyped ==
    ASSUME StateType, NEW f \in Files, NEW rm, NEW upd, Handled(f, rm, upd)
    PROVE  StateType'
BY DEF StateType, Handled, Effect

\* The state of the provisioner changes as an event is handled, or a batch is taken.
LEMMA StateSteps ==
    ASSUME TypeInv, [Next]_vars
    PROVE  \/ UNCHANGED <<state, upstreamCache, updatedFromEDS, made, emitted, shared>>
                /\ batches' \subseteq batches
           \/ \E f \in Files : \E rm, upd : Handled(f, rm, upd)
<1>1. ASSUME NEW f \in Files, HandleWrite(f)
      PROVE  UNCHANGED stateVars \/ \E rm, upd : Handled(f, rm, upd)
  BY <1>1, WriteHandled
<1>2. ASSUME ReadFile
      PROVE  UNCHANGED stateVars \/ \E f \in Files : \E rm, upd : Handled(f, rm, upd)
  <2>1. \E f \in Files : HandleWrite(f)
    BY <1>2 DEF ReadFile, TypeInv, FileType
  <2> QED
    BY <1>1, <2>1
<1>3. ASSUME HandleFileEvent
      PROVE  UNCHANGED stateVars \/ \E f \in Files : \E rm, upd : Handled(f, rm, upd)
  <2>1. Head(notified) \in WatchEvent
    BY <1>3 DEF HandleFileEvent, TypeInv, FileType
  <2>2. Head(notified).file \in Files
    BY <2>1 DEF WatchEvent
  <2>3. \/ HandleWrite(Head(notified).file)
        \/ HandleRemove(Head(notified).file)
        \/ UNCHANGED stateVars
    BY <1>3 DEF HandleFileEvent
  <2> QED
    BY <1>1, <2>2, <2>3, RemoveHandled
<1>4. ASSUME \/ \E f \in Files : WriteFile(f) \/ RemoveFile(f)
             \/ \E f, g \in Files : MoveFile(f, g)
             \/ ListFiles \/ AddWatch \/ StartFails \/ RunStop \/ PanicOnClosed
             \/ UNCHANGED vars
      PROVE  UNCHANGED stateVars
  BY <1>4 DEF WriteFile, RemoveFile, MoveFile, Change, ListFiles, AddWatch, StartFails,
              RunStop, PanicOnClosed, vars
<1>5. ASSUME TakeBatch
      PROVE  /\ UNCHANGED <<state, upstreamCache, updatedFromEDS, made, emitted, shared>>
             /\ batches' \subseteq batches
  BY <1>5 DEF TakeBatch
<1> QED
  BY <1>2, <1>3, <1>4, <1>5 DEF Next, stateVars

\* The files and Run keep their types.
LEMMA FileTypeStep == TypeInv /\ [Next]_vars => FileType'
<1> SUFFICES ASSUME TypeInv, [Next]_vars PROVE FileType'
  OBVIOUS
<1> USE DEF TypeInv, FileType
<1>1. ASSUME NEW evs \in Seq(WatchEvent), NEW lost \in SUBSET Files, Change(evs, lost),
             content' \in [Files -> Contents \cup {Missing, Garbage}]
      PROVE  FileType'
  <2>1. notified' \in Seq(WatchEvent)
    <3>1. notified' = notified \/ notified' = notified \o evs
      BY <1>1 DEF Change
    <3>2. notified \in Seq(WatchEvent) /\ evs \in Seq(WatchEvent)
      BY <1>1
    <3> DEFINE s == notified
    <3>3. s \o evs \in Seq(WatchEvent)
      <4> HIDE DEF s, TypeInv, FileType
      <4> QED
        BY <3>2, ConcatProperties DEF s
    <3> QED
      BY <3>1, <3>2, <3>3
  <2>2. changes' \in 0..MaxChanges
    BY <1>1, FileAssumption DEF Change
  <2>3. missed' \in SUBSET Files
    <3> DEFINE touched == {evs[i].file : i \in DOMAIN evs}
    <3>1. \A i \in DOMAIN evs : evs[i] \in WatchEvent
      BY <1>1
    <3>2. touched \subseteq Files
      BY <3>1 DEF WatchEvent
    <3>3. missed' = (missed \ touched) \cup lost \cup {f \in touched : ~Known(f)}
      BY <1>1 DEF Change
    <3> QED
      BY <3>2, <3>3
  <2> QED
    BY <1>1, <2>1, <2>2, <2>3 DEF Change
<1>2. ASSUME NEW f \in Files, WriteFile(f) PROVE FileType'
  <2> DEFINE ev == [file |-> f, op |-> IF content[f] = Missing THEN "create" ELSE "write"]
  <2>1. ev \in WatchEvent
    BY DEF WatchEvent
  <2>2. <<ev>> \in Seq(WatchEvent)
    <3> HIDE DEF ev
    <3> QED
      BY <2>1
  <2>3. Change(<<ev>>, {}) /\ content' \in [Files -> Contents \cup {Missing, Garbage}]
    BY <1>2 DEF WriteFile
  <2>4. {} \in SUBSET Files
    OBVIOUS
  <2> HIDE DEF ev
  <2> QED
    BY <1>1, <2>2, <2>3, <2>4
<1>3. ASSUME NEW f \in Files, RemoveFile(f) PROVE FileType'
  <2> DEFINE ev == [file |-> f, op |-> "remove"]
  <2>1. ev \in WatchEvent
    BY DEF WatchEvent
  <2>2. <<ev>> \in Seq(WatchEvent)
    <3> HIDE DEF ev
    <3> QED
      BY <2>1
  <2>3. Change(<<ev>>, {}) /\ content' \in [Files -> Contents \cup {Missing, Garbage}]
    BY <1>3 DEF RemoveFile
  <2>4. {} \in SUBSET Files
    OBVIOUS
  <2> HIDE DEF ev
  <2> QED
    BY <1>1, <2>2, <2>3, <2>4
<1>4. ASSUME NEW f \in Files, NEW g \in Files, MoveFile(f, g) PROVE FileType'
  <2> DEFINE ev == [file |-> f, op |-> "rename"]
             ew == [file |-> g, op |-> "create"]
             lost == IF run = "select" THEN {f} ELSE {}
  <2>1. ev \in WatchEvent /\ ew \in WatchEvent
    BY DEF WatchEvent
  <2>2. <<ev, ew>> \in Seq(WatchEvent)
    <3> HIDE DEF ev, ew
    <3> QED
      BY <2>1
  <2>3. Change(<<ev, ew>>, lost) /\ content' \in [Files -> Contents \cup {Missing, Garbage}]
    BY <1>4 DEF MoveFile
  <2>4. lost \in SUBSET Files
    OBVIOUS
  <2> HIDE DEF lost
  <2> QED
    BY <1>1, <2>2, <2>3, <2>4
<1>5. CASE HandleFileEvent
  <2>1. UNCHANGED <<content, changes, missed, run, todo>> /\ notified' \in Seq(WatchEvent)
    BY <1>5 DEF HandleFileEvent
  <2> QED
    BY <2>1
<1>6. CASE ListFiles \/ ReadFile \/ AddWatch \/ StartFails \/ RunStop \/ TakeBatch
             \/ PanicOnClosed \/ UNCHANGED vars
  BY <1>6 DEF ListFiles, ReadFile, AddWatch, StartFails, RunStop, TakeBatch, PanicOnClosed,
              vars, fsVars
<1> QED
  BY <1>2, <1>3, <1>4, <1>5, <1>6 DEF Next

\* Every step keeps the types.
LEMMA TypeStep == TypeInv /\ [Next]_vars => TypeInv'
<1> SUFFICES ASSUME TypeInv, [Next]_vars PROVE StateType'
  BY FileTypeStep DEF TypeInv
<1>1. CASE \E f \in Files : \E rm, upd : Handled(f, rm, upd)
  BY <1>1, HandledTyped DEF TypeInv
<1>2. CASE UNCHANGED <<state, upstreamCache, updatedFromEDS, made, emitted, shared>>
             /\ batches' \subseteq batches
  BY <1>2 DEF TypeInv, StateType
<1> QED
  BY <1>1, <1>2, StateSteps

LEMMA TypeAlways == Spec => []TypeInv
BY TypeInit, TypeStep, PTL DEF Spec

\* The variables of FileProvisioner keep their types: what is parsed of a file, kept for
\* it and sent is of the routes and clusters that files may name, and no batch that is
\* sent is empty.
THEOREM FileTypeCorrect == Spec => []TypeOK
BY TypeAlways, TypeInvTypes, PTL
-----------------------------------------------------------------------------
(* What was sent follows the states of the files.                          *)

\* A name in the states of two files is shared.
SharedInv ==
    \A g, h \in Files : g # h => Named(state[g]) \cap Named(state[h]) \subseteq shared

FollowInv == SharedInv /\ EmittedFollowsFiles

LEMMA FollowInit == Init => FollowInv
BY NoManifestTyped DEF Init, FollowInv, SharedInv, EmittedFollowsFiles, Named

\* What a manifest shows.
LEMMA ShownTyped ==
    ASSUME NEW m \in ManifestType
    PROVE  /\ \A n \in RouteNames : Shown(m, n) # NoObject <=> n \in Ids(m.routes)
           /\ \A n \in Clusters : Shown(m, n) # NoObject <=> n \in Ids(m.upstreams)
           /\ \A n \in Ids(m.routes) : Shown(m, n) = Lookup(m.routes, n).val
           /\ \A n \in Ids(m.upstreams) : Shown(m, n) = Lookup(m.upstreams, n).val
<1>1. m.routes \in Seq(RouteObject) /\ m.upstreams \in Seq(UpstreamObject)
  BY DEF ManifestType
<1>2. /\ Ids(m.routes) \subseteq RouteNames
      /\ \A n \in Ids(m.routes) : Lookup(m.routes, n).val \in [content : Nat]
  BY <1>1, IdsTyped DEF RouteObject
<1>3. /\ Ids(m.upstreams) \subseteq Clusters
      /\ \A n \in Ids(m.upstreams) : Lookup(m.upstreams, n).val \in [nodes : Nat]
  BY <1>1, IdsTyped DEF UpstreamObject
<1>4. NoObject \notin [content : Nat] /\ NoObject \notin [nodes : Nat]
  BY DEF NoObject
<1> QED
  BY <1>2, <1>3, <1>4, FileAssumption DEF Shown

\* Handling an event keeps the invariant.
LEMMA FollowHandled ==
    ASSUME StateType, FollowInv, NEW f \in Files, NEW rm, NEW upd, Handled(f, rm, upd)
    PROVE  FollowInv'
<1> DEFINE o == state[f]
           ids == Ids(GenerateEvents(rm, o))
<1>1. /\ rm \in ManifestType /\ upd \in Seq(UpstreamObject)
      /\ Effect(f, rm, upd, ids)
  BY DEF Handled
<1>2. o \in ManifestType /\ \A g \in Files : state[g] \in ManifestType
  BY DEF StateType
<1> HIDE DEF ids
<1>3. /\ state'[f] = rm
      /\ \A g \in Files \ {f} : state'[g] = state[g]
  BY <1>1 DEF Effect, StateType
<1>4. /\ shared \subseteq shared'
      /\ \A g \in Files \ {f} : Named(rm) \cap Named(state[g]) \subseteq shared'
      /\ ids \subseteq Named(rm) \cup Named(o)
      /\ \A n \in Name : emitted'[n] = IF n \in Ids(upd) THEN Lookup(upd, n).val
                                       ELSE IF n \in ids THEN Shown(rm, n) ELSE emitted[n]
      /\ \A n \in Name \ ids : Shown(rm, n) = Shown(o, n)
  BY <1>1 DEF Effect
<1>5. SharedInv'
  BY <1>3, <1>4 DEF FollowInv, SharedInv
<1>6. /\ Ids(upd) \subseteq Clusters
      /\ \A n \in Ids(upd) : Lookup(upd, n).val # NoObject
  <2>1. \A n \in Ids(upd) : Lookup(upd, n).val \in [nodes : Nat]
    BY <1>1, IdsTyped DEF UpstreamObject
  <2>2. NoObject \notin [nodes : Nat]
    BY DEF NoObject
  <2> QED
    BY <1>1, <2>1, <2>2, IdsTyped DEF UpstreamObject
<1>7. ASSUME NEW g \in Files \ {f}, NEW n \in Named(state[g]) \ shared'
      PROVE  n \notin ids
  BY <1>4, <1>7 DEF FollowInv, SharedInv
<1>8. \A n \in RouteNames : n \notin Ids(upd) /\ n \in Name
  BY <1>6, FileAssumption DEF Name
<1>9. ASSUME NEW g \in Files, NEW n \in Ids(state'[g].routes) \ shared'
      PROVE  emitted'[n] = Lookup(state'[g].routes, n).val
  <2>1. n \in RouteNames /\ n \notin shared
    BY <1>1, <1>2, <1>3, <1>4, <1>9, NamedTyped
  <2>2. CASE g = f
    <3>1. n \in Ids(rm.routes) /\ Shown(rm, n) = Lookup(rm.routes, n).val
      BY <1>1, <1>3, <1>9, <2>2, ShownTyped
    <3>2. CASE n \in ids
      BY <1>3, <1>4, <1>8, <2>1, <2>2, <3>1, <3>2
    <3>3. CASE n \notin ids
      <4>1. Shown(rm, n) = Shown(o, n) /\ emitted'[n] = emitted[n]
        BY <1>4, <1>8, <2>1, <3>3
      <4>2. n \in Ids(o.routes)
        BY <1>1, <1>2, <2>1, <3>1, <4>1, ShownTyped
      <4>3. emitted[n] = Lookup(o.routes, n).val /\ Shown(o, n) = Lookup(o.routes, n).val
        BY <1>2, <2>1, <4>2, ShownTyped DEF FollowInv, EmittedFollowsFiles
      <4> QED
        BY <1>3, <2>2, <3>1, <4>1, <4>3
    <3> QED
      BY <3>2, <3>3
  <2>3. CASE g # f
    <3>1. state'[g] = state[g] /\ n \notin ids
      BY <1>3, <1>7, <1>9, <2>3 DEF Named
    <3>2. emitted'[n] = emitted[n]
      BY <1>4, <1>8, <2>1, <3>1
    <3> QED
      BY <1>9, <2>1, <3>1, <3>2 DEF FollowInv, EmittedFollowsFiles
  <2> QED
    BY <2>2, <2>3
<1>10. ASSUME NEW g \in Files, NEW n \in Ids(state'[g].upstreams) \ shared'
       PROVE  emitted'[n] # NoObject
  <2>1. n \in Clusters /\ n \in Name /\ n \notin shared
    BY <1>1, <1>2, <1>3, <1>4, <1>10, NamedTyped DEF Name
  <2>2. CASE n \in Ids(upd)
    BY <1>4, <1>6, <2>1, <2>2
  <2>3. CASE n \notin Ids(upd) /\ g = f
    <3>1. n \in Ids(rm.upstreams) /\ Shown(rm, n) # NoObject
      BY <1>1, <1>3, <1>10, <2>1, <2>3, ShownTyped
    <3>2. CASE n \in ids
      BY <1>4, <2>1, <2>3, <3>1, <3>2
    <3>3. CASE n \notin ids
      <4>1. Shown(rm, n) = Shown(o, n) /\ emitted'[n] = emitted[n]
        BY <1>4, <2>1, <2>3, <3>3
      <4>2. n \in Ids(o.upstreams)
        BY <1>2, <2>1, <3>1, <4>1, ShownTyped
      <4> QED
        BY <2>1, <4>1, <4>2 DEF FollowInv, EmittedFollowsFiles
    <3> QED
      BY <3>2, <3>3
  <2>4. CASE n \notin Ids(upd) /\ g # f
    <3>1. state'[g] = state[g] /\ n \notin ids
      BY <1>3, <1>7, <1>10, <2>4 DEF Named
    <3>2. emitted'[n] = emitted[n]
      BY <1>4, <2>1, <2>4, <3>1
    <3> QED
      BY <1>10, <2>1, <3>1, <3>2 DEF FollowInv, EmittedFollowsFiles
  <2> QED
    BY <2>2, <2>3, <2>4
<1>11. ASSUME NEW n \in RouteNames, emitted'[n] # NoObject
       PROVE  \E g \in Files : n \in Ids(state'[g].routes)
  <2>1. CASE n \in ids
    <3>1. Shown(rm, n) # NoObject
      BY <1>4, <1>8, <1>11, <2>1
    <3> QED
      BY <1>1, <1>3, <3>1, ShownTyped
  <2>2. CASE n \notin ids
    <3>1. emitted[n] # NoObject /\ Shown(rm, n) = Shown(o, n)
      BY <1>4, <1>8, <1>11, <2>2
    <3>2. PICK g \in Files : n \in Ids(state[g].routes)
      BY <3>1 DEF FollowInv, EmittedFollowsFiles
    <3>3. CASE g = f
      <4>1. Shown(o, n) # NoObject
        BY <1>2, <3>2, <3>3, ShownTyped
      <4> QED
        BY <1>1, <1>3, <3>1, <4>1, ShownTyped
    <3>4. CASE g # f
      BY <1>3, <3>2, <3>4
    <3> QED
      BY <3>3, <3>4
  <2> QED
    BY <2>1, <2>2
<1> QED
  BY <1>5, <1>9, <1>10, <1>11 DEF FollowInv, EmittedFollowsFiles

LEMMA FollowStep == TypeInv /\ FollowInv /\ [Next]_vars => FollowInv'
<1> SUFFICES ASSUME TypeInv, FollowInv, [Next]_vars PROVE FollowInv'
  OBVIOUS
<1>1. CASE \E f \in Files : \E rm, upd : Handled(f, rm, upd)
  BY <1>1, FollowHandled DEF TypeInv
<1>2. CASE UNCHANGED <<state, upstreamCache, updatedFromEDS, made, emitted, shared>>
  BY <1>2 DEF FollowInv, SharedInv, EmittedFollowsFiles
<1> QED
  BY <1>1, <1>2, StateSteps

\* The batches follow the states of the files (generateEvents of the file provisioner,
\* file by file), for any files and contents: routes are exactly those of the files, and
\* no upstream that a file names is missing, as long as no other file names it too.
THEOREM EmittedFollows == Spec => []EmittedFollowsFiles
<1>1. FollowInv => EmittedFollowsFiles
  BY DEF FollowInv
<1> QED
  BY <1>1, FollowInit, FollowStep, TypeAlways, PTL DEF Spec
-----------------------------------------------------------------------------
(* Where the nodes of upstreams come from.                                 *)

LEMMA NodesInit == Init => NodesFromFiles
<1> SUFFICES ASSUME Init, NEW c \in Clusters, emitted[c] \in [nodes : Nat \ {0}] PROVE FALSE
  BY DEF NodesFromFiles
<1>1. emitted[c] = NoObject
  BY DEF Init
<1>2. NoObject \notin [nodes : Nat \ {0}]
  BY DEF NoObject
<1> QED
  BY <1>1, <1>2

LEMMA NodesHandled ==
    ASSUME StateType, NodesFromFiles, NEW f \in Files, NEW rm, NEW upd,
           Handled(f, rm, upd)
    PROVE  NodesFromFiles'
<1> SUFFICES ASSUME NEW c \in Clusters, emitted'[c] \in [nodes : Nat \ {0}]
             PROVE  \E g \in Files :
                      [id |-> c, val |-> emitted'[c]] \in
                          ToSet(state'[g].upstreams) \cup ToSet(updatedFromEDS'[g])
  BY DEF NodesFromFiles
<1> DEFINE o == state[f]
           ids == Ids(GenerateEvents(rm, o))
           x == [id |-> c, val |-> emitted'[c]]
<1>1. /\ rm \in ManifestType /\ upd \in Seq(UpstreamObject)
      /\ Effect(f, rm, upd, ids)
      /\ \A g \in Files \ {f} : updatedFromEDS'[g] = updatedFromEDS[g]
      /\ \/ ToSet(updatedFromEDS[f]) \cup ToSet(upd) \subseteq ToSet(updatedFromEDS'[f])
         \/ /\ Ids(upd) = Ids(updatedFromEDS[f])
            /\ \A n \in Ids(upd) : Lookup(upd, n).val = [nodes |-> 0]
  BY DEF Handled
<1> HIDE DEF ids
<1>2. /\ state'[f] = rm
      /\ \A g \in Files \ {f} : state'[g] = state[g]
  BY <1>1 DEF Effect, StateType
<1>3. /\ c \in Name
      /\ emitted'[c] = IF c \in Ids(upd) THEN Lookup(upd, c).val
                       ELSE IF c \in ids THEN Shown(rm, c) ELSE emitted[c]
      /\ \A y \in ToSet(o.upstreams) : y.id \notin ids => y \in ToSet(rm.upstreams)
  BY <1>1 DEF Effect, Name
<1>4. emitted'[c] # NoObject /\ emitted'[c] # [nodes |-> 0]
  BY DEF NoObject
<1>5. CASE c \in Ids(upd)
  <2>1. /\ Lookup(upd, c) \in ToSet(upd)
        /\ Lookup(upd, c) \in UpstreamObject /\ Lookup(upd, c).id = c
    BY <1>1, <1>5, LookupFinds
  <2>2. Lookup(upd, c) = x
    BY <1>3, <1>5, <2>1 DEF UpstreamObject
  <2>3. ToSet(upd) \subseteq ToSet(updatedFromEDS'[f])
    BY <1>1, <1>3, <1>4, <1>5
  <2> QED
    BY <2>1, <2>2, <2>3
<1>6. CASE c \notin Ids(upd) /\ c \in ids
  <2>1. emitted'[c] = Shown(rm, c) /\ Shown(rm, c) # NoObject
    BY <1>3, <1>4, <1>6
  <2>2. c \in Ids(rm.upstreams) /\ Shown(rm, c) = Lookup(rm.upstreams, c).val
    BY <1>1, <2>1, ShownTyped
  <2>3. rm.upstreams \in Seq(UpstreamObject)
    BY <1>1 DEF ManifestType
  <2>4. /\ Lookup(rm.upstreams, c) \in ToSet(rm.upstreams)
        /\ Lookup(rm.upstreams, c) \in UpstreamObject /\ Lookup(rm.upstreams, c).id = c
    BY <2>2, <2>3, LookupFinds
  <2>5. Lookup(rm.upstreams, c) = x
    BY <2>1, <2>2, <2>4 DEF UpstreamObject
  <2> QED
    BY <1>2, <2>4, <2>5
<1>7. CASE c \notin Ids(upd) /\ c \notin ids
  <2>1. emitted'[c] = emitted[c]
    BY <1>3, <1>7
  <2>2. PICK g \in Files : x \in ToSet(state[g].upstreams) \cup ToSet(updatedFromEDS[g])
    BY <2>1 DEF NodesFromFiles
  <2>3. CASE g # f
    BY <1>1, <1>2, <2>2, <2>3
  <2>4. CASE g = f /\ x \in ToSet(o.upstreams)
    BY <1>2, <1>3, <1>7, <2>4
  <2>5. CASE g = f /\ x \in ToSet(updatedFromEDS[f])
    <3>1. c \in Ids(updatedFromEDS[f])
      <4>1. x.id \in {y.id : y \in ToSet(updatedFromEDS[f])}
        BY <2>5
      <4> QED
        BY <4>1, IdsToSet
    <3> QED
      BY <1>1, <1>7, <2>5, <3>1
  <2> QED
    BY <2>2, <2>3, <2>4, <2>5
<1> QED
  BY <1>5, <1>6, <1>7

LEMMA NodesStep == TypeInv /\ NodesFromFiles /\ [Next]_vars => NodesFromFiles'
<1> SUFFICES ASSUME TypeInv, NodesFromFiles, [Next]_vars PROVE NodesFromFiles'
  OBVIOUS
<1>1. CASE \E f \in Files : \E rm, upd : Handled(f, rm, upd)
  BY <1>1, NodesHandled DEF TypeInv
<1>2. CASE UNCHANGED <<state, upstreamCache, updatedFromEDS, made, emitted, shared>>
  BY <1>2 DEF NodesFromFiles
<1> QED
  BY <1>1, <1>2, StateSteps

\* Nodes are withdrawn with the file they come from (updatedUpstreamsFromEDS in
\* handleFileEvent): for any files and contents, an upstream sent with nodes has them from
\* what is kept of some file.
THEOREM NodesAreWithdrawn == Spec => []NodesFromFiles
BY NodesInit, NodesStep, TypeAlways, PTL DEF Spec
-----------------------------------------------------------------------------
(* The states of the files and what they hold.                             *)

\* The last state of a file is that of what the file holds now.
MatchesFile(f) ==
    /\ content[f] = Missing => state[f] = NoManifest
    /\ content[f] \notin {Missing, Garbage} =>
        /\ Ids(state[f].upstreams) = NamesIn(content[f], "CDS")
        /\ Ids(state[f].routes) = NamesIn(content[f], "RDS")

\* The event of the watcher still fits what the file holds.
Fits(op, c) ==
    \/ op = "remove" /\ c = Missing
    \/ op \in {"create", "write"} /\ c # Missing

\* Position i of evs is the last one of file f.
LastEvent(evs, i, f) ==
    /\ i \in 1..Len(evs)
    /\ evs[i].file = f
    /\ \A j \in 1..Len(evs) : evs[j].file = f => j <= i

\* The last state of f matches, or the last event of f that waits will make it match.
Settles(f) ==
    /\ (\A i \in 1..Len(notified) : notified[i].file # f) => MatchesFile(f)
    /\ \A i \in 1..Len(notified) :
        LastEvent(notified, i, f) => Fits(notified[i].op, content[f])

\* Before watcher.Add nothing waits, and files that are still to be read have no state.
MatchInv ==
    /\ run = "list" => \A f \in Files : state[f] = NoManifest
    /\ run \in {"list", "read"} => notified = <<>>
    /\ run = "read" => \A f \in todo : state[f] = NoManifest
    /\ run = "read" => \A f \in Files \ (todo \cup missed) : MatchesFile(f)
    /\ run = "select" => \A f \in Files \ missed : Settles(f)

LEMMA MatchInit == Init => MatchInv
BY DEF Init, MatchInv

\* Handling an event of f leaves the states of other files.
LEMMA HandledOthers ==
    ASSUME StateType, NEW f \in Files, NEW rm, NEW upd, Handled(f, rm, upd)
    PROVE  state'[f] = rm /\ \A g \in Files \ {f} : state'[g] = state[g]
BY DEF Handled, Effect, StateType

\* A file that is read as it is written matches after it.
LEMMA WriteMatches ==
    ASSUME TypeInv, NEW f \in Files, HandleWrite(f), UNCHANGED content,
           content[f] = Missing => state[f] = NoManifest
    PROVE  /\ MatchesFile(f)'
           /\ \A g \in Files \ {f} : state'[g] = state[g]
<1>1. CASE content[f] \in {Missing, Garbage} /\ UNCHANGED stateVars
  BY <1>1, ContentsApart DEF stateVars, MatchesFile
<1>2. ASSUME content[f] \notin {Missing, Garbage}, NEW rm, NEW upd, Handled(f, rm, upd),
             Ids(rm.upstreams) = NamesIn(content[f], "CDS"),
             Ids(rm.routes) = NamesIn(content[f], "RDS")
      PROVE  /\ MatchesFile(f)'
             /\ \A g \in Files \ {f} : state'[g] = state[g]
  BY <1>2, HandledOthers DEF MatchesFile, TypeInv
<1> QED
  BY <1>1, <1>2, WriteHandled

\* A change of files: those that are touched have events that fit what they hold now.
LEMMA ChangeMatches ==
    ASSUME TypeInv, MatchInv, NEW evs \in Seq(WatchEvent), NEW lost, Change(evs, lost),
           \A f \in Files : (\A i \in 1..Len(evs) : evs[i].file # f) => content'[f] = content[f],
           \A f \in Files \ lost : \A i \in 1..Len(evs) :
               LastEvent(evs, i, f) => Fits(evs[i].op, content'[f])
    PROVE  MatchInv'
<1> DEFINE touched == {evs[i].file : i \in DOMAIN evs}
<1>1. /\ UNCHANGED <<run, todo, state>>
      /\ notified' = IF run = "select" THEN notified \o evs ELSE notified
      /\ missed' = (missed \ touched) \cup lost \cup {f \in touched : ~Known(f)}
  BY DEF Change, stateVars
<1>2. DOMAIN evs = 1..Len(evs) /\ Len(evs) \in Nat
  OBVIOUS
<1>3. \A f \in Files : f \notin touched => content'[f] = content[f]
  BY <1>2
<1>4. CASE run # "select"
  <2>1. run = "read" => \A f \in Files \ (todo \cup missed') : MatchesFile(f)'
    <3> SUFFICES ASSUME run = "read", NEW f \in Files \ (todo \cup missed')
                 PROVE  MatchesFile(f)'
      OBVIOUS
    <3>1. f \notin touched /\ f \notin missed
      BY <1>1 DEF Known
    <3>2. MatchesFile(f) /\ content'[f] = content[f] /\ state'[f] = state[f]
      BY <1>1, <1>3, <3>1 DEF MatchInv
    <3> QED
      BY <3>2 DEF MatchesFile
  <2> QED
    BY <1>1, <1>4, <2>1 DEF MatchInv
<1>5. CASE run = "select"
  <2> DEFINE s == notified
             t == s \o evs
  <2>1. /\ Len(s) \in Nat /\ Len(evs) \in Nat
        /\ Len(t) = Len(s) + Len(evs)
        /\ \A i \in 1..Len(s) : t[i] = s[i]
        /\ \A i \in 1..Len(evs) : t[Len(s) + i] = evs[i]
    <3>1. s \in Seq(WatchEvent)
      BY DEF TypeInv, FileType
    <3> HIDE DEF s
    <3> QED
      BY <3>1
  <2>2. notified' = t
    BY <1>1, <1>5
  <2>3. ASSUME NEW f \in Files \ missed' PROVE Settles(f)'
    <3> HIDE DEF t
    <3>1. CASE f \in touched
      <4>1. f \notin lost
        BY <1>1, <2>3
      <4>2. PICK k \in 1..Len(evs) : evs[k].file = f
        BY <1>2, <3>1
      <4>3. Len(s) + k \in 1..Len(t) /\ t[Len(s) + k].file = f
        BY <2>1, <4>2
      <4>4. ASSUME NEW i \in 1..Len(t), LastEvent(t, i, f)
            PROVE  Fits(t[i].op, content'[f])
        <5>1. Len(s) + k <= i
          BY <4>3, <4>4 DEF LastEvent
        <5>2. i - Len(s) \in 1..Len(evs) /\ t[i] = evs[i - Len(s)]
          <6>1. i - Len(s) \in 1..Len(evs) /\ Len(s) + (i - Len(s)) = i
            BY <2>1, <5>1
          <6> QED
            BY <2>1, <6>1
        <5>3. LastEvent(evs, i - Len(s), f)
          <6>1. evs[i - Len(s)].file = f
            BY <4>4, <5>2 DEF LastEvent
          <6>2. ASSUME NEW j \in 1..Len(evs), evs[j].file = f PROVE j <= i - Len(s)
            <7>1. Len(s) + j \in 1..Len(t) /\ t[Len(s) + j].file = f
              BY <2>1, <6>2
            <7>2. Len(s) + j <= i
              BY <4>4, <7>1 DEF LastEvent
            <7> QED
              BY <2>1, <7>2
          <6> QED
            BY <5>2, <6>1, <6>2 DEF LastEvent
        <5> QED
          BY <4>1, <5>2, <5>3
      <4> QED
        BY <2>2, <4>3, <4>4 DEF Settles
    <3>2. CASE f \notin touched
      <4>1. f \notin missed /\ content'[f] = content[f] /\ state'[f] = state[f]
        BY <1>1, <1>3, <2>3, <3>2
      <4>2. Settles(f)
        BY <1>5, <4>1 DEF MatchInv
      <4>3. \A i \in 1..Len(evs) : evs[i].file # f
        BY <1>2, <3>2
      <4>4. ASSUME NEW i \in 1..Len(t), t[i].file = f PROVE i \in 1..Len(s) /\ t[i] = s[i]
        <5>1. CASE i <= Len(s)
          BY <2>1, <5>1
        <5>2. CASE i > Len(s)
          <6>1. i - Len(s) \in 1..Len(evs) /\ Len(s) + (i - Len(s)) = i
            BY <2>1, <5>2
          <6>2. t[i] = evs[i - Len(s)]
            BY <2>1, <6>1
          <6> QED
            BY <4>3, <4>4, <6>1, <6>2
        <5> QED
          BY <2>1, <5>1, <5>2
      <4>5. \A i \in 1..Len(s) : i \in 1..Len(t) /\ t[i] = s[i]
        BY <2>1
      <4>6. (\A i \in 1..Len(t) : t[i].file # f) => MatchesFile(f)'
        BY <4>1, <4>2, <4>5 DEF Settles, MatchesFile
      <4>7. ASSUME NEW i \in 1..Len(t), LastEvent(t, i, f)
            PROVE  Fits(t[i].op, content'[f])
        <5>1. i \in 1..Len(s) /\ t[i] = s[i]
          BY <4>4, <4>7 DEF LastEvent
        <5>2. LastEvent(s, i, f)
          BY <4>5, <4>7, <5>1 DEF LastEvent
        <5> QED
          BY <4>1, <4>2, <5>1, <5>2 DEF Settles
      <4> QED
        BY <2>2, <4>6, <4>7 DEF Settles
    <3> QED
      BY <3>1, <3>2
  <2> QED
    BY <1>1, <1>5, <2>3 DEF MatchInv
<1> QED
  BY <1>4, <1>5

\* The one change of a file, or the two of a move.
LEMMA FilesMatch ==
    ASSUME TypeInv, MatchInv
    PROVE  /\ \A f \in Files : WriteFile(f) \/ RemoveFile(f) => MatchInv'
           /\ \A f, g \in Files : MoveFile(f, g) => MatchInv'
<1>1. ASSUME NEW f \in Files, NEW ev \in WatchEvent, ev.file = f, Change(<<ev>>, {}),
             \A h \in Files \ {f} : content'[h] = content[h], Fits(ev.op, content'[f])
      PROVE  MatchInv'
  <2> DEFINE evs == <<ev>>
  <2>1. evs \in Seq(WatchEvent) /\ Len(evs) = 1 /\ evs[1] = ev
    OBVIOUS
  <2>2. Change(evs, {})
    BY <1>1
  <2> HIDE DEF evs
  <2>3. ASSUME NEW h \in Files, \A i \in 1..Len(evs) : evs[i].file # h
        PROVE  content'[h] = content[h]
    BY <1>1, <2>1, <2>3
  <2>4. ASSUME NEW h \in Files, NEW i \in 1..Len(evs), LastEvent(evs, i, h)
        PROVE  Fits(evs[i].op, content'[h])
    <3>1. i = 1
      BY <2>1
    <3>2. h = f
      BY <1>1, <2>1, <2>4, <3>1 DEF LastEvent
    <3> QED
      BY <1>1, <2>1, <3>1, <3>2
  <2> QED
    BY <2>1, <2>2, <2>3, <2>4, ChangeMatches
<1>2. ASSUME NEW f \in Files, WriteFile(f) PROVE MatchInv'
  <2> DEFINE ev == [file |-> f, op |-> IF content[f] = Missing THEN "create" ELSE "write"]
  <2>1. ev \in WatchEvent /\ ev.file = f /\ ev.op \in {"create", "write"}
    BY DEF WatchEvent
  <2>2. PICK c \in Contents \cup {Garbage} : content' = [content EXCEPT ![f] = c]
    BY <1>2 DEF WriteFile
  <2>3. content'[f] # Missing /\ \A h \in Files \ {f} : content'[h] = content[h]
    BY <2>2, ContentsApart DEF TypeInv, FileType
  <2>4. Change(<<ev>>, {})
    BY <1>2 DEF WriteFile
  <2> HIDE DEF ev
  <2>5. Fits(ev.op, content'[f])
    BY <2>1, <2>3 DEF Fits
  <2> QED
    BY <1>1, <2>1, <2>3, <2>4, <2>5
<1>3. ASSUME NEW f \in Files, RemoveFile(f) PROVE MatchInv'
  <2> DEFINE ev == [file |-> f, op |-> "remove"]
  <2>1. ev \in WatchEvent /\ ev.file = f /\ ev.op = "remove"
    BY DEF WatchEvent
  <2>2. content'[f] = Missing /\ \A h \in Files \ {f} : content'[h] = content[h]
    BY <1>3 DEF RemoveFile, TypeInv, FileType
  <2>3. Change(<<ev>>, {})
    BY <1>3 DEF RemoveFile
  <2> HIDE DEF ev
  <2>4. Fits(ev.op, content'[f])
    BY <2>1, <2>2 DEF Fits
  <2> QED
    BY <1>1, <2>1, <2>2, <2>3, <2>4
<1>4. ASSUME NEW f \in Files, NEW g \in Files, MoveFile(f, g) PROVE MatchInv'
  <2> DEFINE ev == [file |-> f, op |-> "rename"]
             ew == [file |-> g, op |-> "create"]
             evs == <<ev, ew>>
             lost == IF run = "select" THEN {f} ELSE {}
  <2>1. ev \in WatchEvent /\ ew \in WatchEvent
    BY DEF WatchEvent
  <2>2. /\ f # g
        /\ content'[g] # Missing
        /\ \A h \in Files \ {f, g} : content'[h] = content[h]
    BY <1>4 DEF MoveFile, TypeInv, FileType
  <2>3. Change(evs, lost)
    BY <1>4 DEF MoveFile
  <2>4. ev.file = f /\ ew.file = g /\ ew.op = "create"
    OBVIOUS
  <2> HIDE DEF ev, ew
  <2>5. evs \in Seq(WatchEvent) /\ Len(evs) = 2 /\ evs[1] = ev /\ evs[2] = ew
    BY <2>1
  <2> HIDE DEF evs
  <2>6. ASSUME NEW h \in Files, \A i \in 1..Len(evs) : evs[i].file # h
        PROVE  content'[h] = content[h]
    <3>1. 1 \in 1..Len(evs) /\ 2 \in 1..Len(evs)
      BY <2>5
    <3> QED
      BY <2>2, <2>4, <2>5, <2>6, <3>1
  <2>7. CASE run = "select"
    <3>1. lost = {f}
      BY <2>7
    <3>2. ASSUME NEW h \in Files \ lost, NEW i \in 1..Len(evs), LastEvent(evs, i, h)
          PROVE  Fits(evs[i].op, content'[h])
      <4>1. i = 1 \/ i = 2
        BY <2>5
      <4>2. i = 2 /\ h = g
        BY <2>4, <2>5, <3>1, <3>2, <4>1 DEF LastEvent
      <4> QED
        BY <2>2, <2>4, <2>5, <4>2 DEF Fits
    <3> HIDE DEF lost
    <3> QED
      BY <2>3, <2>5, <2>6, <3>2, ChangeMatches
  <2>8. CASE run # "select"
    <3> DEFINE touched == {evs[i].file : i \in DOMAIN evs}
    <3>1. /\ UNCHANGED <<run, todo, state, notified>>
          /\ missed' = (missed \ touched) \cup {h \in touched : ~Known(h)}
      BY <2>3, <2>8 DEF Change, stateVars
    <3>2. ASSUME run = "read", NEW h \in Files \ (todo \cup missed') PROVE MatchesFile(h)'
      <4>1. h \notin touched /\ h \notin missed
        BY <3>1, <3>2 DEF Known
      <4>2. \A i \in 1..Len(evs) : evs[i].file # h
        BY <2>5, <4>1
      <4>3. MatchesFile(h) /\ content'[h] = content[h] /\ state'[h] = state[h]
        BY <2>6, <3>1, <3>2, <4>1, <4>2 DEF MatchInv
      <4> QED
        BY <4>3 DEF MatchesFile
    <3> HIDE DEF touched
    <3> QED
      BY <2>8, <3>1, <3>2 DEF MatchInv
  <2> QED
    BY <2>7, <2>8
<1> QED
  BY <1>2, <1>3, <1>4

\* Run takes an event: what waits for other files stays, and the file it is about
\* matches, or has a later event.
LEMMA EventMatches ==
    ASSUME TypeInv, MatchInv, HandleFileEvent
    PROVE  MatchInv'
<1> DEFINE s == notified
           t == Tail(s)
           f == Head(s).file
           op == Head(s).op
<1>1. /\ run = "select" /\ s # <<>> /\ notified' = t
      /\ UNCHANGED <<content, missed, run, todo>>
      /\ \/ op \in {"create", "write"} /\ HandleWrite(f)
         \/ op = "remove" /\ HandleRemove(f)
         \/ op = "rename" /\ UNCHANGED stateVars
  BY DEF HandleFileEvent
<1>2. s \in Seq(WatchEvent)
  BY DEF TypeInv, FileType
<1>3. s[1] \in WatchEvent /\ Head(s) = s[1]
  <2> HIDE DEF s
  <2> QED
    BY <1>1, <1>2
<1>4. f \in Files /\ s[1].file = f /\ s[1].op = op
  BY <1>3 DEF WatchEvent
<1>5. /\ Len(s) \in Nat /\ Len(s) > 0 /\ Len(t) = Len(s) - 1
      /\ \A i \in 1..Len(t) : t[i] = s[i + 1]
  <2> HIDE DEF s
  <2> QED
    BY <1>1, <1>2
<1> HIDE DEF t, f, op
<1>6. \A g \in Files \ {f} : state'[g] = state[g]
  <2>1. CASE HandleWrite(f)
    <3>1. CASE UNCHANGED stateVars
      BY <3>1 DEF stateVars
    <3>2. CASE \E rm, upd : Handled(f, rm, upd)
      BY <1>4, <3>2, HandledOthers DEF TypeInv
    <3> QED
      BY <1>4, <2>1, <3>1, <3>2, WriteHandled
  <2>2. CASE HandleRemove(f)
    BY <1>4, <2>2, RemoveHandled, HandledOthers DEF TypeInv
  <2> QED
    BY <1>1, <2>1, <2>2 DEF stateVars
<1>7. ASSUME NEW g \in Files \ missed' PROVE Settles(g)'
  <2>1. g \notin missed /\ Settles(g) /\ content'[g] = content[g]
    BY <1>1, <1>7 DEF MatchInv
  <2>2. ASSUME NEW i \in 1..Len(t), LastEvent(t, i, g)
        PROVE  Fits(t[i].op, content'[g])
    <3>1. i + 1 \in 1..Len(s) /\ t[i] = s[i + 1]
      BY <1>5
    <3>2. ASSUME NEW j \in 1..Len(s), s[j].file = g PROVE j <= i + 1
      <4>1. CASE j = 1
        BY <1>5, <4>1
      <4>2. CASE j # 1
        <5>1. j - 1 \in 1..Len(t) /\ (j - 1) + 1 = j
          BY <1>5, <4>2
        <5>2. t[j - 1].file = g
          BY <1>5, <3>2, <5>1
        <5>3. j - 1 <= i
          BY <2>2, <5>1, <5>2 DEF LastEvent
        <5> QED
          BY <1>5, <5>1, <5>3
      <4> QED
        BY <4>1, <4>2
    <3>3. LastEvent(s, i + 1, g)
      BY <2>2, <3>1, <3>2 DEF LastEvent
    <3> QED
      BY <2>1, <3>1, <3>3 DEF Settles
  <2>3. ASSUME \A i \in 1..Len(t) : t[i].file # g PROVE MatchesFile(g)'
    <3>1. \A j \in 1..Len(s) : j # 1 => s[j].file # g
      <4>1. ASSUME NEW j \in 1..Len(s), j # 1 PROVE s[j].file # g
        <5>1. j - 1 \in 1..Len(t) /\ (j - 1) + 1 = j
          BY <1>5, <4>1
        <5> QED
          BY <1>5, <2>3, <5>1
      <4> QED
        BY <4>1
    <3>2. CASE g # f
      <4>1. \A j \in 1..Len(s) : s[j].file # g
        BY <1>4, <3>1, <3>2
      <4>2. MatchesFile(g)
        BY <2>1, <4>1 DEF Settles
      <4> QED
        BY <1>6, <2>1, <3>2, <4>2 DEF MatchesFile
    <3>3. CASE g = f
      <4>1. LastEvent(s, 1, f)
        BY <1>4, <1>5, <3>1, <3>3 DEF LastEvent
      <4>2. Fits(op, content[f])
        BY <1>4, <1>5, <2>1, <3>3, <4>1 DEF Settles
      <4>3. CASE op \in {"create", "write"} /\ HandleWrite(f)
        <5>1. content[f] # Missing
          BY <4>2, <4>3 DEF Fits
        <5> QED
          BY <1>1, <1>4, <3>3, <4>3, <5>1, WriteMatches
      <4>4. CASE op = "remove" /\ HandleRemove(f)
        <5>1. content[f] = Missing
          BY <4>2, <4>4 DEF Fits
        <5>2. state'[f] = NoManifest
          BY <1>4, <4>4, RemoveHandled, HandledOthers DEF TypeInv
        <5> QED
          BY <2>1, <3>3, <5>1, <5>2 DEF MatchesFile
      <4>5. op # "rename"
        BY <4>2 DEF Fits
      <4> QED
        BY <1>1, <4>3, <4>4, <4>5
    <3> QED
      BY <3>2, <3>3
  <2> QED
    BY <1>1, <2>2, <2>3 DEF Settles
<1> QED
  BY <1>1, <1>7 DEF MatchInv

LEMMA MatchStep == TypeInv /\ MatchInv /\ [Next]_vars => MatchInv'
<1> SUFFICES ASSUME TypeInv, MatchInv, [Next]_vars PROVE MatchInv'
  OBVIOUS
<1>1. CASE ListFiles
  <2>1. /\ run = "list" /\ run' = "read" /\ UNCHANGED <<content, notified, missed, state>>
        /\ todo' = {f \in Files : content[f] # Missing}
    BY <1>1 DEF ListFiles, fsVars, stateVars
  <2> QED
    BY <2>1 DEF MatchInv, MatchesFile, TypeInv, FileType
<1>2. CASE ReadFile
  <2>1. PICK f \in todo : HandleWrite(f) /\ todo' = todo \ {f}
    BY <1>2 DEF ReadFile
  <2>2. f \in Files /\ run = "read" /\ UNCHANGED <<content, notified, missed, run>>
    BY <1>2 DEF ReadFile, fsVars, TypeInv, FileType
  <2>3. state[f] = NoManifest
    BY <2>2 DEF MatchInv
  <2>4. /\ MatchesFile(f)'
        /\ \A g \in Files \ {f} : state'[g] = state[g]
    BY <2>1, <2>2, <2>3, WriteMatches
  <2>5. \A g \in Files \ {f} : MatchesFile(g) => MatchesFile(g)'
    BY <2>2, <2>4 DEF MatchesFile
  <2>6. \A g \in todo' : state'[g] = NoManifest
    BY <2>1, <2>2, <2>4 DEF MatchInv, TypeInv, FileType
  <2>7. \A g \in Files \ (todo' \cup missed') : MatchesFile(g)'
    BY <2>1, <2>2, <2>4, <2>5 DEF MatchInv
  <2> QED
    BY <2>2, <2>6, <2>7 DEF MatchInv
<1>3. CASE AddWatch
  <2>1. /\ run = "read" /\ todo = {} /\ run' = "select"
        /\ UNCHANGED <<content, notified, missed, state>>
    BY <1>3 DEF AddWatch, fsVars, stateVars
  <2>2. notified = <<>> /\ Len(notified) = 0
    BY <2>1 DEF MatchInv
  <2>3. \A f \in Files \ missed : MatchesFile(f)'
    BY <2>1 DEF MatchInv, MatchesFile
  <2>4. \A f \in Files \ missed' : Settles(f)'
    BY <2>1, <2>2, <2>3 DEF Settles
  <2> QED
    BY <2>1, <2>4 DEF MatchInv
<1>4. CASE StartFails \/ RunStop \/ PanicOnClosed
  BY <1>4 DEF StartFails, RunStop, PanicOnClosed, MatchInv
<1>5. CASE TakeBatch \/ UNCHANGED vars
  <2>1. UNCHANGED <<content, notified, missed, run, todo, state>>
    BY <1>5 DEF TakeBatch, vars, fsVars, stateVars
  <2> QED
    BY <2>1 DEF MatchInv, Settles, MatchesFile
<1> QED
  BY <1>1, <1>2, <1>3, <1>4, <1>5, FilesMatch, EventMatches DEF Next

\* Although what is read is not what was reported (handleFileEvent reads the file when
\* Run gets to its event), the last states have what the files hold once no event waits:
\* for any files and contents and any changes in between.
THEOREM StatesMatch == Spec => []StateMatchesFiles
<1>1. MatchInv => StateMatchesFiles
  <2> SUFFICES ASSUME MatchInv, run = "select", notified = <<>>, NEW f \in Files \ missed
               PROVE  MatchesFile(f)
    BY DEF StateMatchesFiles, MatchesFile
  <2>1. Len(notified) = 0
    OBVIOUS
  <2> QED
    BY <2>1 DEF MatchInv, Settles
<1> QED
  BY <1>1, MatchInit, MatchStep, TypeAlways, PTL DEF Spec
=============================================================================
