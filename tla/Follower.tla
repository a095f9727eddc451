------------------------------ MODULE Follower ------------------------------
(***************************************************************************)
(* A provisioner that moves between any states of the world, and a memory  *)
(* that applies the events of each difference, as reflectToCache does:     *)
(* what differences are for, whatever the states are.                      *)
(***************************************************************************)
EXTENDS Manifest

CONSTANT Worlds     \* the states of the world: manifests of routes and upstreams

NoWorld == [routes |-> <<>>, upstreams |-> <<>>]

WorldObjects == UNION {ToSet(w.routes) \cup ToSet(w.upstreams) : w \in Worlds}

AllIds == {o.id : o \in WorldObjects}

\* An id occurs under one kind only, as the kind is a part of every key.
ASSUME FollowerAssumption ==
    /\ NoWorld \in Worlds
    /\ \A w \in Worlds : w.routes \in Seq(WorldObjects) /\ w.upstreams \in Seq(WorldObjects)
    /\ \A o \in WorldObjects : o = [id |-> o.id, val |-> o.val] /\ o.val # NoObject
    /\ \A v, w \in Worlds : Ids(v.routes) \cap Ids(w.upstreams) = {}

VARIABLES
    current,    \* the last state of the world
    memory      \* what the events have made of an empty memory

followed == <<current, memory>>

\* What a memory should hold: the last object of each id.
MemoryOf(world) ==
    LET objs == world.routes \o world.upstreams
        at(id) == {i \in DOMAIN objs : objs[i].id = id}
    IN  [id \in AllIds |->
            IF at(id) = {} THEN NoObject
            ELSE objs[CHOOSE i \in at(id) : \A j \in at(id) : j <= i].val]

FollowInit ==
    /\ current = NoWorld
    /\ memory = [id \in AllIds |-> NoObject]

\* The provisioner generates the events, the sidecar applies them.
Replace(world) ==
    /\ memory' = ApplyEvents(memory, GenerateEvents(world, current))
    /\ current' = world

FollowNext == \E world \in Worlds : Replace(world)

FollowSpec == FollowInit /\ [][FollowNext]_followed
-----------------------------------------------------------------------------
(* Properties.                                                             *)

\* The world names each id once.
NoDuplicates(world) ==
    /\ \A i, j \in DOMAIN world.routes :
        world.routes[i].id = world.routes[j].id => i = j
    /\ \A i, j \in DOMAIN world.upstreams :
        world.upstreams[i].id = world.upstreams[j].id => i = j

\* Applying the events of each difference keeps the memory equal to the last state
\* of the world, whatever the two states are (pkg/provisioner/util/manifest.go).
MemoryFollows == memory = MemoryOf(current)

\* Nothing is sent twice: between states that name each id once, every event of a
\* difference is about another object and changes it.
EventsChange ==
    [][NoDuplicates(current) /\ NoDuplicates(current') =>
        LET evs == GenerateEvents(current', current)
        IN  \A i \in DOMAIN evs :
                /\ memory[evs[i].id] # memory'[evs[i].id]
                /\ \A j \in DOMAIN evs : evs[i].id = evs[j].id => i = j
      ]_followed
=============================================================================
