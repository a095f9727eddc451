------------------------------ MODULE Manifest ------------------------------
(***************************************************************************)
(* The difference between two states of the world, as both xDS             *)
(* provisioners compute it (pkg/apisix, pkg/provisioner/util).  A slice of *)
(* objects is a sequence of records with an id and a val; nil and the      *)
(* empty slice are told apart nowhere.                                     *)
(***************************************************************************)
EXTENDS Integers, Sequences, SequencesExt, Slices

\* The value of an id that is not there.
NoObject == [gone |-> TRUE]

Ids(objs) == {objs[i].id : i \in DOMAIN objs}

\* Mutant: of several objects with one id the first one counts.
Lookup_First(objs, id) ==
    objs[CHOOSE i \in DOMAIN objs :
            objs[i].id = id /\ \A j \in DOMAIN objs : objs[j].id = id => i <= j]

\* r1Map, r2Map: of several objects with one id the last one counts.
Lookup(objs, id) ==
    LET last == CHOOSE i \in DOMAIN objs :
                  objs[i].id = id /\ \A j \in DOMAIN objs : objs[j].id = id => j <= i
    IN  objs[last]

\* CompareRoutes and CompareUpstreams: the objects of s2 whose id is new, those of
\* s1 whose id is gone, and for those of s1 that differ the object of s2.
Compare(s1, s2) ==
    LET new == {o \in ToSet(s2) : o.id \notin Ids(s1)}
        gone == {o \in ToSet(s1) : o.id \notin Ids(s2)}
        differ == {o \in ToSet(s1) : o.id \in Ids(s2) /\ Lookup(s2, o.id) # o}
        changed == Keep(s1, differ)
    IN  [added   |-> Keep(s2, new),
         deleted |-> Keep(s1, gone),
         updated |-> [i \in DOMAIN changed |-> Lookup(s2, changed[i].id)]]

CompareRoutes(r1, r2) == Compare(r1, r2)
CompareUpstreams(u1, u2) == Compare(u1, u2)

\* DiffFrom: a manifest is a record of routes and upstreams.
DiffFrom(m, m2) ==
    LET r == CompareRoutes(m.routes, m2.routes)
        u == CompareUpstreams(m.upstreams, m2.upstreams)
    IN  [added   |-> [routes |-> r.added,   upstreams |-> u.added],
         deleted |-> [routes |-> r.deleted, upstreams |-> u.deleted],
         updated |-> [routes |-> r.updated, upstreams |-> u.updated]]

\* Manifest.Events: one event per object, the routes first.
Events(m, evType) ==
    LET objs == m.routes \o m.upstreams
    IN  [i \in DOMAIN objs |-> [type |-> evType, id |-> objs[i].id, val |-> objs[i].val]]

\* Mutant: every object of the new state is sent again.
GenerateEvents_Resend(m, o) ==
    LET diff == DiffFrom(o, m)
    IN  Events(m, "update") \o Events(diff.deleted, "delete")

\* generateEvents of the provisioners: the events that lead from o to m.
GenerateEvents(m, o) ==
    LET diff == DiffFrom(o, m)
    IN  Events(diff.added, "add") \o Events(diff.deleted, "delete")
            \o Events(diff.updated, "update")

\* What an event leaves of its object.
Outcome(ev) == IF ev.type = "delete" THEN NoObject ELSE ev.val

\* What reflectToCache makes of a batch of events.
ApplyEvents(memory, evs) ==
    LET mem[i \in 0..Len(evs)] ==
            IF i = 0 THEN memory
            ELSE [mem[i - 1] EXCEPT ![evs[i].id] = Outcome(evs[i])]
    IN  mem[Len(evs)]
=============================================================================
