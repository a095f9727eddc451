---------------------------- MODULE WatchProofs ----------------------------
(***************************************************************************)
(* Proofs about module Watch, for every set of keys, Range handlers,       *)
(* streams and watch ids and every bound: the watch half leaves what       *)
(* SidecarProofs shows of the key-value half alone, and no update and no   *)
(* deletion is lost on its way to a client (WatchComplete).                *)
(***************************************************************************)
EXTENDS Watch, SidecarProofs
-----------------------------------------------------------------------------
(***************************************************************************)
(* The inductive invariant, relative to WatchTypeOK and to MetaInv of      *)
(* module Sidecar.                                                         *)
(***************************************************************************)

\* The events of the batch that the cache shows and whose pushers are not started.
Fanned(i) == pc \in {"load", "store", "fanout"} /\ i < at
Unfanned == {i \in DOMAIN events : Reflected(i) /\ ~Fanned(i)}
UnfannedKeys == {events[i].key : i \in Unfanned}

\* The revision the next event will get, as a reader of the cache sees it.
NextRevision == IF pc = "bump" THEN revision + 1 ELSE revision

\* The note of key k is on its way to the client of s, for watch w: in a pusher, in
\* the handler Watch, or in the answer of firstWatch.
Flies(s, w, k, note) ==
    \/ \E p \in pushers : /\ p.stream = s /\ p.kind = w.kind /\ w.id \in p.ids
                          /\ p.told = [key |-> k, note |-> note]
    \/ [entry |-> w, told |-> [key |-> k, note |-> note]] \in resp[s]
    \/ req[s].entry = w /\ [key |-> k, note |-> note] \in evs[s]

Known(s, w, k, note) == Flies(s, w, k, note) \/ note = newest[s][w][k]

\* The cache shows, of each key, the last event of the batch reflected so far, and
\* no put of the batch that is newer.
BatchCached ==
    \A i \in DOMAIN events : Reflected(i) =>
        LET rev == IF Numbered(i) THEN events[i].rev ELSE revision
            k == events[i].key
        IN  /\ cache[k] # Absent => rev <= cache[k]
            /\ (\A j \in DOMAIN events : Reflected(j) /\ i < j => events[j].key # k) =>
                  cache[k] = IF events[i].type = "delete" THEN Absent ELSE rev

\* Between the update of metaCache and the fan-out of an event the metadata of its
\* key is that of the event.
MetaBeforeFanout ==
    pc = "fanout" /\ events[at].key \notin filled =>
        IF events[at].type = "delete" THEN metaCache[events[at].key] = NoMeta
        ELSE metaCache[events[at].key].mod = events[at].rev

KVInv ==
    /\ BatchCached
    /\ MetaBeforeFanout
    /\ \A k \in Key : cache[k] < NextRevision
    /\ filled \subseteq spoiled

\* The goroutines of a stream: Watch holds a response only while it sends it, and a
\* stream it serves is registered; onWire has listed objects and events only while
\* it composes, at most one event per key, and for the watch it creates.
StreamInv(s) ==
    /\ loop[s] = "new" => wire[s] = "new" /\ watching[s] = {}
    /\ loop[s] \in {"select", "send"} => s \in watchers
    /\ loop[s] # "send" => resp[s] = {}
    /\ \A r, q \in resp[s] : r = q
    /\ wire[s] # "compose" => evs[s] = {} /\ \A k \in Key : list[s][k] = Absent
    /\ \A t, u \in evs[s] : t.key = u.key => t = u
    /\ \A t \in evs[s] : list[s][t.key] = Absent
    /\ wire[s] \in {"list", "compose"} =>
          /\ req[s].entry \in watching[s]
          /\ from[s][req[s].entry] = req[s].start

\* What is on its way was meant for a watch that was created.
FlownByWatches(s) ==
    \A w \in WatchEntry : \A k \in Key : \A note \in Note :
        Flies(s, w, k, note) => w \in watching[s] \cup retired[s]

\* No client is told, and no listed object is, an object newer than the cached one.
Old(k, v) == v < NextRevision /\ (cache[k] # Absent => v <= cache[k])

ObjectsBound(s) ==
    \A k \in Key :
        /\ Old(k, list[s][k])
        /\ \A w \in WatchEntry :
              /\ Old(k, latest[s][w][k])
              /\ \A note \in Note : Flies(s, w, k, note) => Old(k, note.val)

\* The mod revision of a note is that of no later event than the one that is fanned
\* out next, and is older than a deletion that is yet to be fanned out.
OldMod(k, mod) ==
    /\ mod < revision
    /\ \A i \in Unfanned : Numbered(i) /\ events[i].key = k =>
          /\ mod <= events[i].rev
          /\ events[i].type = "delete" => mod < events[i].rev

ModsBound(s) ==
    \A w \in WatchEntry : \A k \in Key \ spoiled : \A note \in Note \cup {NoNote} :
        Known(s, w, k, note) => OldMod(k, note.mod)

\* The client of s is there and Watch serves it.
Live(s) == loop[s] \in {"select", "send"} /\ ~ctxDone[s]

\* A cached object the client asked for was told, is on its way, or will be listed.
PutReaches(s, w, k) ==
    \/ latest[s][w][k] = cache[k]
    \/ \E note \in Note : Flies(s, w, k, note) /\ note.val = cache[k]
    \/ req[s].entry = w /\ wire[s] = "list"
    \/ req[s].entry = w /\ wire[s] = "compose" /\ list[s][k] = cache[k]

PutsReach(s) ==
    Live(s) =>
        \A w \in watching[s] \ retired[s] :
            \A k \in KeysOf(w.kind) \ (spoiled \cup UnfannedKeys) :
                cache[k] >= from[s][w] => PutReaches(s, w, k)

\* If the object of a key is gone, whatever the client was told of it or is about to
\* be told is outdated by a newer note of a deletion.
Outdated(s, w, k, note) ==
    \E gone \in Note : Known(s, w, k, gone) /\ gone.val = Absent /\ gone.mod > note.mod

DeletesReach(s) ==
    Live(s) =>
        \A w \in watching[s] \ retired[s] :
            \A k \in KeysOf(w.kind) \ (spoiled \cup UnfannedKeys) :
                cache[k] = Absent =>
                    \A note \in Note :
                        Known(s, w, k, note) /\ note.val # Absent => Outdated(s, w, k, note)

ClientInv(s) ==
    /\ StreamInv(s)
    /\ FlownByWatches(s)
    /\ ObjectsBound(s)
    /\ ModsBound(s)
    /\ PutsReach(s)
    /\ DeletesReach(s)

WatchInv == KVInv /\ \A s \in Streams : ClientInv(s)
-----------------------------------------------------------------------------
(***************************************************************************)
(* The key-value half under the watch half.                                *)
(***************************************************************************)

\* The sidecar goroutine and the Range handlers do with watch streams what they do
\* without: every property SidecarProofs shows of Spec holds of WatchSpec as well.
THEOREM WatchKeepsSidecar == WatchSpec => Spec
<1>1. WatchInit => Init
  BY DEF WatchInit
<1>2. ASSUME [WatchNext]_allVars PROVE [Next]_vars
  <2>1. CASE UNCHANGED allVars
    BY <2>1 DEF allVars
  <2>2. CASE WatchNext
    BY <2>2 DEF WatchNext, KVStep, PushFanout, StreamStep, Next, SidecarStep
  <2> QED
    BY <1>2, <2>1, <2>2
<1> QED
  BY <1>1, <1>2, PTL DEF WatchSpec, Spec

LEMMA WatchKV == WatchSpec => [](TypeOK /\ MetaInv)
BY WatchKeepsSidecar, TypeCorrect, MetaInvariant, PTL
-----------------------------------------------------------------------------
(***************************************************************************)
(* Type correctness.                                                       *)
(***************************************************************************)

\* What a client is told: on watch w of stream s only, and key by key the newer of
\* what it was told before and the one note it is told now.
LEMMA TellEffect ==
    ASSUME WatchTypeOK, NEW s \in Streams, NEW w \in WatchEntry,
           NEW told \in SUBSET Told, \A t, u \in told : t.key = u.key => t = u,
           Tell(s, w, told)
    PROVE  /\ latest' \in [Streams -> [WatchEntry -> [Key -> Nat \cup {Absent}]]]
           /\ newest' \in [Streams -> [WatchEntry -> [Key -> Note \cup {NoNote}]]]
           /\ UNCHANGED <<from, retired>>
           /\ \A r \in Streams : \A v \in WatchEntry : r # s \/ v # w =>
                latest'[r][v] = latest[r][v] /\ newest'[r][v] = newest[r][v]
           /\ \A k \in Key : (\A t \in told : t.key # k) =>
                /\ latest'[s][w][k] = latest[s][w][k]
                /\ newest'[s][w][k] = newest[s][w][k]
           /\ \A t \in told :
                /\ latest'[s][w][t.key] = IF t.note.val > latest[s][w][t.key]
                                          THEN t.note.val ELSE latest[s][w][t.key]
                /\ newest'[s][w][t.key] = IF t.note.mod >= newest[s][w][t.key].mod
                                          THEN t.note ELSE newest[s][w][t.key]
<1> DEFINE noteOf(k) == (CHOOSE t \in told : t.key = k).note
           lat == [k \in Key |-> IF \E t \in told : t.key = k /\ t.note.val > latest[s][w][k]
                                 THEN noteOf(k).val ELSE latest[s][w][k]]
           new == [k \in Key |-> IF \E t \in told : /\ t.key = k
                                                    /\ t.note.mod >= newest[s][w][t.key].mod
                                 THEN noteOf(k) ELSE newest[s][w][k]]
<1>1. \A t \in told : noteOf(t.key) = t.note
  OBVIOUS
<1>2. \A t \in told : t.key \in Key /\ t.note \in Note /\ t.note.val \in Nat \cup {Absent}
  BY DEF Told, Note
<1>3. /\ latest[s][w] \in [Key -> Nat \cup {Absent}]
      /\ newest[s][w] \in [Key -> Note \cup {NoNote}]
  BY DEF WatchTypeOK
<1>4. /\ latest' = [latest EXCEPT ![s] = [latest[s] EXCEPT ![w] = lat]]
      /\ newest' = [newest EXCEPT ![s] = [newest[s] EXCEPT ![w] = new]]
      /\ UNCHANGED <<from, retired>>
  <2>1. latest' = [latest EXCEPT ![s][w] = lat]
    BY DEF Tell
  <2>2. newest' = [newest EXCEPT ![s][w] = new]
    BY DEF Tell
  <2>3. UNCHANGED <<from, retired>>
    BY DEF Tell
  <2> HIDE DEF lat, new
  <2> QED
    BY <2>1, <2>2, <2>3
<1>5. lat \in [Key -> Nat \cup {Absent}]
  BY <1>1, <1>2, <1>3
<1>6. new \in [Key -> Note \cup {NoNote}]
  BY <1>1, <1>2, <1>3
<1> HIDE DEF lat, new
<1>7. /\ [latest[s] EXCEPT ![w] = lat] \in [WatchEntry -> [Key -> Nat \cup {Absent}]]
      /\ [newest[s] EXCEPT ![w] = new] \in [WatchEntry -> [Key -> Note \cup {NoNote}]]
  BY <1>5, <1>6 DEF WatchTypeOK
<1>8. /\ latest' \in [Streams -> [WatchEntry -> [Key -> Nat \cup {Absent}]]]
      /\ newest' \in [Streams -> [WatchEntry -> [Key -> Note \cup {NoNote}]]]
  BY <1>4, <1>7 DEF WatchTypeOK
<1>9. /\ latest'[s][w] = lat /\ newest'[s][w] = new
      /\ \A r \in Streams : \A v \in WatchEntry : r # s \/ v # w =>
           latest'[r][v] = latest[r][v] /\ newest'[r][v] = newest[r][v]
  BY <1>4 DEF WatchTypeOK
<1>10. \A k \in Key : (\A t \in told : t.key # k) =>
          lat[k] = latest[s][w][k] /\ new[k] = newest[s][w][k]
  BY DEF lat, new
<1>11. \A t \in told :
          /\ lat[t.key] = IF t.note.val > latest[s][w][t.key]
                          THEN t.note.val ELSE latest[s][w][t.key]
          /\ new[t.key] = IF t.note.mod >= newest[s][w][t.key].mod
                          THEN t.note ELSE newest[s][w][t.key]
  BY <1>1, <1>2 DEF lat, new
<1> QED
  BY <1>4, <1>8, <1>9, <1>10, <1>11

LEMMA WatchInitType == WatchInit => WatchTypeOK
<1> SUFFICES ASSUME WatchInit PROVE WatchTypeOK
  OBVIOUS
<1>1. TypeOK
  BY InitType DEF WatchInit
<1>2. crashed \in BOOLEAN /\ errCh \in [Streams -> BOOLEAN] /\ ctxDone \in [Streams -> BOOLEAN]
  BY DEF WatchInit
<1>3. requests \in [Streams -> 0..MaxRequests]
  BY WatchAssumption DEF WatchInit
<1>4. /\ latest \in [Streams -> [WatchEntry -> [Key -> Nat \cup {Absent}]]]
      /\ newest \in [Streams -> [WatchEntry -> [Key -> Note \cup {NoNote}]]]
      /\ list \in [Streams -> [Key -> Nat \cup {Absent}]]
      /\ from \in [Streams -> [WatchEntry -> Nat]]
  BY DEF WatchInit
<1> QED
  BY <1>1, <1>2, <1>3, <1>4 DEF WatchInit, WatchTypeOK

\* The pushers an event starts.
LEMMA PushersType ==
    ASSUME WatchTypeOK, NEW ev \in Event
    PROVE  PushersOf(ev) \in SUBSET Pusher
<1> DEFINE kind == IF ev.key \in Routes THEN "route" ELSE "upstream"
           ids(s) == {w.id : w \in {v \in watching[s] : v.kind = kind}}
<1>1. ToldBy(ev) \in Told
  BY DEF ToldBy, Told, Note, Event
<1>2. \A s \in Streams : ids(s) \in SUBSET WatchIds
  BY DEF WatchTypeOK, WatchEntry
<1>3. kind \in Kind
  BY DEF Kind
<1>4. \A t \in watchers : t \in Streams
  BY DEF WatchTypeOK
<1> HIDE DEF kind
<1>5. \A s \in watchers :
        [stream |-> s, kind |-> kind, ids |-> ids(s), told |-> ToldBy(ev)] \in Pusher
  BY <1>1, <1>2, <1>3, <1>4 DEF Pusher
<1>6. PushersOf(ev) = {[stream |-> s, kind |-> kind, ids |-> ids(s), told |-> ToldBy(ev)] :
                         s \in {t \in watchers : ids(t) # {}}}
  BY DEF PushersOf, kind
<1> QED
  BY <1>5, <1>6

\* The steps of the handler Watch, and of its client, preserve the types.
LEMMA HandlerType ==
    ASSUME WatchTypeOK, NEW s \in Streams, HandlerStep(s) \/ ClientGone(s),
           UNCHANGED vars, spoiled' = spoiled
    PROVE  WatchTypeOK'
<1> USE DEF handlerVars, wireVars, pusherVars
<1>1. TypeOK'
  BY DEF WatchTypeOK, vars, sidecarVars, rangeVars, TypeOK
<1>2. CASE Open(s) \/ LeaveLoop(s) \/ CloseEventCh(s) \/ Unregister(s)
  BY <1>1, <1>2 DEF Open, LeaveLoop, CloseEventCh, Unregister, historyVars, WatchTypeOK
<1>3. CASE Cancel(s) \/ ClientGone(s)
  <2>1. ctxDone' \in [Streams -> BOOLEAN]
    BY <1>3 DEF Cancel, ClientGone, WatchTypeOK
  <2> QED
    BY <1>1, <1>3, <2>1 DEF Cancel, ClientGone, historyVars, WatchTypeOK
<1>4. CASE SendResp(s)
  <2>1. /\ latest' \in [Streams -> [WatchEntry -> [Key -> Nat \cup {Absent}]]]
        /\ newest' \in [Streams -> [WatchEntry -> [Key -> Note \cup {NoNote}]]]
        /\ UNCHANGED <<from, retired>>
    <3>1. CASE UNCHANGED historyVars
      BY <3>1 DEF historyVars, WatchTypeOK
    <3>2. CASE \E r \in resp[s] : Tell(s, r.entry, {r.told})
      <4>1. PICK r \in resp[s] : Tell(s, r.entry, {r.told})
        BY <3>2
      <4>2. r.entry \in WatchEntry /\ {r.told} \in SUBSET Told
        BY DEF WatchTypeOK
      <4> QED
        BY <4>1, <4>2, TellEffect
    <3> QED
      BY <1>4, <3>1, <3>2 DEF SendResp
  <2>2. /\ loop' \in [Streams -> {"new", "select", "send", "close", "unregister",
                                  "cancel", "done"}]
        /\ resp' \in [Streams -> SUBSET [entry : WatchEntry, told : Told]]
    BY <1>4 DEF SendResp, WatchTypeOK
  <2> QED
    BY <1>1, <1>4, <2>1, <2>2 DEF SendResp, WatchTypeOK
<1> QED
  BY <1>2, <1>3, <1>4 DEF HandlerStep

\* The steps of a pusher preserve the types.
LEMMA PusherType ==
    ASSUME WatchTypeOK, NEW p \in pushers, PusherStep(p), UNCHANGED vars, spoiled' = spoiled
    PROVE  WatchTypeOK'
<1> USE DEF handlerVars, wireVars, pusherVars, historyVars
<1>1. TypeOK'
  BY DEF WatchTypeOK, vars, sidecarVars, rangeVars, TypeOK
<1>2. p \in Pusher
  BY DEF WatchTypeOK
<1>3. CASE Deliver(p)
  <2>1. PICK id \in p.ids :
          /\ resp' = [resp EXCEPT ![p.stream] =
               {[entry |-> [kind |-> p.kind, id |-> id], told |-> p.told]}]
          /\ pushers' = (pushers \ {p}) \cup
               (IF p.ids = {id} THEN {} ELSE {[p EXCEPT !.ids = @ \ {id}]})
    BY <1>3 DEF Deliver
  <2>2. [p EXCEPT !.ids = @ \ {id}] \in Pusher
    BY <1>2 DEF Pusher
  <2>3. [entry |-> [kind |-> p.kind, id |-> id], told |-> p.told]
          \in [entry : WatchEntry, told : Told]
    BY <1>2 DEF Pusher, WatchEntry
  <2>4. /\ pushers' \in SUBSET Pusher
        /\ resp' \in [Streams -> SUBSET [entry : WatchEntry, told : Told]]
    BY <2>1, <2>2, <2>3 DEF WatchTypeOK
  <2> QED
    BY <1>1, <1>3, <2>4 DEF Deliver, WatchTypeOK
<1>4. CASE PushAbort(p)
  BY <1>1, <1>4 DEF PushAbort, WatchTypeOK
<1>5. CASE PushPanic(p)
  <2>1. crashed' \in BOOLEAN
    BY <1>5 DEF PushPanic
  <2> QED
    BY <1>1, <1>5, <2>1 DEF PushPanic, WatchTypeOK
<1> QED
  BY <1>3, <1>4, <1>5 DEF PusherStep

\* The steps of onWire preserve the types.
LEMMA WireType ==
    ASSUME WatchTypeOK, NEW s \in Streams, StreamInv(s), WireStep(s),
           UNCHANGED vars, spoiled' = spoiled
    PROVE  WatchTypeOK'
<1> USE DEF handlerVars, pusherVars
<1>1. TypeOK'
  BY DEF WatchTypeOK, vars, sidecarVars, rangeVars, TypeOK
<1>2. ASSUME Receive(s) PROVE requests' \in [Streams -> 0..MaxRequests]
  BY <1>2, WatchAssumption DEF Receive, WatchTypeOK
<1>3. ASSUME NEW err \in BOOLEAN, EndWire(s, err)
      PROVE  /\ wire' \in [Streams -> {"new", "recv", "list", "compose", "send", "ended"}]
             /\ errCh' \in [Streams -> BOOLEAN]
  BY <1>3 DEF EndWire, WatchTypeOK
<1>4. CASE RecvCreate(s)
  <2>1. requests' \in [Streams -> 0..MaxRequests]
    BY <1>2, <1>4 DEF RecvCreate
  <2>2. PICK w \in WatchEntry, start \in 0..MaxRevision :
        \/ /\ EndWire(s, TRUE)
           /\ UNCHANGED <<watching, req, historyVars>>
        \/ /\ watching' = [watching EXCEPT ![s] = @ \cup {w}]
           /\ req' = [req EXCEPT ![s] = [entry |-> w, start |-> start]]
           /\ wire' = [wire EXCEPT ![s] = IF start = 0 THEN "send" ELSE "list"]
           /\ from' = [from EXCEPT ![s][w] = IF start = 0 THEN revision ELSE start]
           /\ latest' = [latest EXCEPT ![s][w] = [k \in Key |-> Absent]]
           /\ newest' = [newest EXCEPT ![s][w] = [k \in Key |-> NoNote]]
           /\ UNCHANGED <<errCh, retired>>
    BY <1>4 DEF RecvCreate
  <2>3. UNCHANGED <<handlerVars, list, evs, ctxDone, pusherVars>>
    BY <1>4 DEF RecvCreate
  <2>4. CASE EndWire(s, TRUE) /\ UNCHANGED <<watching, req, historyVars>>
    BY <1>1, <1>3, <2>1, <2>3, <2>4 DEF historyVars, WatchTypeOK
  <2>5. CASE ~(EndWire(s, TRUE) /\ UNCHANGED <<watching, req, historyVars>>)
    <3>1. start \in Nat /\ revision \in Nat
      BY SidecarAssumption DEF WatchTypeOK, TypeOK
    <3>2. /\ watching' \in [Streams -> SUBSET WatchEntry]
          /\ wire' \in [Streams -> {"new", "recv", "list", "compose", "send", "ended"}]
          /\ UNCHANGED <<errCh, retired>>
      <4>1. watching' = [watching EXCEPT ![s] = @ \cup {w}]
        BY <2>2, <2>5
      <4>2. wire' = [wire EXCEPT ![s] = IF start = 0 THEN "send" ELSE "list"]
        BY <2>2, <2>5
      <4>3. UNCHANGED <<errCh, retired>>
        BY <2>2, <2>5
      <4>4. watching' \in [Streams -> SUBSET WatchEntry]
        BY <4>1 DEF WatchTypeOK
      <4>5. wire' \in [Streams -> {"new", "recv", "list", "compose", "send", "ended"}]
        BY <4>2 DEF WatchTypeOK
      <4> QED
        BY <4>3, <4>4, <4>5
    <3>3. req' \in [Streams -> Request \cup {NoRequest}]
      <4>1. req' = [req EXCEPT ![s] = [entry |-> w, start |-> start]]
        BY <2>2, <2>5
      <4>2. [entry |-> w, start |-> start] \in Request
        BY <3>1 DEF Request
      <4> QED
        BY <4>1, <4>2 DEF WatchTypeOK
    <3>4. /\ [from[s] EXCEPT ![w] = IF start = 0 THEN revision ELSE start]
                \in [WatchEntry -> Nat]
          /\ [latest[s] EXCEPT ![w] = [k \in Key |-> Absent]]
                \in [WatchEntry -> [Key -> Nat \cup {Absent}]]
          /\ [newest[s] EXCEPT ![w] = [k \in Key |-> NoNote]]
                \in [WatchEntry -> [Key -> Note \cup {NoNote}]]
      BY <3>1 DEF WatchTypeOK
    <3>5. from' \in [Streams -> [WatchEntry -> Nat]]
      <4>1. from' = [from EXCEPT ![s] = [from[s] EXCEPT ![w] = IF start = 0 THEN revision ELSE start]]
        BY <2>2, <2>5
      <4>2. from \in [Streams -> [WatchEntry -> Nat]]
        BY DEF WatchTypeOK
      <4> QED
        BY <3>4, <4>1, <4>2
    <3>6. latest' \in [Streams -> [WatchEntry -> [Key -> Nat \cup {Absent}]]]
      <4>1. latest' = [latest EXCEPT ![s] = [latest[s] EXCEPT ![w] = [k \in Key |-> Absent]]]
        BY <2>2, <2>5
      <4>2. latest \in [Streams -> [WatchEntry -> [Key -> Nat \cup {Absent}]]]
        BY DEF WatchTypeOK
      <4> QED
        BY <3>4, <4>1, <4>2
    <3>7. newest' \in [Streams -> [WatchEntry -> [Key -> Note \cup {NoNote}]]]
      <4>1. newest' = [newest EXCEPT ![s] = [newest[s] EXCEPT ![w] = [k \in Key |-> NoNote]]]
        BY <2>2, <2>5
      <4>2. newest \in [Streams -> [WatchEntry -> [Key -> Note \cup {NoNote}]]]
        BY DEF WatchTypeOK
      <4> QED
        BY <3>4, <4>1, <4>2
    <3> QED
      BY <1>1, <2>1, <2>3, <3>2, <3>3, <3>5, <3>6, <3>7 DEF WatchTypeOK
  <2> QED
    BY <2>4, <2>5
<1>5. CASE RecvCancel(s)
  <2>1. requests' \in [Streams -> 0..MaxRequests]
    BY <1>2, <1>5 DEF RecvCancel
  <2>2. PICK id \in WatchIds : CancelWatch(s, id)
    BY <1>5 DEF RecvCancel
  <2>3. /\ [kind |-> "route", id |-> id] \in WatchEntry
        /\ [kind |-> "upstream", id |-> id] \in WatchEntry
    BY DEF WatchEntry, Kind
  <2>4. /\ watching' \in [Streams -> SUBSET WatchEntry]
        /\ retired' \in [Streams -> SUBSET WatchEntry]
        /\ wire' \in [Streams -> {"new", "recv", "list", "compose", "send", "ended"}]
    <3>1. CASE EndWire(s, TRUE) /\ UNCHANGED <<watching, retired>>
      BY <1>3, <3>1 DEF WatchTypeOK
    <3>2. CASE \E kind \in Kind :
             /\ watching' = [watching EXCEPT ![s] = @ \ {[kind |-> kind, id |-> id]}]
             /\ retired' = [retired EXCEPT ![s] = @ \cup {[kind |-> kind, id |-> id]}]
             /\ wire' = [wire EXCEPT ![s] = "send"]
      BY <2>3, <3>2 DEF WatchTypeOK, Kind
    <3> QED
      BY <2>2, <3>1, <3>2 DEF CancelWatch, Kind
  <2>5. errCh' \in [Streams -> BOOLEAN]
    BY <1>3, <2>2 DEF CancelWatch, WatchTypeOK
  <2> QED
    BY <1>1, <1>5, <2>1, <2>4, <2>5 DEF RecvCancel, WatchTypeOK
<1>6. CASE RecvRefused(s)
  BY <1>1, <1>2, <1>3, <1>6 DEF RecvRefused, historyVars, WatchTypeOK
<1>7. CASE RecvFails(s)
  BY <1>1, <1>3, <1>7 DEF RecvFails, historyVars, WatchTypeOK
<1>8. CASE FirstWatchList(s)
  <2>1. list' \in [Streams -> [Key -> Nat \cup {Absent}]]
    BY <1>8 DEF FirstWatchList, WatchTypeOK, TypeOK
  <2> QED
    BY <1>1, <1>8, <2>1 DEF FirstWatchList, historyVars, WatchTypeOK
<1>9. CASE FirstWatchMeta(s)
  <2>1. PICK k \in Key :
          /\ list[s][k] # Absent
          /\ list' = [list EXCEPT ![s][k] = Absent]
          /\ evs' = [evs EXCEPT ![s] = @ \cup
               {[key |-> k, note |-> [val |-> list[s][k], mod |-> meta.mod]] :
                  meta \in {mt \in {metaCache[k]} :
                              mt # NoMeta /\ mt.mod >= req[s].start}}]
    BY <1>9 DEF FirstWatchMeta
  <2>2. [list[s] EXCEPT ![k] = Absent] \in [Key -> Nat \cup {Absent}]
    BY DEF WatchTypeOK
  <2>3. list' \in [Streams -> [Key -> Nat \cup {Absent}]]
    BY <2>1, <2>2 DEF WatchTypeOK
  <2>4. ASSUME NEW meta \in {mt \in {metaCache[k]} :
                               mt # NoMeta /\ mt.mod >= req[s].start}
        PROVE  [key |-> k, note |-> [val |-> list[s][k], mod |-> meta.mod]] \in Told
    <3>1. meta \in Meta
      BY DEF WatchTypeOK, TypeOK
    <3>2. meta.mod \in Nat /\ list[s][k] \in Nat \cup {Absent}
      BY <3>1 DEF Meta, WatchTypeOK
    <3> QED
      BY <3>2 DEF Told, Note
  <2>5. evs' \in [Streams -> SUBSET Told]
    BY <2>1, <2>4 DEF WatchTypeOK
  <2> QED
    BY <1>1, <1>9, <2>3, <2>5 DEF FirstWatchMeta, historyVars, WatchTypeOK
<1>10. CASE SendReply(s)
  <2>1. /\ latest' \in [Streams -> [WatchEntry -> [Key -> Nat \cup {Absent}]]]
        /\ newest' \in [Streams -> [WatchEntry -> [Key -> Note \cup {NoNote}]]]
        /\ UNCHANGED <<from, retired>>
    <3>1. CASE UNCHANGED historyVars
      BY <3>1 DEF historyVars, WatchTypeOK
    <3>2. CASE evs[s] # {} /\ Tell(s, req[s].entry, evs[s])
      <4>1. req[s].entry \in WatchEntry /\ evs[s] \in SUBSET Told
        BY <3>2 DEF StreamInv, WatchTypeOK
      <4> QED
        BY <3>2, <4>1, TellEffect DEF StreamInv
    <3> QED
      BY <1>10, <3>1, <3>2 DEF SendReply
  <2>2. /\ wire' \in [Streams -> {"new", "recv", "list", "compose", "send", "ended"}]
        /\ req' \in [Streams -> Request \cup {NoRequest}]
        /\ evs' \in [Streams -> SUBSET Told]
    BY <1>3, <1>10 DEF SendReply, WatchTypeOK
  <2>3. errCh' \in [Streams -> BOOLEAN]
    BY <1>3, <1>10 DEF SendReply, WatchTypeOK
  <2> QED
    BY <1>1, <1>10, <2>1, <2>2, <2>3 DEF SendReply, WatchTypeOK
<1> QED
  BY <1>4, <1>5, <1>6, <1>7, <1>8, <1>9, <1>10 DEF WireStep
-----------------------------------------------------------------------------
(***************************************************************************)
(* The steps of the sidecar goroutine and of the Range handlers.           *)
(***************************************************************************)

\* In a step of the key-value half what was old stays old, and a key whose events are
\* all fanned out keeps its object.
KVKept ==
    /\ \A k \in Key : \A v \in Int : Old(k, v) => Old(k, v)'
    /\ \A k \in Key : \A v \in Int : OldMod(k, v) => OldMod(k, v)'
    /\ \A k \in Key : k \notin UnfannedKeys' =>
                        k \notin UnfannedKeys /\ cache'[k] = cache[k]

\* Such a step keeps what clients are about to be told.
LEMMA KVFrame ==
    ASSUME WatchTypeOK, UNCHANGED watchVars, spoiled \subseteq spoiled', KVKept,
           NEW s \in Streams, ClientInv(s)
    PROVE  ClientInv(s)'
<1> USE DEF KVKept, watchVars, handlerVars, wireVars, pusherVars, historyVars
<1>1. \A w, k, note : /\ Flies(s, w, k, note)' <=> Flies(s, w, k, note)
                      /\ Known(s, w, k, note)' <=> Known(s, w, k, note)
  BY DEF Flies, Known
<1>2. StreamInv(s)'
  BY DEF ClientInv, StreamInv
<1>3. FlownByWatches(s)'
  BY <1>1 DEF ClientInv, FlownByWatches
<1>4. ObjectsBound(s)'
  <2> SUFFICES ASSUME NEW k \in Key
               PROVE  /\ Old(k, list[s][k])'
                      /\ \A w \in WatchEntry :
                            /\ Old(k, latest[s][w][k])'
                            /\ \A note \in Note : Flies(s, w, k, note) => Old(k, note.val)'
    BY <1>1 DEF ObjectsBound
  <2>1. Old(k, list[s][k])'
    <3>1. list[s][k] \in Int /\ list' = list
      BY DEF WatchTypeOK, Absent
    <3> QED
      BY <3>1 DEF ClientInv, ObjectsBound, Old
  <2>2. ASSUME NEW w \in WatchEntry PROVE Old(k, latest[s][w][k])'
    <3>1. latest[s][w][k] \in Int /\ latest' = latest
      BY DEF WatchTypeOK, Absent
    <3> QED
      BY <3>1 DEF ClientInv, ObjectsBound, Old
  <2>3. ASSUME NEW w \in WatchEntry, NEW note \in Note, Flies(s, w, k, note)
        PROVE  Old(k, note.val)'
    <3>1. note.val \in Int
      BY DEF Note, Absent
    <3> QED
      BY <2>3, <3>1 DEF ClientInv, ObjectsBound
  <2> QED
    BY <2>1, <2>2, <2>3
<1>5. ModsBound(s)'
  <2> SUFFICES ASSUME NEW w \in WatchEntry, NEW k \in Key \ spoiled,
                      NEW note \in Note \cup {NoNote}, Known(s, w, k, note)
               PROVE  OldMod(k, note.mod)'
    BY <1>1 DEF ModsBound
  <2>1. note.mod \in Int
    BY DEF Note, NoNote, Absent
  <2> QED
    BY <2>1 DEF ClientInv, ModsBound
<1>6. \A w \in watching[s] \ retired[s] : KeysOf(w.kind) \subseteq Key
  BY DEF KeysOf, Key
<1>7. PutsReach(s)'
  <2> SUFFICES ASSUME Live(s), NEW w \in watching[s] \ retired[s],
                      NEW k \in KeysOf(w.kind), k \notin spoiled', k \notin UnfannedKeys',
                      cache'[k] >= from[s][w]
               PROVE  PutReaches(s, w, k)'
    BY DEF PutsReach, Live
  <2>1. k \in Key /\ k \notin spoiled \cup UnfannedKeys /\ cache'[k] = cache[k]
    BY <1>6
  <2>2. PutReaches(s, w, k)
    BY <2>1 DEF ClientInv, PutsReach
  <2> QED
    BY <1>1, <2>1, <2>2 DEF PutReaches
<1>8. DeletesReach(s)'
  <2> SUFFICES ASSUME Live(s), NEW w \in watching[s] \ retired[s],
                      NEW k \in KeysOf(w.kind), k \notin spoiled', k \notin UnfannedKeys',
                      cache'[k] = Absent,
                      NEW note \in Note, Known(s, w, k, note), note.val # Absent
               PROVE  Outdated(s, w, k, note)'
    BY <1>1 DEF DeletesReach, Live
  <2>1. k \in Key /\ k \notin spoiled \cup UnfannedKeys /\ cache'[k] = cache[k]
    BY <1>6
  <2>2. Outdated(s, w, k, note)
    BY <2>1 DEF ClientInv, DeletesReach
  <2> QED
    BY <1>1, <2>2 DEF Outdated
<1> QED
  BY <1>2, <1>3, <1>4, <1>5, <1>7, <1>8 DEF ClientInv

\* A batch arrives.
LEMMA RecvEventsWatch ==
    ASSUME TypeOK, TypeOK', MetaInv, KVInv, RecvEvents, spoiled' = spoiled \cup filled'
    PROVE  KVInv' /\ KVKept
<1>1. /\ pc = "recv" /\ pc' = "cache" /\ at' = 1 /\ events = <<>>
      /\ UNCHANGED <<cache, revision, metaCache, filled>>
  BY DEF RecvEvents, MetaInv, RevisionsIncrease
<1>2. \A i \in DOMAIN events' : ~(i < at') /\ i \in Nat
  BY <1>1 DEF TypeOK
<1>3. Unfanned = {} /\ Unfanned' = {} /\ NextRevision' = NextRevision
  BY <1>1, <1>2 DEF Unfanned, Reflected, NextRevision
<1>4. BatchCached'
  BY <1>1, <1>2 DEF BatchCached, Reflected
<1>5. MetaBeforeFanout' /\ \A k \in Key : cache'[k] < NextRevision'
  BY <1>1, <1>3 DEF MetaBeforeFanout, KVInv
<1>6. KVKept
  BY <1>1, <1>3 DEF KVKept, Old, OldMod, UnfannedKeys
<1> QED
  BY <1>4, <1>5, <1>6 DEF KVInv

\* An event reaches the cache, and is the newest put of its key or removes it.
LEMMA ReflectToCacheWatch ==
    ASSUME TypeOK, TypeOK', MetaInv, KVInv, ReflectToCache, spoiled' = spoiled \cup filled'
    PROVE  KVInv' /\ KVKept
<1> DEFINE e == events[at]
<1>1. /\ pc = "cache" /\ pc' = "bump" /\ revision \in Nat
      /\ UNCHANGED <<revision, metaCache, events, at, filled>>
  BY DEF ReflectToCache, TypeOK
<1>2. /\ DOMAIN events = 1..Len(events) /\ Len(events) \in Nat
      /\ at \in DOMAIN events /\ at \in Nat
      /\ \A i \in DOMAIN events :
            i \in Nat /\ events[i].key \in Key /\ events[i].rev \in Nat
  BY <1>1, BatchInWork
<1>3. /\ \A k \in Key \ {e.key} : cache'[k] = cache[k]
      /\ cache'[e.key] = IF e.type = "delete" THEN Absent ELSE revision
  BY <1>2 DEF ReflectToCache, Insert, Delete, TypeOK
<1>4. /\ Unfanned' = Unfanned \cup {at}
      /\ \A i \in Unfanned : i \in DOMAIN events /\ i < at
      /\ \A i \in DOMAIN events : /\ Reflected(i)' <=> i <= at
                                  /\ Reflected(i) <=> i < at
                                  /\ Numbered(i)' <=> i < at
                                  /\ Numbered(i) <=> i < at
  BY <1>1, <1>2 DEF Unfanned, Reflected, Fanned, Numbered
<1>5. UnfannedKeys' = UnfannedKeys \cup {e.key}
  BY <1>1, <1>4 DEF UnfannedKeys
<1>6. NextRevision = revision /\ NextRevision' = revision + 1
  BY <1>1 DEF NextRevision
<1>7. \A k \in Key : cache[k] \in Int /\ cache[k] < revision
  BY <1>6 DEF KVInv, TypeOK, Absent
<1>8. BatchCached'
  <2> SUFFICES ASSUME NEW i \in DOMAIN events, i <= at
               PROVE  /\ cache'[events[i].key] # Absent =>
                           (IF i < at THEN events[i].rev ELSE revision)
                              <= cache'[events[i].key]
                      /\ (\A j \in DOMAIN events :
                            j <= at /\ i < j => events[j].key # events[i].key) =>
                           cache'[events[i].key] =
                             IF events[i].type = "delete" THEN Absent
                             ELSE IF i < at THEN events[i].rev ELSE revision
    BY <1>1, <1>4 DEF BatchCached
  <2>1. CASE i = at
    BY <2>1, <1>1, <1>2, <1>3
  <2>2. CASE i # at /\ events[i].key = e.key
    <3>1. i < at /\ events[i].rev < revision
      BY <2>2, <1>2, <1>4 DEF MetaInv, RevisionsIncrease
    <3> QED
      BY <2>2, <3>1, <1>1, <1>2, <1>3
  <2>3. CASE i # at /\ events[i].key # e.key
    <3>1. i < at /\ cache'[events[i].key] = cache[events[i].key]
      BY <2>3, <1>2, <1>3
    <3>2. /\ cache[events[i].key] # Absent => events[i].rev <= cache[events[i].key]
          /\ (\A j \in DOMAIN events : j < at /\ i < j => events[j].key # events[i].key) =>
                cache[events[i].key] = IF events[i].type = "delete" THEN Absent
                                       ELSE events[i].rev
      BY <3>1, <1>4 DEF KVInv, BatchCached
    <3> QED
      BY <3>1, <3>2, <1>2
  <2> QED
    BY <2>1, <2>2, <2>3
<1>9. MetaBeforeFanout' /\ \A k \in Key : cache'[k] < NextRevision'
  BY <1>1, <1>2, <1>3, <1>6, <1>7 DEF MetaBeforeFanout, Absent
<1>10. \A k \in Key : \A v \in Int : Old(k, v) => Old(k, v)'
  BY <1>1, <1>2, <1>3, <1>6 DEF Old
<1>11. \A k \in Key : \A v \in Int : OldMod(k, v) => OldMod(k, v)'
  BY <1>1, <1>2, <1>4 DEF OldMod
<1> QED
  BY <1>3, <1>5, <1>8, <1>9, <1>10, <1>11 DEF KVInv, KVKept

\* The event gets its revision, which no note has yet.
LEMMA BumpRevisionWatch ==
    ASSUME TypeOK, TypeOK', MetaInv, KVInv, BumpRevision, spoiled' = spoiled \cup filled'
    PROVE  KVInv' /\ KVKept
<1>1. /\ pc = "bump" /\ pc' \in {"cache", "load"}
      /\ revision' = revision + 1 /\ revision \in Nat
      /\ events' = [events EXCEPT ![at].rev = revision]
      /\ UNCHANGED <<cache, metaCache, filled>>
  BY DEF BumpRevision, TypeOK
<1>2. /\ DOMAIN events = 1..Len(events) /\ Len(events) \in Nat
      /\ at \in DOMAIN events /\ at \in Nat
      /\ \A i \in DOMAIN events :
           i \in Nat /\ events[i].key \in Key /\ events[i].rev \in Nat
  BY <1>1, BatchInWork
<1>3. /\ DOMAIN events' = DOMAIN events
      /\ \A i \in DOMAIN events : /\ events'[i].key = events[i].key
                                  /\ events'[i].type = events[i].type
                                  /\ i # at => events'[i].rev = events[i].rev
      /\ events'[at].rev = revision
  <2>1. events[at] \in Event /\ \A i \in DOMAIN events : events[i] \in Event
    BY <1>2 DEF TypeOK
  <2> QED
    BY <1>1, <1>2, <2>1 DEF Event
<1>4. \A i \in DOMAIN events : /\ Numbered(i)' <=> i <= at
                               /\ Numbered(i) <=> i < at
                               /\ Reflected(i)' <=> i <= at
                               /\ Reflected(i) <=> i <= at
                               /\ ~Fanned(i) /\ ~Fanned(i)'
  BY <1>1, <1>2 DEF BumpRevision, Numbered, Reflected, Fanned
<1>5. Unfanned' = Unfanned
  BY <1>3, <1>4 DEF Unfanned
<1>6. UnfannedKeys' = UnfannedKeys
  BY <1>3, <1>5 DEF UnfannedKeys, Unfanned
<1>7. NextRevision = revision + 1 /\ NextRevision' = revision + 1
  BY <1>1 DEF NextRevision
<1>8. BatchCached'
  <2> SUFFICES ASSUME NEW i \in DOMAIN events, i <= at
               PROVE  /\ cache[events[i].key] # Absent =>
                           events'[i].rev <= cache[events[i].key]
                      /\ (\A j \in DOMAIN events :
                            j <= at /\ i < j => events[j].key # events[i].key) =>
                           cache[events[i].key] =
                             IF events[i].type = "delete" THEN Absent ELSE events'[i].rev
    BY <1>1, <1>3, <1>4 DEF BatchCached
  <2>1. /\ cache[events[i].key] # Absent =>
             (IF i < at THEN events[i].rev ELSE revision) <= cache[events[i].key]
        /\ (\A j \in DOMAIN events : j <= at /\ i < j => events[j].key # events[i].key) =>
             cache[events[i].key] = IF events[i].type = "delete" THEN Absent
                                    ELSE IF i < at THEN events[i].rev ELSE revision
    BY <1>4 DEF KVInv, BatchCached
  <2> QED
    BY <2>1, <1>2, <1>3
<1>9. MetaBeforeFanout' /\ \A k \in Key : cache'[k] < NextRevision'
  BY <1>1, <1>7 DEF MetaBeforeFanout, KVInv
<1>10. \A k \in Key : \A v \in Int : Old(k, v) => Old(k, v)'
  BY <1>1, <1>7 DEF Old
<1>11. \A k \in Key : \A v \in Int : OldMod(k, v) => OldMod(k, v)'
  <2> SUFFICES ASSUME NEW k \in Key, NEW v \in Int, OldMod(k, v),
                      NEW i \in Unfanned, i <= at, events[i].key = k
               PROVE  /\ v <= events'[i].rev
                      /\ events[i].type = "delete" => v < events'[i].rev
    BY <1>1, <1>3, <1>4, <1>5 DEF OldMod, Unfanned
  <2>1. CASE i = at
    BY <2>1, <1>1, <1>3 DEF OldMod
  <2>2. CASE i # at
    BY <2>2, <1>2, <1>3, <1>4 DEF OldMod, Unfanned
  <2> QED
    BY <2>1, <2>2
<1> QED
  BY <1>1, <1>6, <1>8, <1>9, <1>10, <1>11 DEF KVInv, KVKept

\* pushEvent up to the fan-out, and the Range handlers.
LEMMA PushAndRangeWatch ==
    ASSUME TypeOK, TypeOK', MetaInv, KVInv, PushLoadMeta \/ PushStoreMeta \/ RangeStep,
           spoiled' = spoiled \cup filled'
    PROVE  KVInv' /\ KVKept
<1>1. /\ UNCHANGED <<cache, revision, events, at>>
      /\ \/ pc' = pc
         \/ pc \in {"load", "store"} /\ pc' \in {"store", "fanout"}
  BY RangeWrites DEF PushLoadMeta, PushStoreMeta
<1>2. /\ \A i : Reflected(i)' <=> Reflected(i)
      /\ \A i : Numbered(i)' <=> Numbered(i)
      /\ \A i : Fanned(i)' <=> Fanned(i)
      /\ NextRevision' = NextRevision
  BY <1>1 DEF Reflected, Numbered, Fanned, NextRevision
<1>3. Unfanned' = Unfanned /\ UnfannedKeys' = UnfannedKeys
  BY <1>1, <1>2 DEF Unfanned, UnfannedKeys
<1>4. BatchCached'
  BY <1>1, <1>2 DEF KVInv, BatchCached
<1>5. KVKept
  BY <1>1, <1>2, <1>3 DEF KVKept, Old, OldMod
<1>6. MetaBeforeFanout'
  <2>1. CASE PushLoadMeta
    BY <2>1 DEF PushLoadMeta, MetaBeforeFanout
  <2>2. CASE PushStoreMeta
    <3>1. pc = "store" /\ m.mod = events[at].rev
      BY <2>2 DEF PushStoreMeta, MetaInv, MetaPrecedesPending
    <3>2. events[at].key \in Key
      BY <3>1, BatchInWork
    <3> QED
      BY <2>2, <3>1, <3>2 DEF PushStoreMeta, MetaBeforeFanout, TypeOK
  <2>3. CASE RangeStep
    <3>1. pc' = pc
      BY <2>3, RangeWrites
    <3>2. pc = "fanout" => events[at].key \in Key
      BY BatchInWork
    <3> QED
      BY <2>3, <3>1, <3>2, <1>1, RangeWrites DEF KVInv, MetaBeforeFanout
  <2> QED
    BY <2>1, <2>2, <2>3
<1> QED
  BY <1>1, <1>2, <1>4, <1>5, <1>6 DEF KVInv

\* The end of pushEvent, but for the pushers: an event less to be fanned out.
LEMMA PushDoneWatch ==
    ASSUME TypeOK, TypeOK', MetaInv, KVInv, PushDone, spoiled' = spoiled \cup filled'
    PROVE  /\ KVInv'
           /\ spoiled' = spoiled /\ NextRevision' = NextRevision
           /\ UNCHANGED <<cache, revision, metaCache, filled>>
           /\ at \in Unfanned /\ at \in DOMAIN events
           /\ Unfanned = {i \in DOMAIN events : ~(i < at)}
           /\ \A i \in Unfanned : i # at => at < i
           /\ Unfanned' = Unfanned \ {at}
           /\ \A i \in Unfanned' : events'[i] = events[i]
           /\ \A i : Numbered(i) /\ Numbered(i)' /\ Reflected(i)
<1>1. /\ pc = "fanout" /\ pc' \in {"load", "recv"}
      /\ UNCHANGED <<cache, revision, metaCache, filled>>
      /\ pc' = "load" => UNCHANGED events /\ at' = at + 1
      /\ pc' = "recv" => events' = <<>> /\ ~(at < Len(events))
  BY DEF PushDone
<1>2. /\ DOMAIN events = 1..Len(events) /\ Len(events) \in Nat
      /\ at \in DOMAIN events /\ at \in Nat
      /\ \A i \in DOMAIN events : i \in Nat
  BY <1>1, BatchInWork
<1>3. /\ \A i : Numbered(i) /\ Numbered(i)' /\ Reflected(i) /\ Reflected(i)'
      /\ NextRevision = revision /\ NextRevision' = revision
  BY <1>1 DEF Numbered, Reflected, NextRevision
<1>4. Unfanned = {i \in DOMAIN events : ~(i < at)}
  BY <1>1, <1>3 DEF Unfanned, Fanned
<1>5. Unfanned' = Unfanned \ {at} /\ \A i \in Unfanned' : events'[i] = events[i]
  <2>1. CASE pc' = "load"
    <3>1. Unfanned' = {i \in DOMAIN events : ~(i < at + 1)} /\ events' = events
      BY <2>1, <1>1, <1>3 DEF Unfanned, Fanned
    <3> QED
      BY <3>1, <1>2, <1>4
  <2>2. CASE pc' = "recv"
    <3>1. Unfanned = {at}
      BY <2>2, <1>1, <1>2, <1>4
    <3>2. Unfanned' = {}
      BY <2>2, <1>1 DEF Unfanned
    <3> QED
      BY <3>1, <3>2
  <2> QED
    BY <2>1, <2>2, <1>1
<1>6. spoiled' = spoiled
  BY <1>1 DEF KVInv
<1>7. BatchCached'
  <2>1. CASE pc' = "load"
    BY <2>1, <1>1, <1>3 DEF KVInv, BatchCached
  <2>2. CASE pc' = "recv"
    <3>1. DOMAIN events' = {}
      BY <2>2, <1>1
    <3> QED
      BY <3>1 DEF BatchCached
  <2> QED
    BY <2>1, <2>2, <1>1
<1>8. MetaBeforeFanout' /\ \A k \in Key : cache'[k] < NextRevision'
  BY <1>1, <1>3 DEF MetaBeforeFanout, KVInv
<1> QED
  BY <1>1, <1>2, <1>3, <1>4, <1>5, <1>6, <1>7, <1>8 DEF KVInv

\* What is on its way after the fan-out of event ev: what was before, and the event to
\* every watch of its kind on a registered stream.
LEMMA FanoutFlies ==
    ASSUME WatchTypeOK, NEW ev \in Event, pushers' = pushers \cup PushersOf(ev),
           UNCHANGED <<resp, req, evs>>,
           NEW s \in Streams, NEW w \in WatchEntry, NEW k \in Key, NEW note \in Note
    PROVE  Flies(s, w, k, note)' <=>
             \/ Flies(s, w, k, note)
             \/ /\ s \in watchers /\ w \in watching[s] /\ ev.key \in KeysOf(w.kind)
                /\ ToldBy(ev) = [key |-> k, note |-> note]
<1> DEFINE kind == IF ev.key \in Routes THEN "route" ELSE "upstream"
           ids(r) == {v.id : v \in {u \in watching[r] : u.kind = kind}}
<1>1. PushersOf(ev) = {[stream |-> r, kind |-> kind, ids |-> ids(r), told |-> ToldBy(ev)] :
                         r \in {t \in watchers : ids(t) # {}}}
  BY DEF PushersOf
<1>2. w.kind = kind <=> ev.key \in KeysOf(w.kind)
  <2>1. w.kind \in {"route", "upstream"} /\ ev.key \in Routes \cup Upstreams
    BY DEF WatchEntry, Kind, Event, Key
  <2> QED
    BY <2>1, SidecarAssumption DEF KeysOf
<1>3. w.kind = kind => (w.id \in ids(s) <=> w \in watching[s])
  <2>1. \A v \in WatchEntry : v = [kind |-> v.kind, id |-> v.id]
    BY DEF WatchEntry
  <2>2. \A v \in watching[s] : v.kind = w.kind /\ v.id = w.id => v = w
    BY <2>1 DEF WatchTypeOK
  <2> QED
    BY <2>2
<1> HIDE DEF kind, ids
<1>4. (\E p \in PushersOf(ev) : /\ p.stream = s /\ p.kind = w.kind /\ w.id \in p.ids
                                /\ p.told = [key |-> k, note |-> note])
        <=> /\ s \in watchers /\ kind = w.kind /\ w.id \in ids(s)
            /\ ToldBy(ev) = [key |-> k, note |-> note]
  <2>1. ASSUME NEW p \in PushersOf(ev), p.stream = s, p.kind = w.kind, w.id \in p.ids,
               p.told = [key |-> k, note |-> note]
        PROVE  /\ s \in watchers /\ kind = w.kind /\ w.id \in ids(s)
               /\ ToldBy(ev) = [key |-> k, note |-> note]
    <3>1. PICK r \in {t \in watchers : ids(t) # {}} :
             p = [stream |-> r, kind |-> kind, ids |-> ids(r), told |-> ToldBy(ev)]
      BY <1>1, <2>1
    <3> QED
      BY <2>1, <3>1
  <2>2. ASSUME s \in watchers, kind = w.kind, w.id \in ids(s),
               ToldBy(ev) = [key |-> k, note |-> note]
        PROVE  \E p \in PushersOf(ev) : /\ p.stream = s /\ p.kind = w.kind /\ w.id \in p.ids
                                        /\ p.told = [key |-> k, note |-> note]
    <3>1. [stream |-> s, kind |-> kind, ids |-> ids(s), told |-> ToldBy(ev)]
            \in PushersOf(ev)
      BY <1>1, <2>2
    <3> QED
      BY <2>2, <3>1
  <2> QED
    BY <2>1, <2>2
<1> QED
  BY <1>2, <1>3, <1>4 DEF Flies

\* The fan-out.  If no later event of the key is to be fanned out, the event is the one
\* the cache shows, and it is newer than all the clients know of the key.
LEMMA PushFanoutWatch ==
    ASSUME WatchTypeOK, TypeOK', MetaInv, KVInv, PushFanout, spoiled' = spoiled \cup filled',
           NEW s \in Streams, ClientInv(s)
    PROVE  ClientInv(s)'
<1> USE DEF handlerVars, wireVars, historyVars
<1> SUFFICES ASSUME NEW ev, ev = events[at], NEW told, told = ToldBy(ev)
             PROVE  ClientInv(s)'
  OBVIOUS
<1>1. /\ PushDone /\ pushers' = pushers \cup PushersOf(ev)
      /\ UNCHANGED <<handlerVars, wireVars, ctxDone, crashed, historyVars>>
  BY DEF PushFanout
<1>2. TypeOK
  BY DEF WatchTypeOK
<1>3. /\ spoiled' = spoiled /\ NextRevision' = NextRevision
      /\ UNCHANGED <<cache, revision>>
      /\ at \in Unfanned /\ at \in DOMAIN events
      /\ Unfanned = {i \in DOMAIN events : ~(i < at)}
      /\ \A i \in Unfanned : i # at => at < i
      /\ Unfanned' = Unfanned \ {at}
      /\ \A i \in Unfanned' : events'[i] = events[i]
      /\ \A i : Numbered(i) /\ Numbered(i)' /\ Reflected(i)
  BY <1>1, <1>2, PushDoneWatch
<1>4. ev \in Event /\ ev.key \in Key /\ ev.rev \in Nat
  <2>1. ev \in Event
    BY <1>2, <1>3 DEF TypeOK
  <2> QED
    BY <2>1 DEF Event
<1>5. /\ told.key = ev.key /\ told.note \in Note
      /\ told.note.val = (IF ev.type = "delete" THEN Absent ELSE ev.rev)
      /\ told.note.mod = ev.rev /\ told = [key |-> ev.key, note |-> told.note]
  BY <1>4 DEF ToldBy, Note
<1>6. \A w \in WatchEntry : \A k \in Key : \A note \in Note :
        Flies(s, w, k, note)' <=>
             \/ Flies(s, w, k, note)
             \/ /\ s \in watchers /\ w \in watching[s] /\ ev.key \in KeysOf(w.kind)
                /\ told = [key |-> k, note |-> note]
  BY <1>1, <1>4, FanoutFlies
<1>7. \A w \in WatchEntry : \A k \in Key : \A note \in Note :
        Flies(s, w, k, note)' =>
             \/ Flies(s, w, k, note)
             \/ k = ev.key /\ note = told.note /\ w \in watching[s]
  <2> SUFFICES ASSUME NEW w \in WatchEntry, NEW k \in Key, NEW note \in Note,
                      Flies(s, w, k, note)', ~Flies(s, w, k, note)
               PROVE  k = ev.key /\ note = told.note /\ w \in watching[s]
    OBVIOUS
  <2>1. w \in watching[s] /\ told = [key |-> k, note |-> note]
    BY <1>6
  <2> QED
    BY <2>1, <1>5
<1>8. \A k \in Key : k \notin UnfannedKeys' =>
        /\ k # ev.key => k \notin UnfannedKeys
        /\ k = ev.key => cache[k] = told.note.val
  <2> SUFFICES ASSUME NEW k \in Key, k \notin UnfannedKeys'
               PROVE  /\ k # ev.key => k \notin UnfannedKeys
                      /\ k = ev.key => cache[k] = told.note.val
    OBVIOUS
  <2>1. \A i \in Unfanned : i # at => events[i].key # k
    BY <1>3 DEF UnfannedKeys
  <2>2. k # ev.key => k \notin UnfannedKeys
    BY <2>1 DEF UnfannedKeys
  <2>3. ASSUME k = ev.key PROVE cache[k] = told.note.val
    <3>1. \A j \in DOMAIN events : at < j => events[j].key # k
      <4> SUFFICES ASSUME NEW j \in DOMAIN events, at < j PROVE events[j].key # k
        OBVIOUS
      <4>1. j \in Nat /\ at \in Nat
        BY <1>2 DEF TypeOK
      <4> QED
        BY <4>1, <2>1, <1>3
    <3> QED
      BY <2>3, <3>1, <1>3, <1>5 DEF KVInv, BatchCached
  <2> QED
    BY <2>2, <2>3
<1>9. StreamInv(s)'
  BY <1>1 DEF ClientInv, StreamInv
<1>10. FlownByWatches(s)'
  BY <1>1, <1>7 DEF ClientInv, FlownByWatches
<1>11. ObjectsBound(s)'
  <2>1. \A k, v : Old(k, v)' <=> Old(k, v)
    BY <1>3 DEF Old
  <2>2. Old(ev.key, told.note.val)
    <3>1. ev.rev < revision /\ NextRevision >= revision /\ revision \in Nat
      BY <1>2, <1>3 DEF MetaInv, RevisionsIncrease, NextRevision, TypeOK
    <3>2. cache[ev.key] # Absent => ev.rev <= cache[ev.key] /\ cache[ev.key] \in Nat
      BY <1>2, <1>3, <1>4 DEF KVInv, BatchCached, TypeOK
    <3>3. NextRevision \in Nat
      BY <3>1 DEF NextRevision
    <3> QED
      BY <3>1, <3>2, <3>3, <1>4, <1>5 DEF Old, Absent
  <2> QED
    BY <1>1, <1>7, <2>1, <2>2 DEF ClientInv, ObjectsBound
<1>12. ModsBound(s)'
  <2>1. \A k, v : OldMod(k, v) => OldMod(k, v)'
    BY <1>3 DEF OldMod
  <2>2. OldMod(ev.key, told.note.mod)'
    <3>1. ev.rev < revision
      BY <1>3 DEF MetaInv, RevisionsIncrease
    <3>2. ASSUME NEW i \in Unfanned' PROVE ev.rev < events'[i].rev
      BY <1>3 DEF MetaInv, RevisionsIncrease
    <3>3. \A i \in Unfanned' : events'[i].rev \in Nat
      <4>1. \A i \in DOMAIN events : events[i] \in Event
        BY <1>2 DEF TypeOK
      <4> QED
        BY <4>1, <1>3 DEF Event
    <3> QED
      BY <3>1, <3>2, <3>3, <1>3, <1>4, <1>5 DEF OldMod
  <2> SUFFICES ASSUME NEW w \in WatchEntry, NEW k \in Key \ spoiled,
                      NEW note \in Note \cup {NoNote}, Known(s, w, k, note)'
               PROVE  OldMod(k, note.mod)'
    BY <1>3 DEF ModsBound
  <2>3. CASE note = newest[s][w][k]
    <3>1. Known(s, w, k, note)
      BY <2>3 DEF Known
    <3> QED
      BY <2>1, <3>1 DEF ClientInv, ModsBound
  <2>4. CASE note # newest[s][w][k]
    <3>1. Flies(s, w, k, note)' /\ note \in Note
      <4>1. Flies(s, w, k, note)'
        BY <2>4, <1>1 DEF Known
      <4>2. note \in Note
        <5>1. CASE \E p \in pushers' : p.told = [key |-> k, note |-> note]
          <6>1. PushersOf(ev) \in SUBSET Pusher
            BY <1>4, PushersType
          <6>2. PICK p \in Pusher : p.told = [key |-> k, note |-> note]
            BY <5>1, <6>1, <1>1 DEF WatchTypeOK
          <6> QED
            BY <6>2 DEF Pusher, Told
        <5>2. CASE [entry |-> w, told |-> [key |-> k, note |-> note]] \in resp[s]
          BY <5>2 DEF WatchTypeOK, Told
        <5>3. CASE [key |-> k, note |-> note] \in evs[s]
          BY <5>3 DEF WatchTypeOK, Told
        <5> QED
          BY <4>1, <5>1, <5>2, <5>3, <1>1 DEF Flies
      <4> QED
        BY <4>1, <4>2
    <3>2. CASE Flies(s, w, k, note)
      BY <2>1, <3>2 DEF Known, ClientInv, ModsBound
    <3>3. CASE k = ev.key /\ note = told.note
      BY <2>2, <3>3
    <3> QED
      BY <1>7, <3>1, <3>2, <3>3
  <2> QED
    BY <2>3, <2>4
<1>13. \A w \in watching[s] : w \in WatchEntry /\ KeysOf(w.kind) \subseteq Key
  BY DEF WatchTypeOK, KeysOf, Key
<1>14. ASSUME Live(s), NEW w \in watching[s], ev.key \in KeysOf(w.kind)
       PROVE  Flies(s, w, ev.key, told.note)'
  BY <1>4, <1>5, <1>6, <1>13, <1>14 DEF Live, ClientInv, StreamInv
<1>15. PutsReach(s)'
  <2> SUFFICES ASSUME Live(s), NEW w \in watching[s] \ retired[s],
                      NEW k \in KeysOf(w.kind), k \notin spoiled, k \notin UnfannedKeys',
                      cache[k] >= from[s][w]
               PROVE  PutReaches(s, w, k)'
    BY <1>1, <1>3 DEF PutsReach, Live
  <2>1. CASE k = ev.key
    <3>1. cache[k] = told.note.val /\ Flies(s, w, k, told.note)'
      BY <2>1, <1>4, <1>8, <1>14
    <3> QED
      BY <3>1, <1>3, <1>5 DEF PutReaches
  <2>2. CASE k # ev.key
    <3>1. k \in Key /\ k \notin UnfannedKeys /\ w \in WatchEntry
      BY <2>2, <1>8, <1>13
    <3>2. PutReaches(s, w, k)
      BY <3>1 DEF ClientInv, PutsReach
    <3>3. \A note \in Note : Flies(s, w, k, note) => Flies(s, w, k, note)'
      BY <3>1, <1>6
    <3> QED
      BY <3>2, <3>3, <1>1, <1>3 DEF PutReaches
  <2> QED
    BY <2>1, <2>2
<1>16. DeletesReach(s)'
  <2> SUFFICES ASSUME Live(s), NEW w \in watching[s] \ retired[s],
                      NEW k \in KeysOf(w.kind), k \notin spoiled, k \notin UnfannedKeys',
                      cache[k] = Absent,
                      NEW note \in Note, Known(s, w, k, note)', note.val # Absent
               PROVE  Outdated(s, w, k, note)'
    BY <1>1, <1>3 DEF DeletesReach, Live
  <2>1. w \in WatchEntry /\ k \in Key
    BY <1>13
  <2>2. CASE k = ev.key
    <3>1. told.note.val = Absent /\ Flies(s, w, k, told.note)'
      BY <2>2, <1>4, <1>8, <1>14
    <3>2. ev.type = "delete"
      BY <3>1, <1>4, <1>5 DEF Absent
    <3>3. Known(s, w, k, note)
      BY <2>1, <3>1, <1>1, <1>7 DEF Known
    <3>4. note.mod < ev.rev
      BY <2>1, <2>2, <3>2, <3>3, <1>3 DEF ClientInv, ModsBound, OldMod
    <3>5. note.mod \in Nat
      BY DEF Note
    <3> QED
      BY <3>1, <3>4, <3>5, <1>4, <1>5 DEF Outdated, Known
  <2>3. CASE k # ev.key
    <3>1. k \notin UnfannedKeys /\ Known(s, w, k, note)
      BY <2>1, <2>3, <1>1, <1>7, <1>8 DEF Known
    <3>2. Outdated(s, w, k, note)
      BY <2>1, <3>1 DEF ClientInv, DeletesReach
    <3> QED
      BY <2>1, <3>2, <1>1, <1>6 DEF Outdated, Known
  <2> QED
    BY <2>2, <2>3
<1> QED
  BY <1>9, <1>10, <1>11, <1>12, <1>15, <1>16 DEF ClientInv
-----------------------------------------------------------------------------
(***************************************************************************)
(* The steps of the goroutines of the streams.                             *)
(***************************************************************************)

\* The key-value half rests.
KVRests == UNCHANGED vars /\ spoiled' = spoiled

LEMMA KVRestsFacts ==
    ASSUME KVRests
    PROVE  /\ UNCHANGED <<cache, revision, metaCache, pc, events, at, filled, spoiled>>
           /\ Unfanned' = Unfanned /\ UnfannedKeys' = UnfannedKeys
           /\ \A k, v : Old(k, v)' <=> Old(k, v)
           /\ \A k, v : OldMod(k, v)' <=> OldMod(k, v)
           /\ KVInv => KVInv'
<1>1. UNCHANGED <<cache, revision, metaCache, pc, events, at, filled, spoiled>>
  BY DEF KVRests, vars, sidecarVars
<1>2. /\ \A i : Reflected(i)' <=> Reflected(i)
      /\ \A i : Numbered(i)' <=> Numbered(i)
      /\ \A i : Fanned(i)' <=> Fanned(i)
      /\ NextRevision' = NextRevision
  BY <1>1 DEF Reflected, Numbered, Fanned, NextRevision
<1>3. Unfanned' = Unfanned /\ UnfannedKeys' = UnfannedKeys
  BY <1>1, <1>2 DEF Unfanned, UnfannedKeys
<1>4. /\ \A k, v : Old(k, v)' <=> Old(k, v)
      /\ \A k, v : OldMod(k, v)' <=> OldMod(k, v)
  BY <1>1, <1>2, <1>3 DEF Old, OldMod
<1>5. KVInv => KVInv'
  BY <1>1, <1>2 DEF KVInv, BatchCached, MetaBeforeFanout
<1> QED
  BY <1>1, <1>3, <1>4, <1>5

\* A note that is on its way is a Note.
LEMMA FliesType ==
    ASSUME WatchTypeOK, NEW s \in Streams, NEW w, NEW k, NEW note, Flies(s, w, k, note)
    PROVE  k \in Key /\ note \in Note
<1>1. CASE \E p \in pushers : p.told = [key |-> k, note |-> note]
  <2>1. PICK p \in Pusher : p.told = [key |-> k, note |-> note]
    BY <1>1 DEF WatchTypeOK
  <2>2. [key |-> k, note |-> note] \in Told
    BY <2>1 DEF Pusher
  <2> QED
    BY <2>2 DEF Told
<1>2. CASE [entry |-> w, told |-> [key |-> k, note |-> note]] \in resp[s]
  <2>1. [key |-> k, note |-> note] \in Told
    BY <1>2 DEF WatchTypeOK
  <2> QED
    BY <2>1 DEF Told
<1>3. CASE [key |-> k, note |-> note] \in evs[s]
  <2>1. [key |-> k, note |-> note] \in Told
    BY <1>3 DEF WatchTypeOK
  <2> QED
    BY <2>1 DEF Told
<1> QED
  BY <1>1, <1>2, <1>3 DEF Flies

\* onWire still has to list, or to look at what it has listed.
Listing(s) ==
    \/ wire[s] = "list"
    \/ wire[s] = "compose" /\ \E k \in Key : list[s][k] # Absent

\* A step that tells the client nothing and puts nothing new on its way, and that
\* loses something only if the client is not served any more.
LEMMA StreamFrame ==
    ASSUME WatchTypeOK, KVRests, NEW s \in Streams, ClientInv(s), StreamInv(s)',
           \A w \in WatchEntry : \A k, note : Flies(s, w, k, note)' => Flies(s, w, k, note),
           /\ latest'[s] = latest[s] /\ newest'[s] = newest[s] /\ from'[s] = from[s]
           /\ list'[s] = list[s],
           watching[s] \cup retired[s] \subseteq watching'[s] \cup retired'[s],
           watching'[s] \ retired'[s] \subseteq watching[s] \ retired[s],
           Live(s)' => \/ watching'[s] = {}
                       \/ /\ Live(s)
                          /\ \A w \in WatchEntry : \A k, note : Flies(s, w, k, note) => Flies(s, w, k, note)'
                          /\ Listing(s) => wire'[s] = wire[s] /\ req'[s] = req[s]
    PROVE  ClientInv(s)'
<1>1. /\ UNCHANGED <<cache, revision, spoiled>> /\ UnfannedKeys' = UnfannedKeys
      /\ \A k, v : Old(k, v)' <=> Old(k, v)
      /\ \A k, v : OldMod(k, v)' <=> OldMod(k, v)
  BY KVRestsFacts
<1>2. \A w \in WatchEntry : \A k, note : Known(s, w, k, note)' => Known(s, w, k, note)
  BY DEF Known
<1>3. FlownByWatches(s)'
  BY DEF ClientInv, FlownByWatches
<1>4. ObjectsBound(s)'
  BY <1>1 DEF ClientInv, ObjectsBound, Old
<1>5. ModsBound(s)'
  BY <1>1, <1>2 DEF ClientInv, ModsBound
<1>6. ASSUME Live(s)', NEW w \in watching'[s] \ retired'[s]
      PROVE  /\ Live(s) /\ w \in watching[s] \ retired[s]
             /\ \A k, note : Flies(s, w, k, note) => Flies(s, w, k, note)'
             /\ Listing(s) => wire'[s] = wire[s] /\ req'[s] = req[s]
  <2>1. w \in WatchEntry
    BY <1>6 DEF WatchTypeOK
  <2> QED
    BY <1>6, <2>1
<1>7. PutsReach(s)'
  <2> SUFFICES ASSUME Live(s)', NEW w \in watching'[s] \ retired'[s],
                      NEW k \in KeysOf(w.kind) \ (spoiled \cup UnfannedKeys),
                      cache[k] >= from[s][w]
               PROVE  PutReaches(s, w, k)'
    BY <1>1 DEF PutsReach
  <2>1. PutReaches(s, w, k)
    BY <1>6 DEF ClientInv, PutsReach
  <2>2. w \in WatchEntry /\ k \in Key /\ from[s][w] \in Nat
    BY <1>6 DEF WatchTypeOK, KeysOf, Key
  <2>3. cache[k] # Absent
    BY <2>2 DEF Absent
  <2>4. req[s].entry = w /\ wire[s] = "compose" /\ list[s][k] = cache[k] => Listing(s)
    BY <2>2, <2>3 DEF Listing
  <2>5. wire[s] = "list" => Listing(s)
    BY DEF Listing
  <2> QED
    BY <2>1, <2>4, <2>5, <1>1, <1>6 DEF PutReaches
<1>8. DeletesReach(s)'
  <2> SUFFICES ASSUME Live(s)', NEW w \in watching'[s] \ retired'[s],
                      NEW k \in KeysOf(w.kind) \ (spoiled \cup UnfannedKeys),
                      cache[k] = Absent,
                      NEW note \in Note, Known(s, w, k, note)', note.val # Absent
               PROVE  Outdated(s, w, k, note)'
    BY <1>1 DEF DeletesReach
  <2>1. Outdated(s, w, k, note) /\ w \in WatchEntry
    BY <1>2, <1>6 DEF ClientInv, DeletesReach, WatchTypeOK
  <2> QED
    BY <2>1, <1>6 DEF Outdated, Known
<1> QED
  BY <1>3, <1>4, <1>5, <1>7, <1>8 DEF ClientInv

\* The state of a stream and of its pushers.
SameStream(r) ==
    /\ loop'[r] = loop[r] /\ resp'[r] = resp[r] /\ wire'[r] = wire[r]
    /\ req'[r] = req[r] /\ list'[r] = list[r] /\ evs'[r] = evs[r]
    /\ ctxDone'[r] = ctxDone[r] /\ watching'[r] = watching[r] /\ from'[r] = from[r]
    /\ retired'[r] = retired[r] /\ latest'[r] = latest[r] /\ newest'[r] = newest[r]
    /\ r \in watchers => r \in watchers'
    /\ \A p \in pushers : p.stream = r => p \in pushers'
    /\ \A p \in pushers' : p.stream = r => p \in pushers

LEMMA SameStreamInv ==
    ASSUME WatchTypeOK, KVRests, NEW r \in Streams, ClientInv(r), SameStream(r)
    PROVE  ClientInv(r)'
<1>1. \A w \in WatchEntry : \A k, note : Flies(r, w, k, note)' <=> Flies(r, w, k, note)
  <2> SUFFICES ASSUME NEW w \in WatchEntry, NEW k, NEW note
               PROVE  Flies(r, w, k, note)' <=> Flies(r, w, k, note)
    OBVIOUS
  <2>1. (\E p \in pushers' : /\ p.stream = r /\ p.kind = w.kind /\ w.id \in p.ids
                             /\ p.told = [key |-> k, note |-> note])
          <=> (\E p \in pushers : /\ p.stream = r /\ p.kind = w.kind /\ w.id \in p.ids
                                  /\ p.told = [key |-> k, note |-> note])
    BY DEF SameStream
  <2> QED
    BY <2>1 DEF SameStream, Flies
<1>2. StreamInv(r)'
  BY DEF ClientInv, StreamInv, SameStream
<1>3. Live(r)' => Live(r)
  BY DEF Live, SameStream
<1> QED
  BY <1>1, <1>2, <1>3, StreamFrame DEF SameStream

\* A step of one stream, or of one of its pushers, leaves the other streams alone.
LEMMA OtherStreams ==
    ASSUME WatchTypeOK, WatchTypeOK', NEW s \in Streams, NEW r \in Streams, r # s,
           \/ HandlerStep(s) \/ WireStep(s) \/ ClientGone(s)
           \/ \E p \in pushers : p.stream = s /\ PusherStep(p)
    PROVE  SameStream(r)
<1> USE DEF handlerVars, wireVars, pusherVars, historyVars
<1>1. CASE Open(s) \/ LeaveLoop(s) \/ CloseEventCh(s) \/ Unregister(s) \/ Cancel(s)
           \/ ClientGone(s)
  BY <1>1 DEF Open, LeaveLoop, CloseEventCh, Unregister, Cancel, ClientGone, SameStream,
              WatchTypeOK
<1>2. ASSUME NEW w, NEW told, Tell(s, w, told)
      PROVE  /\ latest'[r] = latest[r] /\ newest'[r] = newest[r]
             /\ from'[r] = from[r] /\ retired'[r] = retired[r]
  BY <1>2 DEF Tell, WatchTypeOK
<1>3. CASE SendResp(s)
  <2>1. /\ latest'[r] = latest[r] /\ newest'[r] = newest[r]
        /\ from'[r] = from[r] /\ retired'[r] = retired[r]
    BY <1>2, <1>3 DEF SendResp
  <2> QED
    BY <1>3, <2>1 DEF SendResp, SameStream, WatchTypeOK
<1>4. CASE SendReply(s)
  <2>1. /\ latest'[r] = latest[r] /\ newest'[r] = newest[r]
        /\ from'[r] = from[r] /\ retired'[r] = retired[r]
    BY <1>2, <1>4 DEF SendReply
  <2> QED
    BY <1>4, <2>1 DEF SendReply, EndWire, SameStream, WatchTypeOK
<1>5. CASE RecvCreate(s)
  <2>1. /\ watching'[r] = watching[r] /\ req'[r] = req[r] /\ wire'[r] = wire[r]
        /\ from'[r] = from[r] /\ retired'[r] = retired[r]
        /\ latest'[r] = latest[r] /\ newest'[r] = newest[r]
    BY <1>5 DEF RecvCreate, EndWire, WatchTypeOK
  <2> QED
    BY <1>5, <2>1 DEF RecvCreate, SameStream
<1>6. CASE RecvCancel(s)
  <2>1. /\ watching'[r] = watching[r] /\ wire'[r] = wire[r] /\ retired'[r] = retired[r]
    BY <1>6 DEF RecvCancel, CancelWatch, EndWire, WatchTypeOK
  <2> QED
    BY <1>6, <2>1 DEF RecvCancel, SameStream
<1>7. CASE RecvRefused(s) \/ RecvFails(s)
  BY <1>7 DEF RecvRefused, RecvFails, EndWire, SameStream, WatchTypeOK
<1>8. CASE FirstWatchList(s) \/ FirstWatchMeta(s)
  <2>1. list'[r] = list[r] /\ evs'[r] = evs[r] /\ wire'[r] = wire[r]
    BY <1>8 DEF FirstWatchList, FirstWatchMeta, WatchTypeOK
  <2> QED
    BY <1>8, <2>1 DEF FirstWatchList, FirstWatchMeta, SameStream
<1>9. ASSUME NEW p \in pushers, p.stream = s, PusherStep(p)
      PROVE  SameStream(r)
  <2>1. CASE Deliver(p)
    <3>1. PICK id \in p.ids :
            /\ resp' = [resp EXCEPT ![p.stream] =
                 {[entry |-> [kind |-> p.kind, id |-> id], told |-> p.told]}]
            /\ pushers' = (pushers \ {p}) \cup
                 (IF p.ids = {id} THEN {} ELSE {[p EXCEPT !.ids = @ \ {id}]})
      BY <2>1 DEF Deliver
    <3>2. [p EXCEPT !.ids = @ \ {id}].stream = s
      BY <1>9 DEF WatchTypeOK, Pusher
    <3>3. resp'[r] = resp[r]
      BY <1>9, <3>1 DEF WatchTypeOK
    <3>4. /\ \A q \in pushers : q.stream = r => q \in pushers'
          /\ \A q \in pushers' : q.stream = r => q \in pushers
      BY <1>9, <3>1, <3>2
    <3> QED
      BY <1>9, <2>1, <3>3, <3>4 DEF Deliver, SameStream, WatchTypeOK
  <2>2. CASE PushAbort(p) \/ PushPanic(p)
    BY <1>9, <2>2 DEF PushAbort, PushPanic, SameStream
  <2> QED
    BY <1>9, <2>1, <2>2 DEF PusherStep
<1> QED
  BY <1>1, <1>3, <1>4, <1>5, <1>6, <1>7, <1>8, <1>9 DEF HandlerStep, WireStep

\* The discipline of the goroutines of a stream is kept by its own steps.
LEMMA StreamInvStep ==
    ASSUME WatchTypeOK, NEW s \in Streams, StreamInv(s),
           \/ HandlerStep(s) \/ WireStep(s) \/ ClientGone(s)
           \/ \E p \in pushers : p.stream = s /\ PusherStep(p)
    PROVE  StreamInv(s)'
<1> USE DEF handlerVars, wireVars, pusherVars, historyVars
<1>1. CASE Open(s) \/ LeaveLoop(s) \/ CloseEventCh(s) \/ Unregister(s) \/ Cancel(s)
           \/ ClientGone(s)
  BY <1>1 DEF Open, LeaveLoop, CloseEventCh, Unregister, Cancel, ClientGone, StreamInv,
              WatchTypeOK
<1>2. CASE SendResp(s)
  <2>1. /\ loop[s] = "send" /\ loop'[s] \in {"select", "close"} /\ resp'[s] = {}
        /\ UNCHANGED <<watchers, watching, wire, req, list, evs>>
    BY <1>2 DEF SendResp, WatchTypeOK
  <2>2. from' = from
    BY <1>2 DEF SendResp, Tell
  <2> QED
    BY <2>1, <2>2 DEF StreamInv
<1>3. CASE SendReply(s)
  <2>1. /\ wire[s] \in {"send", "compose"} /\ wire'[s] \in {"recv", "ended"} /\ evs'[s] = {}
        /\ \A k \in Key : list[s][k] = Absent
        /\ UNCHANGED <<watchers, loop, resp, watching, list>>
    BY <1>3 DEF SendReply, EndWire, StreamInv, WatchTypeOK
  <2> QED
    BY <2>1 DEF StreamInv
<1>4. CASE RecvCreate(s)
  <2>1. /\ wire[s] = "recv"
        /\ UNCHANGED <<watchers, loop, resp, list, evs>>
    BY <1>4 DEF RecvCreate, Receive
  <2>2. \/ wire'[s] \in {"ended", "send"}
        \/ /\ wire'[s] = "list" /\ req'[s].entry \in watching'[s]
           /\ from'[s][req'[s].entry] = req'[s].start
    <3>1. PICK w \in WatchEntry, start \in 0..MaxRevision :
            \/ EndWire(s, TRUE)
            \/ /\ watching' = [watching EXCEPT ![s] = @ \cup {w}]
               /\ req' = [req EXCEPT ![s] = [entry |-> w, start |-> start]]
               /\ wire' = [wire EXCEPT ![s] = IF start = 0 THEN "send" ELSE "list"]
               /\ from' = [from EXCEPT ![s][w] = IF start = 0 THEN revision ELSE start]
      BY <1>4 DEF RecvCreate
    <3>2. CASE EndWire(s, TRUE)
      BY <3>2 DEF EndWire, WatchTypeOK
    <3>3. CASE ~EndWire(s, TRUE) /\ start = 0
      BY <3>1, <3>3 DEF WatchTypeOK
    <3>4. CASE ~EndWire(s, TRUE) /\ start # 0
      <4>1. /\ req'[s] = [entry |-> w, start |-> start] /\ w \in watching'[s]
            /\ wire'[s] = "list" /\ from'[s][w] = start
        <5>1. /\ watching' = [watching EXCEPT ![s] = @ \cup {w}]
              /\ req' = [req EXCEPT ![s] = [entry |-> w, start |-> start]]
              /\ wire' = [wire EXCEPT ![s] = "list"]
              /\ from' = [from EXCEPT ![s][w] = start]
          BY <3>1, <3>4
        <5>2. from'[s][w] = start
          BY <5>1 DEF WatchTypeOK
        <5> QED
          BY <5>1, <5>2 DEF WatchTypeOK
      <4> QED
        BY <4>1
    <3> QED
      BY <3>2, <3>3, <3>4
  <2> QED
    BY <2>1, <2>2 DEF StreamInv
<1>5. CASE RecvCancel(s)
  <2>1. /\ wire[s] = "recv" /\ wire'[s] \in {"ended", "send"}
        /\ UNCHANGED <<watchers, loop, resp, list, evs>>
    BY <1>5 DEF RecvCancel, Receive, CancelWatch, EndWire, WatchTypeOK
  <2> QED
    BY <2>1 DEF StreamInv
<1>6. CASE RecvRefused(s) \/ RecvFails(s)
  <2>1. /\ wire[s] = "recv" /\ wire'[s] = "ended"
        /\ UNCHANGED <<watchers, loop, resp, list, evs, watching>>
    BY <1>6 DEF RecvRefused, RecvFails, Receive, EndWire, WatchTypeOK
  <2> QED
    BY <2>1 DEF StreamInv
<1>7. CASE FirstWatchList(s)
  <2>1. /\ wire[s] = "list" /\ wire'[s] = "compose" /\ evs[s] = {}
        /\ UNCHANGED <<watchers, loop, resp, evs, watching, req, from>>
    BY <1>7 DEF FirstWatchList, StreamInv, WatchTypeOK
  <2> QED
    BY <2>1 DEF StreamInv
<1>8. CASE FirstWatchMeta(s)
  <2>1. PICK k \in Key :
          /\ list[s][k] # Absent
          /\ list' = [list EXCEPT ![s][k] = Absent]
          /\ evs' = [evs EXCEPT ![s] = @ \cup
               {[key |-> k, note |-> [val |-> list[s][k], mod |-> meta.mod]] :
                  meta \in {mt \in {metaCache[k]} :
                              mt # NoMeta /\ mt.mod >= req[s].start}}]
    BY <1>8 DEF FirstWatchMeta
  <2>2. /\ wire[s] = "compose"
        /\ UNCHANGED <<watchers, loop, resp, wire, watching, req, from>>
    BY <1>8 DEF FirstWatchMeta
  <2>3. list'[s][k] = Absent /\ \A j \in Key \ {k} : list'[s][j] = list[s][j]
    BY <2>1 DEF WatchTypeOK
  <2>4. \A t \in evs'[s] :
          t \in evs[s]
          \/ t = [key |-> k, note |-> [val |-> list[s][k], mod |-> metaCache[k].mod]]
    BY <2>1 DEF WatchTypeOK
  <2>5. \A t \in evs[s] : t.key # k /\ t.key \in Key
    BY <2>1 DEF StreamInv, WatchTypeOK, Told
  <2>6. \A t, u \in evs'[s] : t.key = u.key => t = u
    BY <2>4, <2>5 DEF StreamInv
  <2>7. \A t \in evs'[s] : list'[s][t.key] = Absent
    BY <2>3, <2>4, <2>5 DEF StreamInv
  <2> QED
    BY <2>2, <2>6, <2>7 DEF StreamInv
<1>9. ASSUME NEW p \in pushers, p.stream = s, PusherStep(p)
      PROVE  StreamInv(s)'
  <2>1. CASE Deliver(p)
    <3>1. PICK id \in p.ids :
            resp' = [resp EXCEPT ![s] =
                      {[entry |-> [kind |-> p.kind, id |-> id], told |-> p.told]}]
      BY <1>9, <2>1 DEF Deliver
    <3>2. /\ loop[s] = "select" /\ loop'[s] = "send"
          /\ UNCHANGED <<watchers, wireVars, from>>
      BY <1>9, <2>1 DEF Deliver, WatchTypeOK
    <3>3. \A r, q \in resp'[s] : r = q
      BY <3>1 DEF WatchTypeOK
    <3> QED
      BY <3>2, <3>3 DEF StreamInv
  <2>2. CASE PushAbort(p) \/ PushPanic(p)
    BY <2>2 DEF PushAbort, PushPanic, StreamInv
  <2> QED
    BY <1>9, <2>1, <2>2 DEF PusherStep
<1> QED
  BY <1>1, <1>2, <1>3, <1>4, <1>5, <1>6, <1>7, <1>8, <1>9 DEF HandlerStep, WireStep

\* Steps that tell the client nothing: of Watch, of onWire when it ends or cancels a
\* watch, and of the pushers.
LEMMA SilentSteps ==
    ASSUME WatchTypeOK, KVRests, NEW s \in Streams, ClientInv(s), StreamInv(s)',
           \/ HandlerStep(s) /\ (SendResp(s) => ctxDone[s])
           \/ ClientGone(s)
           \/ RecvCancel(s) \/ RecvRefused(s) \/ RecvFails(s)
           \/ SendReply(s) /\ (ctxDone[s] \/ evs[s] = {})
           \/ RecvCreate(s) /\ wire'[s] = "ended"
           \/ \E p \in pushers : p.stream = s /\ PusherStep(p)
    PROVE  ClientInv(s)'
<1> USE DEF handlerVars, wireVars, pusherVars, historyVars
<1>0. StreamInv(s)
  BY DEF ClientInv
<1>1. CASE Open(s) \/ LeaveLoop(s) \/ CloseEventCh(s) \/ Unregister(s) \/ Cancel(s)
           \/ ClientGone(s)
  <2>1. /\ \/ UNCHANGED <<resp, watching, wire, req, list, evs, pushers, historyVars>>
           \/ Open(s) /\ UNCHANGED <<resp, watching, req, list, evs, pushers, historyVars>>
        /\ Live(s)' => watching'[s] = {} \/ (Live(s) /\ ~Open(s))
    BY <1>0, <1>1 DEF Open, LeaveLoop, CloseEventCh, Unregister, Cancel, ClientGone, Live,
                      StreamInv, WatchTypeOK
  <2>2. \A w \in WatchEntry : \A k, note : Flies(s, w, k, note)' <=> Flies(s, w, k, note)
    BY <2>1 DEF Flies
  <2> QED
    BY <2>1, <2>2, StreamFrame
<1>2. CASE (SendResp(s) \/ SendReply(s)) /\ ctxDone[s]
  <2>1. /\ UNCHANGED <<watching, list, pushers, historyVars, ctxDone>>
        /\ resp'[s] = resp[s] \/ resp'[s] = {}
        /\ (req'[s] = req[s] /\ evs'[s] = evs[s]) \/ evs'[s] = {}
    BY <1>2 DEF SendResp, SendReply, WatchTypeOK
  <2>2. \A w \in WatchEntry : \A k, note : Flies(s, w, k, note)' => Flies(s, w, k, note)
    BY <2>1 DEF Flies
  <2>3. ~Live(s)'
    BY <1>2, <2>1 DEF Live
  <2> QED
    BY <2>1, <2>2, <2>3, StreamFrame
<1>3. CASE \/ RecvCancel(s) \/ RecvRefused(s) \/ RecvFails(s)
           \/ RecvCreate(s) /\ wire'[s] = "ended"
  <2>1. /\ wire[s] = "recv"
        /\ UNCHANGED <<loop, resp, ctxDone, req, list, evs, pushers, from, latest, newest>>
        /\ watching[s] \cup retired[s] \subseteq watching'[s] \cup retired'[s]
        /\ watching'[s] \ retired'[s] \subseteq watching[s] \ retired[s]
    <3>1. CASE RecvRefused(s) \/ RecvFails(s)
      BY <3>1 DEF RecvRefused, RecvFails, Receive
    <3>2. CASE RecvCreate(s) /\ wire'[s] = "ended"
      BY <3>2 DEF RecvCreate, Receive, WatchTypeOK
    <3>3. CASE RecvCancel(s)
      <4>1. \/ UNCHANGED <<watching, retired>>
            \/ \E e : /\ watching' = [watching EXCEPT ![s] = @ \ {e}]
                      /\ retired' = [retired EXCEPT ![s] = @ \cup {e}]
        BY <3>3 DEF RecvCancel, CancelWatch
      <4>2. /\ watching[s] \cup retired[s] \subseteq watching'[s] \cup retired'[s]
            /\ watching'[s] \ retired'[s] \subseteq watching[s] \ retired[s]
        BY <4>1 DEF WatchTypeOK
      <4> QED
        BY <3>3, <4>2 DEF RecvCancel, Receive
    <3> QED
      BY <1>3, <3>1, <3>2, <3>3
  <2>2. \A w \in WatchEntry : \A k, note : Flies(s, w, k, note)' <=> Flies(s, w, k, note)
    BY <2>1 DEF Flies
  <2>3. Live(s)' => Live(s)
    BY <2>1 DEF Live
  <2>4. ~Listing(s)
    BY <2>1 DEF Listing
  <2> QED
    BY <2>1, <2>2, <2>3, <2>4, StreamFrame
<1>5. CASE SendReply(s) /\ evs[s] = {} /\ ~ctxDone[s]
  <2>1. /\ UNCHANGED <<loop, watching, list, pushers, resp, historyVars, ctxDone>>
        /\ evs'[s] = {} /\ ~Listing(s)
    BY <1>0, <1>5 DEF SendReply, WatchTypeOK, Listing, StreamInv
  <2>2. \A w \in WatchEntry : \A k, note : Flies(s, w, k, note)' <=> Flies(s, w, k, note)
    BY <1>5, <2>1 DEF Flies
  <2>3. Live(s)' => Live(s)
    BY <2>1 DEF Live
  <2> QED
    BY <2>1, <2>2, <2>3, StreamFrame
<1>4. ASSUME NEW p \in pushers, p.stream = s, PusherStep(p)
      PROVE  ClientInv(s)'
  <2>1. CASE PushAbort(p) \/ PushPanic(p)
    <3>1. /\ pushers' \subseteq pushers
          /\ UNCHANGED <<loop, resp, wireVars, ctxDone, historyVars>>
          /\ ctxDone[s] \/ UNCHANGED pushers
      BY <1>4, <2>1 DEF PushAbort, PushPanic
    <3>2. \A w \in WatchEntry : \A k, note : Flies(s, w, k, note)' => Flies(s, w, k, note)
      BY <3>1 DEF Flies
    <3>3. Live(s)' => Live(s) /\ UNCHANGED pushers
      BY <3>1 DEF Live
    <3>4. UNCHANGED pushers =>
            \A w \in WatchEntry : \A k, note : Flies(s, w, k, note) => Flies(s, w, k, note)'
      BY <3>1 DEF Flies
    <3> QED
      BY <3>1, <3>2, <3>3, <3>4, StreamFrame
  <2>2. CASE Deliver(p)
    <3>1. PICK id \in p.ids :
            /\ resp' = [resp EXCEPT ![s] =
                 {[entry |-> [kind |-> p.kind, id |-> id], told |-> p.told]}]
            /\ pushers' = (pushers \ {p}) \cup
                 (IF p.ids = {id} THEN {} ELSE {[p EXCEPT !.ids = @ \ {id}]})
      BY <1>4, <2>2 DEF Deliver
    <3>2. /\ loop[s] = "select" /\ loop'[s] = "send" /\ resp[s] = {}
          /\ UNCHANGED <<wireVars, ctxDone, historyVars>>
      BY <1>0, <1>4, <2>2 DEF Deliver, WatchTypeOK, StreamInv
    <3>3. \A w \in WatchEntry : \A k, note : Flies(s, w, k, note)' <=> Flies(s, w, k, note)
      <4> SUFFICES ASSUME NEW w \in WatchEntry, NEW k, NEW note
                   PROVE  Flies(s, w, k, note)' <=> Flies(s, w, k, note)
        OBVIOUS
      <4> DEFINE told == [key |-> k, note |-> note]
                 moved == p.kind = w.kind /\ w.id = id /\ p.told = told
                 Pushes(q) == q.stream = s /\ q.kind = w.kind /\ w.id \in q.ids /\ q.told = told
                 rest == [p EXCEPT !.ids = @ \ {id}]
      <4>1. /\ rest.stream = s /\ rest.kind = p.kind /\ rest.told = p.told
            /\ rest.ids = p.ids \ {id}
        BY <1>4 DEF WatchTypeOK, Pusher
      <4>2. (\E q \in pushers : Pushes(q)) <=> moved \/ \E q \in pushers' : Pushes(q)
        <5> HIDE DEF rest, told
        <5>1. pushers' = (pushers \ {p}) \cup (IF p.ids = {id} THEN {} ELSE {rest})
          BY <3>1 DEF rest
        <5>2. Pushes(p) <=> moved \/ (p.ids # {id} /\ Pushes(rest))
          BY <1>4, <4>1, <3>1
        <5> QED
          BY <5>1, <5>2
      <4>3. [entry |-> w, told |-> told] \in resp'[s] <=> moved
        <5>1. w = [kind |-> w.kind, id |-> w.id]
          BY DEF WatchEntry
        <5>2. w = [kind |-> p.kind, id |-> id] <=> p.kind = w.kind /\ w.id = id
          BY <5>1
        <5>3. resp'[s] = {[entry |-> [kind |-> p.kind, id |-> id], told |-> p.told]}
          BY <3>1 DEF WatchTypeOK
        <5> QED
          BY <5>2, <5>3
      <4> HIDE DEF moved
      <4>4. Flies(s, w, k, note) <=> \/ \E q \in pushers : Pushes(q)
                                     \/ req[s].entry = w /\ told \in evs[s]
        BY <3>2 DEF Flies
      <4>5. Flies(s, w, k, note)' <=> \/ \E q \in pushers' : Pushes(q)
                                      \/ moved
                                      \/ req[s].entry = w /\ told \in evs[s]
        BY <3>2, <4>3 DEF Flies
      <4> QED
        BY <4>2, <4>4, <4>5
    <3>4. Live(s)' => Live(s)
      BY <3>2 DEF Live
    <3> QED
      BY <3>2, <3>3, <3>4, StreamFrame
  <2> QED
    BY <1>4, <2>1, <2>2 DEF PusherStep
<1> QED
  BY <1>1, <1>2, <1>3, <1>4, <1>5 DEF HandlerStep

\* Which keys the batch has not disturbed: their metadata and their mod revisions.
LEMMA SettledKey ==
    ASSUME WatchTypeOK, MetaInv, KVInv, NEW k \in Key \ (spoiled \cup UnfannedKeys)
    PROVE  /\ cache[k] < revision
           /\ metaCache[k] = NoMeta <=> cache[k] = Absent
           /\ metaCache[k] # NoMeta => metaCache[k].mod = cache[k]
<1>1. TypeOK /\ filled \subseteq spoiled
  BY DEF WatchTypeOK, KVInv
<1>2. \A i \in Nat : Fanned(i) => Pushed(i)
  BY <1>1 DEF Fanned, Pushed, TypeOK
<1>3. Pending \subseteq Unfanned
  <2>1. DOMAIN events \subseteq Nat
    BY <1>1 DEF TypeOK
  <2> QED
    BY <2>1, <1>2 DEF Pending, Unfanned
<1>4. k \notin PendingKeys \cup filled
  BY <1>1, <1>3 DEF PendingKeys, UnfannedKeys
<1>5. /\ metaCache[k] = NoMeta <=> cache[k] = Absent
      /\ metaCache[k] # NoMeta => metaCache[k].mod = cache[k]
  BY <1>4 DEF MetaInv, PushedMetaExact
<1>6. metaCache[k] # NoMeta => metaCache[k].mod < revision
  BY <1>4 DEF MetaInv, MetaPrecedesPending
<1>7. cache[k] < revision
  BY <1>1, <1>5, <1>6 DEF TypeOK, Absent
<1> QED
  BY <1>5, <1>7

\* The mod revision that firstWatch reads is no newer than an event that is yet to
\* be fanned out.
LEMMA ReadMetaOld ==
    ASSUME WatchTypeOK, MetaInv, KVInv, NEW k \in Key \ spoiled, metaCache[k] # NoMeta
    PROVE  OldMod(k, metaCache[k].mod)
<1>1. TypeOK /\ k \notin filled
  BY DEF WatchTypeOK, KVInv
<1>2. /\ metaCache[k].mod < revision
      /\ \A i \in Pending : Numbered(i) /\ events[i].key = k =>
            metaCache[k].mod < events[i].rev
  BY <1>1 DEF MetaInv, MetaPrecedesPending
<1>3. metaCache[k].mod \in Nat
  BY <1>1 DEF TypeOK, Meta
<1>4. ASSUME NEW i \in Unfanned, Numbered(i), events[i].key = k
      PROVE  /\ metaCache[k].mod <= events[i].rev
             /\ events[i].type = "delete" => metaCache[k].mod < events[i].rev
  <2>0. i \in Nat /\ events[i].rev \in Nat
    <3>1. i \in Nat /\ events[i] \in Event
      BY <1>1 DEF TypeOK, Unfanned
    <3> QED
      BY <3>1 DEF Event
  <2>1. CASE i \in Pending
    BY <2>0, <2>1, <1>2, <1>3, <1>4
  <2>2. CASE i \notin Pending
    <3>1. Pushed(i) /\ ~Fanned(i)
      BY <2>2 DEF Pending, Unfanned
    <3>2. pc = "fanout" /\ i = at
      BY <1>1, <2>0, <3>1 DEF TypeOK, Pushed, Fanned
    <3> QED
      BY <1>1, <1>3, <1>4, <2>0, <3>2 DEF KVInv, MetaBeforeFanout
  <2> QED
    BY <2>1, <2>2
<1> QED
  BY <1>2, <1>4 DEF OldMod

LEMMA ObjectsBoundStep ==
    ASSUME KVRests, NEW s \in Streams,
           \A k \in Key : Old(k, list'[s][k]),
           \A w \in WatchEntry : \A k \in Key :
              /\ Old(k, latest'[s][w][k])
              /\ \A note \in Note : Flies(s, w, k, note)' => Old(k, note.val)
    PROVE  ObjectsBound(s)'
<1>1. \A k, v : (v < NextRevision' /\ (cache'[k] # Absent => v <= cache'[k])) <=> Old(k, v)
  BY KVRestsFacts DEF Old
<1> QED
  BY <1>1 DEF ObjectsBound, Old

\* A create request that is granted: nothing is on its way for a watch that never was,
\* and it is to be told of what is cached, if at all, by firstWatch.
LEMMA CreateStep ==
    ASSUME WatchTypeOK, MetaInv, KVInv, KVRests, NEW s \in Streams, ClientInv(s),
           StreamInv(s)', RecvCreate(s), wire'[s] # "ended"
    PROVE  ClientInv(s)'
<1> USE DEF handlerVars, wireVars, pusherVars, historyVars
<1>1. /\ UNCHANGED <<cache, revision, spoiled>> /\ UnfannedKeys' = UnfannedKeys
      /\ \A k, v : Old(k, v)' <=> Old(k, v)
      /\ \A k, v : OldMod(k, v)' <=> OldMod(k, v)
  BY KVRestsFacts
<1>2. /\ wire[s] = "recv" /\ evs[s] = {}
      /\ UNCHANGED <<loop, resp, list, evs, ctxDone, pushers, retired>>
  BY DEF RecvCreate, Receive, ClientInv, StreamInv, EndWire, WatchTypeOK
<1>3. PICK w \in WatchEntry, start \in 0..MaxRevision :
        /\ w \notin watching[s]
        /\ watching' = [watching EXCEPT ![s] = @ \cup {w}]
        /\ req' = [req EXCEPT ![s] = [entry |-> w, start |-> start]]
        /\ wire' = [wire EXCEPT ![s] = IF start = 0 THEN "send" ELSE "list"]
        /\ from' = [from EXCEPT ![s][w] = IF start = 0 THEN revision ELSE start]
        /\ latest' = [latest EXCEPT ![s][w] = [k \in Key |-> Absent]]
        /\ newest' = [newest EXCEPT ![s][w] = [k \in Key |-> NoNote]]
  BY DEF RecvCreate, EndWire, WatchTypeOK
<1>4. /\ watching'[s] = watching[s] \cup {w}
      /\ req'[s].entry = w
      /\ start # 0 => wire'[s] = "list"
      /\ start = 0 => from'[s][w] = revision
      /\ latest'[s][w] = [k \in Key |-> Absent]
      /\ newest'[s][w] = [k \in Key |-> NoNote]
      /\ \A v \in WatchEntry \ {w} : /\ from'[s][v] = from[s][v]
                                    /\ latest'[s][v] = latest[s][v]
                                    /\ newest'[s][v] = newest[s][v]
  <2>1. watching'[s] = watching[s] \cup {w} /\ req'[s] = [entry |-> w, start |-> start]
    BY <1>3 DEF WatchTypeOK
  <2>2. start # 0 => wire'[s] = "list"
    BY <1>3 DEF WatchTypeOK
  <2>3. /\ start = 0 => from'[s][w] = revision
        /\ \A v \in WatchEntry \ {w} : from'[s][v] = from[s][v]
    BY <1>3 DEF WatchTypeOK
  <2>4. /\ latest'[s][w] = [k \in Key |-> Absent]
        /\ \A v \in WatchEntry \ {w} : latest'[s][v] = latest[s][v]
    BY <1>3 DEF WatchTypeOK
  <2>5. /\ newest'[s][w] = [k \in Key |-> NoNote]
        /\ \A v \in WatchEntry \ {w} : newest'[s][v] = newest[s][v]
    BY <1>3 DEF WatchTypeOK
  <2> QED
    BY <2>1, <2>2, <2>3, <2>4, <2>5
<1>5. \A v, k, note : Flies(s, v, k, note)' <=> Flies(s, v, k, note)
  BY <1>2 DEF Flies
<1>6. FlownByWatches(s)'
  BY <1>2, <1>4, <1>5 DEF ClientInv, FlownByWatches
<1>7. TypeOK /\ revision \in Nat /\ cache \in [Key -> Nat \cup {Absent}]
  BY DEF WatchTypeOK, TypeOK
<1>8. ObjectsBound(s)'
  <2>1. \A k \in Key : Old(k, Absent)
    BY <1>7 DEF Old, NextRevision, Absent
  <2>2. \A v \in WatchEntry : \A k \in Key : Old(k, latest'[s][v][k])
    BY <2>1, <1>4 DEF ClientInv, ObjectsBound
  <2>3. \A k \in Key : Old(k, list'[s][k])
    BY <1>2 DEF ClientInv, ObjectsBound
  <2>4. \A v \in WatchEntry : \A k \in Key : \A note \in Note :
          Flies(s, v, k, note)' => Old(k, note.val)
    BY <1>5 DEF ClientInv, ObjectsBound
  <2> QED
    BY <2>2, <2>3, <2>4, ObjectsBoundStep
<1>9. ModsBound(s)'
  <2> SUFFICES ASSUME NEW v \in WatchEntry, NEW k \in Key \ spoiled,
                      NEW note \in Note \cup {NoNote}, Known(s, v, k, note)'
               PROVE  OldMod(k, note.mod)
    BY <1>1 DEF ModsBound
  <2>1. CASE Known(s, v, k, note)
    BY <2>1 DEF ClientInv, ModsBound
  <2>2. CASE note = NoNote
    <3>1. note.mod = -1
      BY <2>2 DEF NoNote, Absent
    <3>2. \A i \in Unfanned : events[i].rev \in Nat
      <4>1. \A i \in Unfanned : events[i] \in Event
        BY <1>7 DEF TypeOK, Unfanned
      <4> QED
        BY <4>1 DEF Event
    <3> QED
      BY <3>1, <3>2, <1>7 DEF OldMod
  <2> QED
    BY <2>1, <2>2, <1>4, <1>5 DEF Known
<1>10. ASSUME w \notin retired[s] PROVE \A k \in Key : \A note \in Note : ~Flies(s, w, k, note)
  BY <1>3, <1>10 DEF ClientInv, FlownByWatches
<1>11. Live(s)' => Live(s)
  BY <1>2 DEF Live
<1>12. PutsReach(s)'
  <2> SUFFICES ASSUME Live(s)', NEW v \in watching'[s] \ retired'[s],
                      NEW k \in KeysOf(v.kind) \ (spoiled \cup UnfannedKeys),
                      cache[k] >= from'[s][v]
               PROVE  PutReaches(s, v, k)'
    BY <1>1 DEF PutsReach
  <2>1. k \in Key
    BY DEF KeysOf, Key
  <2>2. CASE v = w
    <3>1. start # 0
      <4>1. cache[k] < revision /\ cache[k] \in Int
        BY <2>1, <1>7, SettledKey DEF Absent
      <4> QED
        BY <2>2, <4>1, <1>4, <1>7
    <3> QED
      BY <2>2, <3>1, <1>4 DEF PutReaches
  <2>3. CASE v # w
    <3>1. v \in watching[s] \ retired[s] /\ v \in WatchEntry
      BY <2>3, <1>2, <1>4 DEF WatchTypeOK
    <3>2. PutReaches(s, v, k)
      BY <2>3, <3>1, <1>4, <1>11 DEF ClientInv, PutsReach
    <3> QED
      BY <2>3, <3>1, <3>2, <1>1, <1>2, <1>4, <1>5 DEF PutReaches
  <2> QED
    BY <2>2, <2>3
<1>13. DeletesReach(s)'
  <2> SUFFICES ASSUME Live(s)', NEW v \in watching'[s] \ retired'[s],
                      NEW k \in KeysOf(v.kind) \ (spoiled \cup UnfannedKeys),
                      cache[k] = Absent,
                      NEW note \in Note, Known(s, v, k, note)', note.val # Absent
               PROVE  Outdated(s, v, k, note)'
    BY <1>1 DEF DeletesReach
  <2>1. k \in Key
    BY DEF KeysOf, Key
  <2>2. CASE v = w
    <3>1. ~Flies(s, w, k, note) /\ newest'[s][w][k].val = Absent
      BY <2>1, <2>2, <1>2, <1>4, <1>10 DEF NoNote
    <3> QED
      BY <2>2, <3>1, <1>5 DEF Known
  <2>3. CASE v # w
    <3>1. v \in watching[s] \ retired[s] /\ v \in WatchEntry
      BY <2>3, <1>2, <1>4 DEF WatchTypeOK
    <3>2. \A n : Known(s, v, k, n)' <=> Known(s, v, k, n)
      BY <2>3, <3>1, <1>4, <1>5 DEF Known
    <3>3. Outdated(s, v, k, note)
      BY <3>1, <3>2, <1>11 DEF ClientInv, DeletesReach
    <3> QED
      BY <3>2, <3>3 DEF Outdated
  <2> QED
    BY <2>2, <2>3
<1> QED
  BY <1>6, <1>8, <1>9, <1>12, <1>13 DEF ClientInv

\* firstWatch lists what is cached.
LEMMA FirstWatchListStep ==
    ASSUME WatchTypeOK, KVInv, KVRests, NEW s \in Streams, ClientInv(s), StreamInv(s)',
           FirstWatchList(s)
    PROVE  ClientInv(s)'
<1> USE DEF handlerVars, wireVars, pusherVars, historyVars
<1>1. /\ UNCHANGED <<cache, revision, spoiled>> /\ UnfannedKeys' = UnfannedKeys
      /\ \A k, v : Old(k, v)' <=> Old(k, v)
      /\ \A k, v : OldMod(k, v)' <=> OldMod(k, v)
  BY KVRestsFacts
<1>2. /\ wire[s] = "list" /\ wire'[s] = "compose"
      /\ \A k \in Key : list'[s][k] = IF k \in KeysOf(req[s].entry.kind) THEN cache[k]
                                      ELSE Absent
      /\ UNCHANGED <<loop, resp, watching, req, evs, ctxDone, pushers>>
      /\ UNCHANGED <<from, retired, latest, newest>>
  BY DEF FirstWatchList, WatchTypeOK
<1>3. \A w, k, note : Flies(s, w, k, note)' <=> Flies(s, w, k, note)
  BY <1>2 DEF Flies
<1>4. \A w, k, note : Known(s, w, k, note)' <=> Known(s, w, k, note)
  BY <1>2, <1>3 DEF Known
<1>5. FlownByWatches(s)'
  BY <1>2, <1>3 DEF ClientInv, FlownByWatches
<1>6. ObjectsBound(s)'
  <2>1. \A k \in Key : cache[k] \in Int /\ Absent <= cache[k] /\ Absent < NextRevision
    BY DEF WatchTypeOK, TypeOK, Absent, NextRevision
  <2>2. \A k \in Key : Old(k, list'[s][k])
    BY <1>2, <2>1 DEF KVInv, Old
  <2>3. \A w \in WatchEntry : \A k \in Key :
          /\ Old(k, latest'[s][w][k])
          /\ \A note \in Note : Flies(s, w, k, note)' => Old(k, note.val)
    BY <1>2, <1>3 DEF ClientInv, ObjectsBound
  <2> QED
    BY <2>2, <2>3, ObjectsBoundStep
<1>7. ModsBound(s)'
  BY <1>1, <1>4 DEF ClientInv, ModsBound
<1>8. Live(s)' <=> Live(s)
  BY <1>2 DEF Live
<1>9. PutsReach(s)'
  <2> SUFFICES ASSUME Live(s), NEW w \in watching[s] \ retired[s],
                      NEW k \in KeysOf(w.kind) \ (spoiled \cup UnfannedKeys),
                      cache[k] >= from[s][w]
               PROVE  PutReaches(s, w, k)'
    BY <1>1, <1>2, <1>8 DEF PutsReach
  <2>1. PutReaches(s, w, k)
    BY DEF ClientInv, PutsReach
  <2>2. k \in Key
    BY DEF KeysOf, Key
  <2> QED
    BY <1>1, <1>2, <1>3, <2>1, <2>2 DEF PutReaches
<1>10. DeletesReach(s)'
  BY <1>1, <1>2, <1>4, <1>8 DEF ClientInv, DeletesReach, Outdated
<1> QED
  BY <1>5, <1>6, <1>7, <1>9, <1>10 DEF ClientInv

\* firstWatch looks at a listed object: it becomes an event of the answer, unless the
\* client did not ask for it or an event that is yet to be fanned out brings it.
LEMMA FirstWatchMetaStep ==
    ASSUME WatchTypeOK, MetaInv, KVInv, KVRests, NEW s \in Streams, ClientInv(s),
           StreamInv(s)', FirstWatchMeta(s)
    PROVE  ClientInv(s)'
<1> USE DEF handlerVars, wireVars, pusherVars, historyVars
<1>1. /\ UNCHANGED <<cache, revision, spoiled>> /\ UnfannedKeys' = UnfannedKeys
      /\ \A k, v : Old(k, v)' <=> Old(k, v)
      /\ \A k, v : OldMod(k, v)' <=> OldMod(k, v)
  BY KVRestsFacts
<1>2. /\ wire[s] = "compose" /\ UNCHANGED <<loop, resp, watching, wire, req, ctxDone, pushers>>
      /\ UNCHANGED <<from, retired, latest, newest>>
  BY DEF FirstWatchMeta
<1>3. PICK k \in Key :
        /\ list[s][k] # Absent
        /\ list' = [list EXCEPT ![s][k] = Absent]
        /\ evs' = [evs EXCEPT ![s] = @ \cup
             {[key |-> k, note |-> [val |-> list[s][k], mod |-> meta.mod]] :
                meta \in {mt \in {metaCache[k]} :
                            mt # NoMeta /\ mt.mod >= req[s].start}}]
  BY DEF FirstWatchMeta
<1> DEFINE entry == req[s].entry
           new == [val |-> list[s][k], mod |-> metaCache[k].mod]
           added == metaCache[k] # NoMeta /\ metaCache[k].mod >= req[s].start
<1>4. list'[s][k] = Absent /\ \A j \in Key \ {k} : list'[s][j] = list[s][j]
  BY <1>3 DEF WatchTypeOK
<1>5. \A t : t \in evs'[s] <=> t \in evs[s] \/ (added /\ t = [key |-> k, note |-> new])
  BY <1>3 DEF WatchTypeOK
<1>6. /\ entry \in watching[s] /\ from[s][entry] = req[s].start /\ entry \in WatchEntry
      /\ list[s][k] \in Nat
  BY <1>2, <1>3 DEF ClientInv, StreamInv, WatchTypeOK
<1>7. metaCache[k] # NoMeta => new \in Note /\ new.val = list[s][k] /\ new.mod = metaCache[k].mod
  BY <1>6 DEF WatchTypeOK, TypeOK, Meta, Note
<1> HIDE DEF new, added, entry
<1>8. \A w, j, note : Flies(s, w, j, note)' <=>
        \/ Flies(s, w, j, note)
        \/ w = entry /\ j = k /\ note = new /\ added
  BY <1>2, <1>5 DEF Flies, entry
<1>9. FlownByWatches(s)'
  BY <1>2, <1>6, <1>8 DEF ClientInv, FlownByWatches
<1>10. ObjectsBound(s)'
  <2>1. \A j \in Key : Old(j, list'[s][j])
    <3>1. Old(k, Absent)
      BY DEF Old, NextRevision, WatchTypeOK, TypeOK, Absent
    <3> QED
      BY <3>1, <1>4 DEF ClientInv, ObjectsBound
  <2>2. added => Old(k, new.val)
    BY <1>7 DEF ClientInv, ObjectsBound, added
  <2>3. \A w \in WatchEntry : \A j \in Key : \A note \in Note :
          Flies(s, w, j, note)' => Old(j, note.val)
    BY <2>2, <1>8 DEF ClientInv, ObjectsBound
  <2>4. \A w \in WatchEntry : \A j \in Key : Old(j, latest'[s][w][j])
    BY <1>2 DEF ClientInv, ObjectsBound
  <2> QED
    BY <2>1, <2>3, <2>4, ObjectsBoundStep
<1>11. ModsBound(s)'
  <2> SUFFICES ASSUME NEW w \in WatchEntry, NEW j \in Key \ spoiled,
                      NEW note \in Note \cup {NoNote}, Known(s, w, j, note)'
               PROVE  OldMod(j, note.mod)
    BY <1>1 DEF ModsBound
  <2>1. CASE Known(s, w, j, note)
    BY <2>1 DEF ClientInv, ModsBound
  <2>2. CASE j = k /\ note = new /\ added
    BY <2>2, <1>7, ReadMetaOld DEF added
  <2> QED
    BY <2>1, <2>2, <1>2, <1>8 DEF Known
<1>12. Live(s)' <=> Live(s)
  BY <1>2 DEF Live
<1>13. PutsReach(s)'
  <2> SUFFICES ASSUME Live(s), NEW w \in watching[s] \ retired[s],
                      NEW j \in KeysOf(w.kind) \ (spoiled \cup UnfannedKeys),
                      cache[j] >= from[s][w]
               PROVE  PutReaches(s, w, j)'
    BY <1>1, <1>2, <1>12 DEF PutsReach
  <2>1. PutReaches(s, w, j)
    BY DEF ClientInv, PutsReach
  <2>2. j \in Key
    BY DEF KeysOf, Key
  <2>3. CASE w = entry /\ j = k /\ list[s][k] = cache[k]
    <3>1. metaCache[k] # NoMeta /\ metaCache[k].mod = cache[k]
      BY <2>3, <1>3, SettledKey
    <3>2. added
      BY <2>3, <3>1, <1>6 DEF added
    <3>3. PICK note \in Note : note = new
      BY <3>1, <1>7
    <3>4. note.val = cache[k] /\ Flies(s, w, k, note)'
      BY <2>3, <3>1, <3>2, <3>3, <1>7, <1>8
    <3> QED
      BY <2>3, <3>4, <1>1 DEF PutReaches
  <2>4. CASE ~(w = entry /\ j = k /\ list[s][k] = cache[k])
    BY <2>1, <2>2, <2>4, <1>1, <1>2, <1>4, <1>8 DEF PutReaches, entry
  <2> QED
    BY <2>3, <2>4
<1>14. DeletesReach(s)'
  <2> SUFFICES ASSUME Live(s), NEW w \in watching[s] \ retired[s],
                      NEW j \in KeysOf(w.kind) \ (spoiled \cup UnfannedKeys),
                      cache[j] = Absent,
                      NEW note \in Note, Known(s, w, j, note)', note.val # Absent
               PROVE  Outdated(s, w, j, note)'
    BY <1>1, <1>2, <1>12 DEF DeletesReach
  <2>1. j \in Key
    BY DEF KeysOf, Key
  <2>2. ~(j = k /\ added)
    BY <2>1, SettledKey DEF added
  <2>3. Outdated(s, w, j, note)
    BY <2>2, <1>2, <1>8 DEF ClientInv, DeletesReach, Known
  <2> QED
    BY <2>3, <1>2, <1>8 DEF Outdated, Known
<1> QED
  BY <1>9, <1>10, <1>11, <1>13, <1>14 DEF ClientInv

\* The effect of Tell on stream s, as TellEffect gives it.
Hears(s, w, told) ==
    /\ from'[s] = from[s] /\ retired'[s] = retired[s]
    /\ \A v \in WatchEntry : v # w =>
          latest'[s][v] = latest[s][v] /\ newest'[s][v] = newest[s][v]
    /\ \A k \in Key : (\A t \in told : t.key # k) =>
          latest'[s][w][k] = latest[s][w][k] /\ newest'[s][w][k] = newest[s][w][k]
    /\ \A t \in told :
          /\ latest'[s][w][t.key] = IF t.note.val > latest[s][w][t.key]
                                    THEN t.note.val ELSE latest[s][w][t.key]
          /\ newest'[s][w][t.key] = IF t.note.mod >= newest[s][w][t.key].mod
                                    THEN t.note ELSE newest[s][w][t.key]

\* A watch of stream s is told what Hears says.
LEMMA TellHears ==
    ASSUME WatchTypeOK, NEW s \in Streams, NEW w \in WatchEntry,
           NEW told \in SUBSET Told, \A t, u \in told : t.key = u.key => t = u,
           Tell(s, w, told)
    PROVE  Hears(s, w, told)
<1>1. /\ UNCHANGED <<from, retired>>
      /\ \A r \in Streams : \A v \in WatchEntry : r # s \/ v # w =>
            latest'[r][v] = latest[r][v] /\ newest'[r][v] = newest[r][v]
      /\ \A k \in Key : (\A t \in told : t.key # k) =>
            /\ latest'[s][w][k] = latest[s][w][k]
            /\ newest'[s][w][k] = newest[s][w][k]
      /\ \A t \in told :
            /\ latest'[s][w][t.key] = IF t.note.val > latest[s][w][t.key]
                                      THEN t.note.val ELSE latest[s][w][t.key]
            /\ newest'[s][w][t.key] = IF t.note.mod >= newest[s][w][t.key].mod
                                      THEN t.note ELSE newest[s][w][t.key]
  BY TellEffect
<1>2. from'[s] = from[s] /\ retired'[s] = retired[s]
  BY <1>1
<1>3. \A v \in WatchEntry : v # w =>
        latest'[s][v] = latest[s][v] /\ newest'[s][v] = newest[s][v]
  BY <1>1
<1> QED
  BY <1>1, <1>2, <1>3 DEF Hears

\* What the client knows of one key of a watch changes if one note that was on its way
\* is told: if a deletion it knew of is forgotten, a newer one is known.
LEMMA DeletionKept ==
    ASSUME WatchTypeOK, NEW s \in Streams, NEW w \in WatchEntry, NEW k \in Key, NEW new \in Note,
           Flies(s, w, k, new),
           \A note \in Note : Flies(s, w, k, note) => Flies(s, w, k, note)' \/ note = new,
           newest'[s][w][k] = IF new.mod >= newest[s][w][k].mod THEN new
                              ELSE newest[s][w][k],
           \A note \in Note : Known(s, w, k, note) /\ note.val # Absent =>
              Outdated(s, w, k, note),
           NEW gone \in Note, Known(s, w, k, gone), gone.val = Absent
    PROVE  \E g \in Note : Known(s, w, k, g)' /\ g.val = Absent /\ g.mod >= gone.mod
<1> DEFINE old == newest[s][w][k]
<1>1. /\ \A note \in Note : note.mod \in Nat
      /\ old \in Note \cup {NoNote}
      /\ NoNote.mod = -1
  BY DEF Note, NoNote, Absent, WatchTypeOK
<1>2. old.mod \in Int /\ (old.mod >= 0 => old \in Note)
  BY <1>1
<1> HIDE DEF old
<1>3. \A note \in Note : Known(s, w, k, note) <=> Flies(s, w, k, note) \/ note = old
  BY DEF Known, old
<1>4. newest'[s][w][k] = IF new.mod >= old.mod THEN new ELSE old
  BY DEF old
<1>5. ASSUME NEW x \in Note, x.val # Absent, Known(s, w, k, x),
             x.mod >= gone.mod, x.mod >= new.mod, x.mod >= old.mod
      PROVE  \E g \in Note : Known(s, w, k, g)' /\ g.val = Absent /\ g.mod >= gone.mod
  <2>1. PICK g \in Note : Known(s, w, k, g) /\ g.val = Absent /\ g.mod > x.mod
    BY <1>5 DEF Outdated
  <2>2. g # old /\ g # new
    BY <2>1, <1>1, <1>2, <1>5
  <2>3. Flies(s, w, k, g)'
    BY <2>1, <2>2, <1>3
  <2> QED
    BY <2>1, <2>3, <1>1, <1>5 DEF Known
<1>6. CASE new.mod >= old.mod
  <2>1. Known(s, w, k, new)'
    BY <1>4, <1>6 DEF Known
  <2>2. CASE gone # old /\ gone # new
    BY <2>2, <1>1, <1>3 DEF Known
  <2>3. CASE gone = old \/ gone = new
    <3>1. new.mod >= gone.mod
      BY <2>3, <1>1, <1>6
    <3>2. CASE new.val = Absent
      BY <2>1, <3>1, <3>2
    <3>3. CASE new.val # Absent
      BY <3>1, <3>3, <1>1, <1>3, <1>5, <1>6
    <3> QED
      BY <3>2, <3>3
  <2> QED
    BY <2>2, <2>3
<1>7. CASE ~(new.mod >= old.mod)
  <2>1. old \in Note /\ old.mod > new.mod
    BY <1>1, <1>2, <1>7
  <2>2. Known(s, w, k, old) /\ newest'[s][w][k] = old
    BY <2>1, <1>3, <1>4, <1>7
  <2>3. ASSUME NEW note \in Note, note = old PROVE Known(s, w, k, note)'
    BY <2>2, <2>3 DEF Known
  <2>4. CASE gone # new
    <3>1. Known(s, w, k, gone)'
      BY <2>3, <2>4, <1>3 DEF Known
    <3> QED
      BY <3>1, <1>1
  <2>5. CASE gone = new
    <3>1. CASE old.val = Absent
      BY <2>1, <2>3, <2>5, <3>1, <1>1
    <3>2. CASE old.val # Absent
      BY <2>1, <2>2, <2>5, <3>2, <1>1, <1>5
    <3> QED
      BY <3>1, <3>2
  <2> QED
    BY <2>4, <2>5
<1> QED
  BY <1>6, <1>7

\* The client hears on watch w what was on its way to it.
LEMMA HearsStep ==
    ASSUME WatchTypeOK, WatchTypeOK', KVRests, NEW s \in Streams, ClientInv(s), StreamInv(s)',
           NEW w \in WatchEntry, NEW told \in SUBSET Told,
           \A t, u \in told : t.key = u.key => t = u,
           Hears(s, w, told),
           \A t \in told : Flies(s, w, t.key, t.note),
           \A v \in WatchEntry : \A k, note : Flies(s, v, k, note)' => Flies(s, v, k, note),
           \A v \in WatchEntry : \A k, note : Flies(s, v, k, note) =>
              \/ Flies(s, v, k, note)'
              \/ v = w /\ [key |-> k, note |-> note] \in told,
           list'[s] = list[s], watching'[s] = watching[s],
           Live(s)' => Live(s),
           Listing(s) => wire'[s] = wire[s] /\ req'[s] = req[s]
    PROVE  ClientInv(s)'
<1>1. /\ UNCHANGED <<cache, revision, spoiled>> /\ UnfannedKeys' = UnfannedKeys
      /\ \A k, v : Old(k, v)' <=> Old(k, v)
      /\ \A k, v : OldMod(k, v)' <=> OldMod(k, v)
  BY KVRestsFacts
<1>2. /\ from'[s] = from[s] /\ retired'[s] = retired[s]
      /\ \A v \in WatchEntry : \A k \in Key : \/ latest'[s][v][k] = latest[s][v][k]
                                              \/ \E t \in told :
                                                   /\ v = w /\ t.key = k
                                                   /\ latest'[s][v][k] = t.note.val
      /\ \A v \in WatchEntry : \A k \in Key : \/ newest'[s][v][k] = newest[s][v][k]
                                              \/ \E t \in told :
                                                   /\ v = w /\ t.key = k
                                                   /\ newest'[s][v][k] = t.note
  BY DEF Hears
<1>3. \A t \in told : t = [key |-> t.key, note |-> t.note] /\ t.key \in Key /\ t.note \in Note
  BY DEF Told
<1>4. \A v \in WatchEntry : \A k \in Key : \A note : Known(s, v, k, note)' => Known(s, v, k, note)
  BY <1>2 DEF Known
<1>5. FlownByWatches(s)'
  BY <1>2 DEF ClientInv, FlownByWatches
<1>6. ObjectsBound(s)'
  <2>1. \A v \in WatchEntry : \A k \in Key : Old(k, latest'[s][v][k])
    BY <1>2, <1>3 DEF ClientInv, ObjectsBound
  <2> QED
    BY <2>1, ObjectsBoundStep DEF ClientInv, ObjectsBound
<1>7. ModsBound(s)'
  BY <1>1, <1>4 DEF ClientInv, ModsBound
<1>8. PutsReach(s)'
  <2> SUFFICES ASSUME Live(s), NEW v \in watching[s] \ retired[s],
                      NEW k \in KeysOf(v.kind) \ (spoiled \cup UnfannedKeys),
                      cache[k] >= from[s][v]
               PROVE  PutReaches(s, v, k)'
    BY <1>1, <1>2 DEF PutsReach
  <2>1. PutReaches(s, v, k)
    BY DEF ClientInv, PutsReach
  <2>2. v \in WatchEntry /\ k \in Key
    BY DEF WatchTypeOK, KeysOf, Key
  <2>3. cache[k] \in Nat /\ latest[s][v][k] \in Nat \cup {Absent}
    <3>1. from[s][v] \in Nat /\ latest[s][v][k] \in Nat \cup {Absent}
      BY <2>2 DEF WatchTypeOK
    <3>2. cache[k] \in Nat \cup {Absent}
      BY <2>2 DEF WatchTypeOK, TypeOK
    <3> QED
      BY <3>1, <3>2 DEF Absent
  <2>4. latest[s][v][k] <= cache[k]
    BY <2>2, <2>3 DEF ClientInv, ObjectsBound, Old, Absent
  <2>5. CASE latest[s][v][k] = cache[k]
    <3>1. \A t \in told : v = w /\ t.key = k =>
            t.note.val <= cache[k] /\ t.note.val \in Nat \cup {Absent}
      BY <2>2, <2>3, <1>3 DEF ClientInv, ObjectsBound, Old, Absent, Note
    <3>2. latest'[s][v][k] = cache[k]
      BY <2>2, <2>3, <2>5, <3>1 DEF Hears, Absent
    <3> QED
      BY <3>2, <1>1 DEF PutReaches
  <2>6. ASSUME NEW note \in Note, Flies(s, v, k, note), note.val = cache[k]
        PROVE  PutReaches(s, v, k)'
    <3>1. CASE Flies(s, v, k, note)'
      BY <2>6, <3>1, <1>1 DEF PutReaches
    <3>2. CASE v = w /\ [key |-> k, note |-> note] \in told
      <4>1. latest'[s][v][k] = IF note.val > latest[s][v][k] THEN note.val ELSE latest[s][v][k]
        BY <3>2 DEF Hears
      <4>2. latest'[s][v][k] = cache[k]
        BY <4>1, <2>3, <2>4, <2>6 DEF Absent
      <4> QED
        BY <4>2, <1>1 DEF PutReaches
    <3> QED
      BY <2>2, <2>6, <3>1, <3>2
  <2>7. CASE req[s].entry = v /\ (wire[s] = "list" \/ (wire[s] = "compose" /\ list[s][k] = cache[k]))
    <3>1. Listing(s)
      BY <2>2, <2>3, <2>7 DEF Listing, Absent
    <3> QED
      BY <2>7, <3>1, <1>1 DEF PutReaches
  <2> QED
    BY <2>1, <2>5, <2>6, <2>7 DEF PutReaches
<1>9. DeletesReach(s)'
  <2> SUFFICES ASSUME Live(s), NEW v \in watching[s] \ retired[s],
                      NEW k \in KeysOf(v.kind) \ (spoiled \cup UnfannedKeys),
                      cache[k] = Absent,
                      NEW note \in Note, Known(s, v, k, note)', note.val # Absent
               PROVE  Outdated(s, v, k, note)'
    BY <1>1, <1>2 DEF DeletesReach
  <2>1. v \in WatchEntry /\ k \in Key
    BY DEF WatchTypeOK, KeysOf, Key
  <2>2. \A n \in Note : Known(s, v, k, n) /\ n.val # Absent => Outdated(s, v, k, n)
    BY DEF ClientInv, DeletesReach
  <2>3. PICK gone \in Note : Known(s, v, k, gone) /\ gone.val = Absent /\ gone.mod > note.mod
    BY <2>1, <2>2, <1>4 DEF Outdated
  <2>4. CASE v = w /\ \E t \in told : t.key = k
    <3>1. PICK t \in told : t.key = k
      BY <2>4
    <3> DEFINE new == t.note
    <3>2. new \in Note /\ Flies(s, v, k, new)
      BY <2>4, <3>1, <1>3
    <3>3. \A n \in Note : Flies(s, v, k, n) => Flies(s, v, k, n)' \/ n = new
      <4> SUFFICES ASSUME NEW n \in Note, Flies(s, v, k, n), ~Flies(s, v, k, n)'
                   PROVE  n = new
        OBVIOUS
      <4>1. [key |-> k, note |-> n] \in told
        BY <2>1
      <4>2. [key |-> k, note |-> n] = t
        BY <3>1, <4>1
      <4> QED
        BY <4>2
    <3>4. newest'[s][v][k] = IF new.mod >= newest[s][v][k].mod THEN new
                             ELSE newest[s][v][k]
      BY <2>4, <3>1 DEF Hears
    <3>5. \E g \in Note : Known(s, v, k, g)' /\ g.val = Absent /\ g.mod >= gone.mod
      BY <2>1, <2>2, <2>3, <3>2, <3>3, <3>4, DeletionKept
    <3> QED
      BY <2>3, <3>5 DEF Outdated, Note
  <2>5. CASE ~(v = w /\ \E t \in told : t.key = k)
    <3>1. newest'[s][v][k] = newest[s][v][k]
      BY <2>1, <2>5 DEF Hears
    <3>2. \A n : Flies(s, v, k, n) => Flies(s, v, k, n)'
      <4> SUFFICES ASSUME NEW n, Flies(s, v, k, n), ~Flies(s, v, k, n)'
                   PROVE  FALSE
        OBVIOUS
      <4>1. v = w /\ [key |-> k, note |-> n] \in told
        BY <2>1
      <4> QED
        BY <2>5, <4>1
    <3> QED
      BY <2>3, <3>1, <3>2 DEF Outdated, Known
  <2> QED
    BY <2>4, <2>5
<1> QED
  BY <1>5, <1>6, <1>7, <1>8, <1>9 DEF ClientInv

\* Watch sends the response of a pusher.
LEMMA SendRespStep ==
    ASSUME WatchTypeOK, WatchTypeOK', KVRests, NEW s \in Streams, ClientInv(s), StreamInv(s)',
           SendResp(s), ~ctxDone[s]
    PROVE  ClientInv(s)'
<1> USE DEF handlerVars, wireVars, pusherVars
<1>1. PICK r \in resp[s] : Tell(s, r.entry, {r.told})
  BY DEF SendResp
<1> DEFINE w == r.entry
           told == {r.told}
<1>2. /\ w \in WatchEntry /\ told \in SUBSET Told
      /\ r = [entry |-> w, told |-> [key |-> r.told.key, note |-> r.told.note]]
  BY DEF WatchTypeOK, Told
<1>3. Hears(s, w, told)
  <2>1. \A t, u \in told : t.key = u.key => t = u
    OBVIOUS
  <2>2. Tell(s, w, told)
    BY <1>1
  <2> HIDE DEF w, told
  <2> QED
    BY <2>1, <2>2, <1>2, TellHears
<1>4. /\ resp'[s] = {} /\ UNCHANGED <<watching, wire, req, list, evs, ctxDone, pushers>>
      /\ loop[s] = "send"
  BY DEF SendResp, WatchTypeOK
<1>5. \A q \in resp[s] : q = r
  BY DEF ClientInv, StreamInv
<1>6. Flies(s, w, r.told.key, r.told.note)
  BY <1>2 DEF Flies
<1>7. \A v \in WatchEntry : \A k, note : Flies(s, v, k, note)' => Flies(s, v, k, note)
  BY <1>4 DEF Flies
<1>8. \A v \in WatchEntry : \A k, note : Flies(s, v, k, note) =>
        Flies(s, v, k, note)' \/ (v = w /\ [key |-> k, note |-> note] \in told)
  <2> SUFFICES ASSUME NEW v \in WatchEntry, NEW k, NEW note,
                      Flies(s, v, k, note), ~Flies(s, v, k, note)'
               PROVE  v = w /\ [key |-> k, note |-> note] \in told
    OBVIOUS
  <2>1. [entry |-> v, told |-> [key |-> k, note |-> note]] \in resp[s]
    BY <1>4 DEF Flies
  <2>2. [entry |-> v, told |-> [key |-> k, note |-> note]] = r
    BY <2>1, <1>5
  <2> QED
    BY <2>2
<1>9. Live(s)
  BY <1>4 DEF Live
<1>10. \A t, u \in told : t.key = u.key => t = u
  OBVIOUS
<1>11. \A t \in told : Flies(s, w, t.key, t.note)
  BY <1>6
<1> HIDE DEF w, told
<1> QED
  BY <1>2, <1>3, <1>4, <1>7, <1>8, <1>9, <1>10, <1>11, HearsStep

\* onWire sends the events of firstWatch.
LEMMA SendReplyStep ==
    ASSUME WatchTypeOK, WatchTypeOK', KVRests, NEW s \in Streams, ClientInv(s), StreamInv(s)',
           SendReply(s), ~ctxDone[s], evs[s] # {}
    PROVE  ClientInv(s)'
<1> USE DEF handlerVars, wireVars, pusherVars
<1> DEFINE w == req[s].entry
           told == evs[s]
<1>1. Tell(s, w, told)
  BY DEF SendReply
<1>2. /\ wire[s] = "compose" /\ ~Listing(s) /\ w \in WatchEntry
      /\ \A t, u \in told : t.key = u.key => t = u
  BY DEF SendReply, ClientInv, StreamInv, Listing, WatchTypeOK
<1>3. told \in SUBSET Told
  BY DEF WatchTypeOK
<1>4. Hears(s, w, told)
  BY <1>1, <1>2, <1>3, TellHears
<1>5. /\ evs'[s] = {} /\ UNCHANGED <<loop, resp, watching, list, ctxDone, pushers>>
  BY DEF SendReply, WatchTypeOK
<1>6. \A t \in told : Flies(s, w, t.key, t.note)
  <2>1. \A t \in told : t = [key |-> t.key, note |-> t.note]
    BY <1>3 DEF Told
  <2> QED
    BY <2>1 DEF Flies
<1>7. \A v \in WatchEntry : \A k, note : Flies(s, v, k, note)' => Flies(s, v, k, note)
  BY <1>5 DEF Flies
<1>8. \A v \in WatchEntry : \A k, note : Flies(s, v, k, note) =>
        Flies(s, v, k, note)' \/ (v = w /\ [key |-> k, note |-> note] \in told)
  BY <1>5 DEF Flies
<1>9. Live(s)' => Live(s)
  BY <1>5 DEF Live
<1> HIDE DEF w, told
<1> QED
  BY <1>2, <1>3, <1>4, <1>5, <1>6, <1>7, <1>8, <1>9, HearsStep

\* A step of stream s, or of one of its pushers, keeps the invariant.
LEMMA StreamStepWatch ==
    ASSUME WatchTypeOK, WatchTypeOK', MetaInv, WatchInv, KVRests, NEW s \in Streams,
           \/ HandlerStep(s) \/ WireStep(s) \/ ClientGone(s)
           \/ \E p \in pushers : p.stream = s /\ PusherStep(p)
    PROVE  WatchInv'
<1>1. KVInv /\ KVInv'
  BY KVRestsFacts DEF WatchInv
<1>2. \A r \in Streams : ClientInv(r)
  BY DEF WatchInv
<1>3. ASSUME NEW r \in Streams, r # s PROVE ClientInv(r)'
  BY <1>2, <1>3, OtherStreams, SameStreamInv
<1>4. StreamInv(s)'
  BY <1>2, StreamInvStep DEF ClientInv
<1>5. ClientInv(s)'
  <2>1. CASE SendResp(s) /\ ~ctxDone[s]
    BY <2>1, <1>2, <1>4, SendRespStep
  <2>2. CASE SendReply(s) /\ ~ctxDone[s] /\ evs[s] # {}
    BY <2>2, <1>2, <1>4, SendReplyStep
  <2>3. CASE RecvCreate(s) /\ wire'[s] # "ended"
    BY <2>3, <1>1, <1>2, <1>4, CreateStep
  <2>4. CASE FirstWatchList(s)
    BY <2>4, <1>1, <1>2, <1>4, FirstWatchListStep
  <2>5. CASE FirstWatchMeta(s)
    BY <2>5, <1>1, <1>2, <1>4, FirstWatchMetaStep
  <2>6. CASE \/ HandlerStep(s) /\ (SendResp(s) => ctxDone[s])
             \/ ClientGone(s)
             \/ RecvCancel(s) \/ RecvRefused(s) \/ RecvFails(s)
             \/ SendReply(s) /\ (ctxDone[s] \/ evs[s] = {})
             \/ RecvCreate(s) /\ wire'[s] = "ended"
             \/ \E p \in pushers : p.stream = s /\ PusherStep(p)
    BY <2>6, <1>2, <1>4, SilentSteps
  <2> QED
    BY <2>1, <2>2, <2>3, <2>4, <2>5, <2>6 DEF HandlerStep, WireStep
<1> QED
  BY <1>1, <1>3, <1>5 DEF WatchInv
-----------------------------------------------------------------------------
(***************************************************************************)
(* The invariant and what follows from it.                                 *)
(***************************************************************************)

LEMMA WatchInitInv == WatchInit => WatchInv
<1> SUFFICES ASSUME WatchInit PROVE WatchInv
  OBVIOUS
<1>1. TypeOK /\ WatchTypeOK
  BY WatchInitType DEF WatchTypeOK
<1>2. /\ pc = "recv" /\ events = <<>> /\ revision = 0 /\ filled = {} /\ spoiled = {}
      /\ \A k \in Key : cache[k] = Absent
  BY DEF WatchInit, Init
<1>3. DOMAIN events = {}
  BY <1>2
<1>4. KVInv
  BY <1>2, <1>3 DEF KVInv, BatchCached, MetaBeforeFanout, NextRevision, Absent
<1>5. ASSUME NEW s \in Streams PROVE ClientInv(s)
  <2>1. /\ loop[s] = "new" /\ wire[s] = "new" /\ watching[s] = {} /\ resp[s] = {}
        /\ evs[s] = {} /\ pushers = {}
        /\ \A k \in Key : list[s][k] = Absent
        /\ \A w \in WatchEntry : \A k \in Key :
              latest[s][w][k] = Absent /\ newest[s][w][k] = NoNote
    BY DEF WatchInit
  <2>2. \A w, k, note : ~Flies(s, w, k, note)
    BY <2>1 DEF Flies
  <2>3. StreamInv(s) /\ FlownByWatches(s)
    BY <2>1, <2>2 DEF StreamInv, FlownByWatches
  <2>4. ObjectsBound(s)
    BY <1>2, <2>1, <2>2 DEF ObjectsBound, Old, NextRevision, Absent
  <2>5. ModsBound(s)
    <3>1. \A k : OldMod(k, -1)
      BY <1>2, <1>3 DEF OldMod, Unfanned
    <3> QED
      BY <2>1, <2>2, <3>1 DEF ModsBound, Known, NoNote, Absent
  <2>6. PutsReach(s) /\ DeletesReach(s)
    BY <2>1 DEF PutsReach, DeletesReach
  <2> QED
    BY <2>3, <2>4, <2>5, <2>6 DEF ClientInv
<1> QED
  BY <1>4, <1>5 DEF WatchInv

\* Each step of the system keeps the types and the invariant.
LEMMA WatchStep ==
    ASSUME WatchTypeOK, TypeOK', MetaInv, WatchInv, [WatchNext]_allVars
    PROVE  WatchTypeOK' /\ WatchInv'
<1>1. CASE UNCHANGED allVars
  <2> USE DEF allVars, watchVars, handlerVars, wireVars, pusherVars, historyVars
  <2>1. WatchTypeOK'
    BY <1>1 DEF WatchTypeOK
  <2>2. KVRests
    BY <1>1 DEF KVRests
  <2>3. \A r \in Streams : SameStream(r)
    BY <1>1 DEF SameStream
  <2>4. KVInv'
    BY <2>2, KVRestsFacts DEF WatchInv
  <2>5. \A r \in Streams : ClientInv(r)'
    BY <2>2, <2>3, SameStreamInv DEF WatchInv
  <2> QED
    BY <2>1, <2>4, <2>5 DEF WatchInv
<1>2. CASE KVStep /\ spoiled' = spoiled \cup filled'
  <2>1. WatchTypeOK'
    <3>1. spoiled' \in SUBSET Key
      BY <1>2 DEF WatchTypeOK, TypeOK
    <3> QED
      BY <1>2, <3>1 DEF KVStep, WatchTypeOK, watchVars, handlerVars, wireVars, pusherVars,
                        historyVars
  <2>2. KVInv' /\ KVKept
    BY <1>2, RecvEventsWatch, ReflectToCacheWatch, BumpRevisionWatch, PushAndRangeWatch
       DEF KVStep, WatchInv, WatchTypeOK
  <2>3. \A s \in Streams : ClientInv(s)'
    BY <1>2, <2>2, KVFrame DEF KVStep, WatchInv
  <2> QED
    BY <2>1, <2>2, <2>3 DEF WatchInv
<1>3. CASE PushFanout /\ spoiled' = spoiled \cup filled'
  <2>1. WatchTypeOK'
    <3>1. spoiled' \in SUBSET Key
      BY <1>3 DEF WatchTypeOK, TypeOK
    <3>2. events[at] \in Event
      BY <1>3 DEF PushFanout, PushDone, WatchTypeOK, TypeOK
    <3>3. pushers' \in SUBSET Pusher
      BY <1>3, <3>2, PushersType DEF PushFanout, WatchTypeOK
    <3> QED
      BY <1>3, <3>1, <3>3 DEF PushFanout, WatchTypeOK, handlerVars, wireVars, historyVars
  <2>2. KVInv'
    BY <1>3, PushDoneWatch DEF PushFanout, WatchInv, WatchTypeOK
  <2>3. \A s \in Streams : ClientInv(s)'
    BY <1>3, PushFanoutWatch DEF WatchInv
  <2> QED
    BY <2>1, <2>2, <2>3 DEF WatchInv
<1>4. CASE StreamStep /\ spoiled' = spoiled \cup filled'
  <2>1. KVRests
    <3>1. filled' = filled /\ filled \subseteq spoiled
      BY <1>4 DEF StreamStep, vars, WatchInv, KVInv
    <3> QED
      BY <1>4, <3>1 DEF KVRests, StreamStep
  <2>2. ASSUME NEW s \in Streams, HandlerStep(s) \/ WireStep(s) \/ ClientGone(s)
        PROVE  WatchTypeOK' /\ WatchInv'
    <3>1. WatchTypeOK'
      BY <2>1, <2>2, HandlerType, WireType DEF KVRests, WatchInv, ClientInv
    <3> QED
      BY <2>1, <2>2, <3>1, StreamStepWatch
  <2>3. ASSUME NEW p \in pushers, PusherStep(p)
        PROVE  WatchTypeOK' /\ WatchInv'
    <3>1. WatchTypeOK'
      BY <2>1, <2>3, PusherType DEF KVRests
    <3>2. p.stream \in Streams
      BY DEF WatchTypeOK, Pusher
    <3>3. WatchInv'
      BY <2>1, <2>3, <3>1, <3>2, StreamStepWatch
    <3> QED
      BY <3>1, <3>3
  <2> QED
    BY <1>4, <2>2, <2>3 DEF StreamStep
<1> QED
  BY <1>1, <1>2, <1>3, <1>4 DEF WatchNext

LEMMA WatchInvariant == WatchSpec => [](WatchTypeOK /\ WatchInv)
<1>1. WatchInit => WatchTypeOK /\ WatchInv
  BY WatchInitType, WatchInitInv
<1>2. /\ TypeOK /\ MetaInv /\ (TypeOK /\ MetaInv)'
      /\ WatchTypeOK /\ WatchInv /\ [WatchNext]_allVars
      => (WatchTypeOK /\ WatchInv)'
  BY WatchStep
<1> QED
  BY <1>1, <1>2, WatchKV, PTL DEF WatchSpec

\* Every variable of the etcd server, of its streams and of its pushers keeps its
\* type, for any number of streams, watches and requests.
THEOREM WatchTypeCorrect == WatchSpec => []WatchTypeOK
BY WatchInvariant, PTL

\* Whatever the interleaving of createWatch, firstWatch, pushEvent, the pushers, Watch
\* and onWire, no update and no deletion of a key is lost on its way to a client.
THEOREM WatchIsComplete == WatchSpec => []WatchComplete
<1>1. ASSUME WatchTypeOK, MetaInv, WatchInv PROVE WatchComplete
  <2> SUFFICES ASSUME NEW s \in Streams, AtRest(s),
                      NEW w \in watching[s] \ retired[s],
                      NEW k \in KeysOf(w.kind) \ spoiled
               PROVE  /\ cache[k] >= from[s][w] => latest[s][w][k] = cache[k]
                      /\ cache[k] = Absent => newest[s][w][k].val = Absent
    BY DEF WatchComplete
  <2>1. ClientInv(s) /\ Live(s) /\ UnfannedKeys = {}
    <3>1. events = <<>>
      BY <1>1 DEF AtRest, MetaInv, RevisionsIncrease
    <3>2. Unfanned = {}
      BY <3>1 DEF Unfanned
    <3> QED
      BY <1>1, <3>2 DEF AtRest, Live, WatchInv, UnfannedKeys
  <2>2. resp[s] = {} /\ evs[s] = {}
    BY <2>1 DEF AtRest, ClientInv, StreamInv
  <2>3. \A v, j, note : ~Flies(s, v, j, note)
    BY <2>2 DEF AtRest, Flies
  <2>4. cache[k] >= from[s][w] => latest[s][w][k] = cache[k]
    BY <2>1, <2>3 DEF ClientInv, PutsReach, PutReaches, AtRest
  <2>5. ASSUME cache[k] = Absent, newest[s][w][k].val # Absent PROVE FALSE
    <3>1. w \in WatchEntry /\ k \in Key
      BY <1>1 DEF WatchTypeOK, KeysOf, Key
    <3>2. newest[s][w][k] \in Note
      BY <1>1, <2>5, <3>1 DEF WatchTypeOK, NoNote
    <3>3. Outdated(s, w, k, newest[s][w][k])
      BY <2>1, <2>5, <3>2 DEF ClientInv, DeletesReach, Known
    <3> QED
      BY <2>3, <2>5, <3>3 DEF Outdated, Known
  <2> QED
    BY <2>4, <2>5
<1> QED
  BY <1>1, WatchInvariant, WatchKV, PTL
=============================================================================
