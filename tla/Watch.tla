------------------------------- MODULE Watch -------------------------------
(***************************************************************************)
(* The watch half of the mimicked etcd server (pkg/etcdv3/watch.go and the *)
(* fan-out at the end of pushEvent in pkg/etcdv3/etcd.go), composed with   *)
(* the sidecar goroutine and the Range handlers of module Sidecar.         *)
(*                                                                         *)
(* A watch stream is served by two goroutines: the handler Watch, which    *)
(* takes responses from eventCh and sends them to the client, and onWire,  *)
(* which receives the client's requests and answers them itself.  For each *)
(* pushed event and each stream, pushEvent starts one more goroutine, a    *)
(* pusher, that puts one response per matching watch on eventCh.           *)
(***************************************************************************)
EXTENDS Sidecar

CONSTANTS
    Streams,        \* the watch streams clients may open
    WatchIds,       \* the watch ids clients choose, or the server draws
    MaxRequests     \* bound: requests received on one stream

ASSUME WatchAssumption == MaxRequests \in Nat

Kind == {"route", "upstream"}

KeysOf(kind) == IF kind = "route" THEN Routes ELSE Upstreams

\* An entry of watchStream.route or watchStream.upstream.
WatchEntry == [kind : Kind, id : WatchIds]

\* What a client is told of a key: the object (Absent in a DELETE) and the mod
\* revision.  NoNote: it was told nothing.
Note == [val : Nat \cup {Absent}, mod : Nat]
NoNote == [val |-> Absent, mod |-> Absent]
Told == [key : Key, note : Note]

Pusher == [stream : Streams, kind : Kind, ids : SUBSET WatchIds, told : Told]

Request == [entry : WatchEntry, start : Nat]
NoRequest == [entry |-> [kind |-> "none", id |-> 0], start |-> 0]

VARIABLES
    watchers,    \* etcdV3.watchers
    watching,    \* watchStream.route and watchStream.upstream of each stream
    loop,        \* where the handler Watch of each stream is
    resp,        \* the response it took from eventCh: a set of at most one
    wire,        \* where onWire of each stream is
    req,         \* the request onWire serves
    list,        \* firstWatch: the objects it listed and has not looked at yet
    evs,         \* firstWatch: the events of its response
    errCh,       \* onWire has left its error for Watch
    ctxDone,     \* the context of the stream is done
    pushers,     \* the pusher goroutines
    crashed,     \* a send on a closed channel has ended the process
    requests,    \* how many requests each stream has received
    from,        \* history: the revision each watch asked for
    retired,     \* history: the watches a client has canceled
    latest,      \* history: the latest object of a key each watch was told
    newest,      \* history: what it was told of the key, newest by mod revision
    spoiled      \* history: keys whose metadata a Range has ever written

handlerVars == <<watchers, loop, resp>>
wireVars == <<watching, wire, req, list, evs, errCh, requests>>
pusherVars == <<pushers, crashed>>
historyVars == <<from, retired, latest, newest>>
watchVars == <<handlerVars, wireVars, ctxDone, pusherVars, historyVars>>
allVars == <<vars, watchVars, spoiled>>

WatchTypeOK ==
    /\ TypeOK
    /\ watchers \in SUBSET Streams
    /\ watching \in [Streams -> SUBSET WatchEntry]
    /\ loop \in [Streams -> {"new", "select", "send", "close", "unregister",
                             "cancel", "done"}]
    /\ resp \in [Streams -> SUBSET [entry : WatchEntry, told : Told]]
    /\ wire \in [Streams -> {"new", "recv", "list", "compose", "send", "ended"}]
    /\ req \in [Streams -> Request \cup {NoRequest}]
    /\ list \in [Streams -> [Key -> Nat \cup {Absent}]]
    /\ evs \in [Streams -> SUBSET Told]
    /\ errCh \in [Streams -> BOOLEAN]
    /\ ctxDone \in [Streams -> BOOLEAN]
    /\ pushers \in SUBSET Pusher
    /\ crashed \in BOOLEAN
    /\ requests \in [Streams -> 0..MaxRequests]
    /\ from \in [Streams -> [WatchEntry -> Nat]]
    /\ retired \in [Streams -> SUBSET WatchEntry]
    /\ latest \in [Streams -> [WatchEntry -> [Key -> Nat \cup {Absent}]]]
    /\ newest \in [Streams -> [WatchEntry -> [Key -> Note \cup {NoNote}]]]
    /\ spoiled \in SUBSET Key

WatchInit ==
    /\ Init
    /\ watchers = {}
    /\ watching = [s \in Streams |-> {}]
    /\ loop = [s \in Streams |-> "new"]
    /\ resp = [s \in Streams |-> {}]
    /\ wire = [s \in Streams |-> "new"]
    /\ req = [s \in Streams |-> NoRequest]
    /\ list = [s \in Streams |-> [k \in Key |-> Absent]]
    /\ evs = [s \in Streams |-> {}]
    /\ errCh = [s \in Streams |-> FALSE]
    /\ ctxDone = [s \in Streams |-> FALSE]
    /\ pushers = {}
    /\ crashed = FALSE
    /\ requests = [s \in Streams |-> 0]
    /\ from = [s \in Streams |-> [w \in WatchEntry |-> 0]]
    /\ retired = [s \in Streams |-> {}]
    /\ latest = [s \in Streams |-> [w \in WatchEntry |-> [k \in Key |-> Absent]]]
    /\ newest = [s \in Streams |-> [w \in WatchEntry |-> [k \in Key |-> NoNote]]]
    /\ spoiled = {}
-----------------------------------------------------------------------------
(***************************************************************************)
(* pushEvent, the fan-out.                                                 *)
(***************************************************************************)

\* What event ev tells a client.
ToldBy(ev) ==
    [key |-> ev.key,
     note |-> [val |-> IF ev.type = "delete" THEN Absent ELSE ev.rev,
               mod |-> ev.rev]]

\* The pushers that event ev starts: one per registered stream that watches the
\* kind of its object.  A goroutine with nothing to push is left out.
PushersOf(ev) ==
    LET kind == IF ev.key \in Routes THEN "route" ELSE "upstream"
        ids(s) == {w.id : w \in {v \in watching[s] : v.kind = kind}}
    IN  {[stream |-> s, kind |-> kind, ids |-> ids(s), told |-> ToldBy(ev)] :
            s \in {t \in watchers : ids(t) # {}}}

\* Mutant: pushEvent does not return before its responses are taken.
PushFanout_Blocking ==
    /\ PushDone
    /\ pushers = {}
    /\ pushers' = PushersOf(events[at])
    /\ UNCHANGED <<handlerVars, wireVars, ctxDone, crashed, historyVars>>

\* The loop over e.watchers under e.watcherMu, and the end of pushEvent.  The
\* streams are visited one by one, but what is started for one depends on it
\* alone, so visiting them at once loses nothing.
PushFanout ==
    /\ PushDone
    /\ pushers' = pushers \cup PushersOf(events[at])
    /\ UNCHANGED <<handlerVars, wireVars, ctxDone, crashed, historyVars>>

\* The client of stream s is told the members of told on watch w.
Tell(s, w, told) ==
    LET isNew(t) == t.note.mod >= newest[s][w][t.key].mod
        noteOf(k) == (CHOOSE t \in told : t.key = k).note
    IN  /\ latest' = [latest EXCEPT ![s][w] = [k \in Key |->
             IF \E t \in told : t.key = k /\ t.note.val > @[k]
             THEN noteOf(k).val ELSE @[k]]]
        /\ newest' = [newest EXCEPT ![s][w] = [k \in Key |->
             IF \E t \in told : t.key = k /\ isNew(t)
             THEN noteOf(k) ELSE @[k]]]
        /\ UNCHANGED <<from, retired>>

\* A pusher hands the response of one watch to the handler, which is the only
\* receiver of the unbuffered eventCh.  The ids come in the order of a map.
Deliver(p) ==
    LET s == p.stream
    IN  /\ loop[s] = "select"
        /\ \E id \in p.ids :
            /\ resp' = [resp EXCEPT ![s] =
                 {[entry |-> [kind |-> p.kind, id |-> id], told |-> p.told]}]
            /\ pushers' = (pushers \ {p}) \cup
                 (IF p.ids = {id} THEN {} ELSE {[p EXCEPT !.ids = @ \ {id}]})
        /\ loop' = [loop EXCEPT ![s] = "send"]
        /\ UNCHANGED <<watchers, wireVars, ctxDone, crashed, historyVars>>

\* Mutant: a pusher does not watch on ctx.Done().
PushAbort_Never(p) == FALSE

\* A pusher sees that the context is done.
PushAbort(p) ==
    /\ ctxDone[p.stream]
    /\ pushers' = pushers \ {p}
    /\ UNCHANGED <<handlerVars, wireVars, ctxDone, crashed, historyVars>>

\* A pusher that selects the send to eventCh after Watch has closed it panics,
\* and nothing recovers.  When the context is done as well, select may choose
\* either case for a pusher that reaches it only now.
PushPanic(p) ==
    /\ loop[p.stream] \in {"unregister", "cancel", "done"}
    /\ crashed' = TRUE
    /\ UNCHANGED <<handlerVars, wireVars, ctxDone, pushers, historyVars>>
-----------------------------------------------------------------------------
(***************************************************************************)
(* The handler Watch.                                                      *)
(***************************************************************************)

\* Watch up to its loop: the stream is registered and onWire starts.
Open(s) ==
    /\ loop[s] = "new"
    /\ watchers' = watchers \cup {s}
    /\ loop' = [loop EXCEPT ![s] = "select"]
    /\ wire' = [wire EXCEPT ![s] = "recv"]
    /\ UNCHANGED <<resp, watching, req, list, evs, errCh, requests, ctxDone,
                   pusherVars, historyVars>>

\* stream.Send of the response taken from eventCh.  It may block as long as the
\* client does not read; once the context is done it returns, usually with an
\* error, and the client gets nothing.
SendResp(s) ==
    /\ loop[s] = "send"
    /\ resp' = [resp EXCEPT ![s] = {}]
    /\ \/ /\ ~ctxDone[s]
          /\ \E r \in resp[s] : Tell(s, r.entry, {r.told})
          /\ loop' = [loop EXCEPT ![s] = "select"]
       \/ /\ ctxDone[s]
          /\ \E next \in {"select", "close"} : loop' = [loop EXCEPT ![s] = next]
          /\ UNCHANGED historyVars
    /\ UNCHANGED <<watchers, wireVars, ctxDone, pusherVars>>

\* The loop ends because the context is done or onWire has failed.
LeaveLoop(s) ==
    /\ loop[s] = "select"
    /\ ctxDone[s] \/ errCh[s]
    /\ loop' = [loop EXCEPT ![s] = "close"]
    /\ UNCHANGED <<watchers, resp, wireVars, ctxDone, pusherVars, historyVars>>

\* The deferred clean-up, in its order: close(ws.eventCh), the removal from
\* e.watchers under e.watcherMu, cancel().
CloseEventCh(s) ==
    /\ loop[s] = "close"
    /\ loop' = [loop EXCEPT ![s] = "unregister"]
    /\ UNCHANGED <<watchers, resp, wireVars, ctxDone, pusherVars, historyVars>>

Unregister(s) ==
    /\ loop[s] = "unregister"
    /\ watchers' = watchers \ {s}
    /\ loop' = [loop EXCEPT ![s] = "cancel"]
    /\ UNCHANGED <<resp, wireVars, ctxDone, pusherVars, historyVars>>

Cancel(s) ==
    /\ loop[s] = "cancel"
    /\ ctxDone' = [ctxDone EXCEPT ![s] = TRUE]
    /\ loop' = [loop EXCEPT ![s] = "done"]
    /\ UNCHANGED <<watchers, resp, wireVars, pusherVars, historyVars>>

\* The client goes away, or its connection breaks.
ClientGone(s) ==
    /\ loop[s] # "new"
    /\ ~ctxDone[s]
    /\ ctxDone' = [ctxDone EXCEPT ![s] = TRUE]
    /\ UNCHANGED <<handlerVars, wireVars, pusherVars, historyVars>>
-----------------------------------------------------------------------------
(***************************************************************************)
(* The goroutine onWire.                                                   *)
(***************************************************************************)

\* onWire has received a request (Recv may still return one that was buffered
\* when the context got done).
Receive(s) ==
    /\ wire[s] = "recv"
    /\ loop[s] # "done"
    /\ requests[s] < MaxRequests
    /\ requests' = [requests EXCEPT ![s] = @ + 1]

\* onWire returns, with an error left in errCh (of capacity one) or without.
EndWire(s, err) ==
    /\ wire' = [wire EXCEPT ![s] = "ended"]
    /\ errCh' = [errCh EXCEPT ![s] = err]

\* A create request: createWatch registers the watch before firstWatch looks for
\* what it has missed.  An id that is taken (for this kind) ends the stream.
RecvCreate(s) ==
    /\ Receive(s)
    /\ \E w \in WatchEntry, start \in 0..MaxRevision :
        \/ /\ w \in watching[s]
           /\ EndWire(s, TRUE)
           /\ UNCHANGED <<watching, req, historyVars>>
        \/ /\ w \notin watching[s]
           /\ watching' = [watching EXCEPT ![s] = @ \cup {w}]
           /\ req' = [req EXCEPT ![s] = [entry |-> w, start |-> start]]
           /\ wire' = [wire EXCEPT ![s] = IF start = 0 THEN "send" ELSE "list"]
           /\ from' = [from EXCEPT ![s][w] = IF start = 0 THEN revision ELSE start]
           /\ latest' = [latest EXCEPT ![s][w] = [k \in Key |-> Absent]]
           /\ newest' = [newest EXCEPT ![s][w] = [k \in Key |-> NoNote]]
           /\ UNCHANGED <<errCh, retired>>
    /\ UNCHANGED <<handlerVars, list, evs, ctxDone, pusherVars>>

\* cancelWatch: the route watch of this id if there is one, else the upstream
\* watch, else the stream ends with an error.
CancelWatch(s, id) ==
    LET taken == {kind \in Kind : [kind |-> kind, id |-> id] \in watching[s]}
        kind == IF "route" \in taken THEN "route" ELSE "upstream"
    IN  \/ /\ taken # {}
           /\ watching' = [watching EXCEPT ![s] = @ \ {[kind |-> kind, id |-> id]}]
           /\ retired' = [retired EXCEPT ![s] = @ \cup {[kind |-> kind, id |-> id]}]
           /\ wire' = [wire EXCEPT ![s] = "send"]
           /\ UNCHANGED errCh
        \/ /\ taken = {}
           /\ EndWire(s, TRUE)
           /\ UNCHANGED <<watching, retired>>

RecvCancel(s) ==
    /\ Receive(s)
    /\ \E id \in WatchIds : CancelWatch(s, id)
    /\ UNCHANGED <<handlerVars, req, list, evs, ctxDone, pusherVars,
                   from, latest, newest>>

\* A request that checkWatchRequestConformance refuses (an empty key, prev_kv,
\* progress_notify, fragment, a progress request).
RecvRefused(s) ==
    /\ Receive(s)
    /\ EndWire(s, TRUE)
    /\ UNCHANGED <<handlerVars, watching, req, list, evs, ctxDone, pusherVars,
                   historyVars>>

\* Recv fails: io.EOF when the client has closed its half of the stream, another
\* error once the context is done.
RecvFails(s) ==
    /\ wire[s] = "recv"
    /\ \/ EndWire(s, FALSE)
       \/ ctxDone[s] /\ EndWire(s, TRUE)
    /\ UNCHANGED <<handlerVars, watching, req, list, evs, requests, ctxDone,
                   pusherVars, historyVars>>

\* findAllRoutes / findAllUpstreams, the List.
FirstWatchList(s) ==
    /\ wire[s] = "list"
    /\ list' = [list EXCEPT ![s] =
                 [k \in Key |-> IF k \in KeysOf(req[s].entry.kind)
                                THEN cache[k] ELSE Absent]]
    /\ wire' = [wire EXCEPT ![s] = "compose"]
    /\ UNCHANGED <<handlerVars, watching, req, evs, errCh, requests, ctxDone,
                   pusherVars, historyVars>>

\* Mutant: an object without metadata is not skipped.
FirstWatchMeta_NoSkip(s) ==
    /\ wire[s] = "compose"
    /\ \E k \in Key :
        /\ list[s][k] # Absent
        /\ list' = [list EXCEPT ![s][k] = Absent]
        /\ evs' = [evs EXCEPT ![s] = @ \cup
             {[key |-> k, note |-> [val |-> list[s][k], mod |-> metaCache[k].mod]]}]
    /\ UNCHANGED <<handlerVars, watching, wire, req, errCh, requests, ctxDone,
                   pusherVars, historyVars>>

\* Mutant: the revision the client asked for is taken as one it has.
FirstWatchMeta_After(s) ==
    /\ wire[s] = "compose"
    /\ \E k \in Key :
        /\ list[s][k] # Absent
        /\ list' = [list EXCEPT ![s][k] = Absent]
        /\ evs' = [evs EXCEPT ![s] = @ \cup
             {[key |-> k, note |-> [val |-> list[s][k], mod |-> meta.mod]] :
                meta \in {mt \in {metaCache[k]} :
                            mt # NoMeta /\ mt.mod > req[s].start}}]
    /\ UNCHANGED <<handlerVars, watching, wire, req, errCh, requests, ctxDone,
                   pusherVars, historyVars>>

\* findAllRoutes / findAllUpstreams, one object: its metadata is read under
\* e.metaMu.  An object without metadata, or older than asked for, is skipped.
FirstWatchMeta(s) ==
    /\ wire[s] = "compose"
    /\ \E k \in Key :
        /\ list[s][k] # Absent
        /\ list' = [list EXCEPT ![s][k] = Absent]
        /\ evs' = [evs EXCEPT ![s] = @ \cup
             {[key |-> k, note |-> [val |-> list[s][k], mod |-> meta.mod]] :
                meta \in {mt \in {metaCache[k]} :
                            mt # NoMeta /\ mt.mod >= req[s].start}}]
    /\ UNCHANGED <<handlerVars, watching, wire, req, errCh, requests, ctxDone,
                   pusherVars, historyVars>>

\* onWire's own stream.Send: the answer to a create request, with the events of
\* firstWatch, or to a cancel request.
SendReply(s) ==
    /\ \/ wire[s] = "send"
       \/ wire[s] = "compose" /\ \A k \in Key : list[s][k] = Absent
    /\ \/ /\ ~ctxDone[s]
          /\ IF evs[s] = {} THEN UNCHANGED historyVars
             ELSE Tell(s, req[s].entry, evs[s])
          /\ wire' = [wire EXCEPT ![s] = "recv"]
          /\ UNCHANGED errCh
       \/ /\ ctxDone[s]
          /\ EndWire(s, TRUE)
          /\ UNCHANGED historyVars
    /\ req' = [req EXCEPT ![s] = NoRequest]
    /\ evs' = [evs EXCEPT ![s] = {}]
    /\ UNCHANGED <<handlerVars, watching, list, requests, ctxDone, pusherVars>>
-----------------------------------------------------------------------------
HandlerStep(s) ==
    \/ Open(s)
    \/ SendResp(s)
    \/ LeaveLoop(s)
    \/ CloseEventCh(s)
    \/ Unregister(s)
    \/ Cancel(s)

WireStep(s) ==
    \/ RecvCreate(s)
    \/ RecvCancel(s)
    \/ RecvRefused(s)
    \/ RecvFails(s)
    \/ FirstWatchList(s)
    \/ FirstWatchMeta(s)
    \/ SendReply(s)

PusherStep(p) == Deliver(p) \/ PushAbort(p) \/ PushPanic(p)

\* Everything that is not the watch half leaves it alone, except that the end of
\* pushEvent is PushFanout.
KVStep ==
    /\ \/ RecvEvents \/ ReflectToCache \/ BumpRevision
       \/ PushLoadMeta \/ PushStoreMeta
       \/ RangeStep
    /\ UNCHANGED watchVars

StreamStep ==
    /\ \/ \E s \in Streams : HandlerStep(s) \/ WireStep(s) \/ ClientGone(s)
       \/ \E p \in pushers : PusherStep(p)
    /\ UNCHANGED vars

WatchNext ==
    /\ ~crashed
    /\ KVStep \/ PushFanout \/ StreamStep
    /\ spoiled' = spoiled \cup filled'

WatchSpec == WatchInit /\ [][WatchNext]_allVars

\* Go runs every goroutine that can run.  A client need not read its stream, so
\* no send to it has to end before the context is done, and no request, no batch
\* and no end of the context has to come.
WatchFairness ==
    /\ WF_allVars(WatchNext /\ (KVStep \/ PushFanout) /\ pc # "recv")
    /\ \A s \in Streams :
        /\ WF_allVars(WatchNext /\ LeaveLoop(s))
        /\ WF_allVars(WatchNext /\ (CloseEventCh(s) \/ Unregister(s) \/ Cancel(s)))
        /\ WF_allVars(WatchNext /\ ctxDone[s] /\ SendResp(s))
        /\ WF_allVars(WatchNext /\ \E p \in pushers : p.stream = s /\ PushAbort(p))

FairWatchSpec == WatchSpec /\ WatchFairness
-----------------------------------------------------------------------------
(***************************************************************************)
(* Properties.                                                             *)
(***************************************************************************)

\* Nothing is on its way to the client of s: the sidecar goroutine and the two
\* goroutines of the stream wait for input, and no pusher is left.
AtRest(s) ==
    /\ pc = "recv"
    /\ loop[s] = "select"
    /\ wire[s] \in {"recv", "ended"}
    /\ \A p \in pushers : p.stream # s
    /\ ~ctxDone[s]

\* Although createWatch, firstWatch and pushEvent interleave freely and pushers
\* race with each other, no update and no deletion is lost: a client at rest was
\* told the cached object of each key if it is of the revision the client asked
\* for or a later one, and a client that was told an object that is gone was told
\* so too, with a higher mod revision.  It is about keys whose metadata no Range
\* wrote and about watches whose id was not used before on the stream.
WatchComplete ==
    \A s \in Streams : AtRest(s) =>
        \A w \in watching[s] \ retired[s] : \A k \in KeysOf(w.kind) \ spoiled :
            /\ cache[k] >= from[s][w] => latest[s][w][k] = cache[k]
            /\ cache[k] = Absent => newest[s][w][k].val = Absent

\* pkg/etcdv3/etcd.go: "Must watch on the ctx.Done() or this goroutine might be
\* leaky": a pusher whose stream goes away is ended by ctx.Done(), so it never
\* sends on the closed eventCh, which would end the process.
PushersEndByDone == ~crashed

\* pkg/etcdv3/etcd.go: "Must be non-blocking to release e.watcherMu": a batch is
\* pushed to its end even if no client ever reads its stream.
WatchBatchPushed == pc # "recv" ~> (pc = "recv" \/ crashed)

\* A stream whose context is done is removed from e.watchers and its pushers end,
\* however its handler was blocked (unless the process has crashed).
StreamCleanedUp ==
    \A s \in Streams :
        ctxDone[s] ~> \/ crashed
                      \/ s \notin watchers /\ \A p \in pushers : p.stream # s
=============================================================================
