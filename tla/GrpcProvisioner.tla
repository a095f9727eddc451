-------------------------- MODULE GrpcProvisioner --------------------------
(***************************************************************************)
(* The provisioner that fetches configuration over an xDS aggregated       *)
(* discovery stream (pkg/provisioner/xds/v3/grpc), state-of-the-world      *)
(* variant.                                                                *)
(*                                                                         *)
(* Run dials the config source and starts, for each stream, sendLoop,      *)
(* recvLoop, translateLoop and firstSend.  The unbuffered channels sendCh, *)
(* recvCh and resetCh and the last state (upstreams, routes, ...) belong   *)
(* to the provisioner and outlive a stream, so goroutines of an old stream *)
(* may meet those of a new one.  Requests are put on the wire, responses   *)
(* handed to translateLoop and batches of events to the sidecar by one     *)
(* goroutine each, in no particular order.                                 *)
(*                                                                         *)
(* The management server is external: on a stream it may send any response *)
(* of a type it was asked for.  A cluster stands for the upstream made of  *)
(* it, told by its nodes (0: none yet, as for a cluster of type EDS); a    *)
(* route configuration stands for the route made of it, told by its        *)
(* content and the address of the listener that owns it.                   *)
(***************************************************************************)
EXTENDS Manifest, FiniteSets

CONSTANTS
    Clusters,       \* names of clusters
    Configs,        \* names of route configurations
    Failures,       \* the errors a stream may fail with
    MayStop,        \* whether the agent may be told to stop
    MaxValue,       \* bound: nodes, contents and addresses are 1..MaxValue
    MaxStreams,     \* bound: streams opened in a behaviour
    MaxResponses    \* bound: responses received in a behaviour

ASSUME GrpcAssumption ==
    /\ MaxValue \in Nat /\ MaxStreams \in Nat /\ MaxResponses \in Nat
    /\ IsFiniteSet(Clusters) /\ IsFiniteSet(Configs)
    /\ Clusters \cap Configs = {}
    /\ Failures \subseteq {"closing", "other"}
    /\ MayStop \in BOOLEAN

Value == 1..MaxValue
Absent == -1
Stream == 1..MaxStreams
ResourceType == {"LDS", "RDS", "CDS", "EDS"}
Name == Clusters \cup Configs

Upstream == [nodes : 0..MaxValue]
Route == [content : Value, owner : Value \cup {Absent}]

\* What a response of each type may say of a name: of a cluster its nodes, 0 for
\* one of type EDS; of a route configuration its content or, in a listener, the
\* listener's address.  Absent: nothing.
Says(type) ==
    CASE type = "CDS"            -> [Clusters -> {Absent} \cup 0..MaxValue]
      [] type = "EDS"            -> [Clusters -> {Absent} \cup Value]
      [] type \in {"LDS", "RDS"} -> [Configs -> {Absent} \cup Value]

Said(says) == {n \in DOMAIN says : says[n] # Absent}

\* A discovery request.  ack names the stream and the number of the response it
\* acknowledges or refuses; NoAck is a request of its own.
NoAck == [stream |-> 0, num |-> 0]
Request == [type : ResourceType, names : SUBSET Name,
            ack : [stream : Stream, num : 1..MaxResponses] \cup {NoAck}]

VARIABLES
    upstreams,      \* grpcProvisioner.upstreams
    edsRequired,    \* grpcProvisioner.edsRequiredClusters
    routes,         \* grpcProvisioner.routes
    ownership,      \* grpcProvisioner.routeOwnership
    run,            \* where Run is; evChan is closed when it has returned
    stop,           \* the stop channel is closed
    streams,        \* how many streams were opened
    ctxDone,        \* the context of each stream is cancelled
    broken,         \* the stream has failed, and with which error
    sendLoop,       \* sendLoop of each stream runs
    recvLoop,       \* where recvLoop of each stream is
    first,          \* the requests firstSend of each stream has still to send
    trans,          \* translateLoop of each stream
    sending,        \* the goroutines of sendLoop that hold a request
    sent,           \* history: the requests sent on each stream
    received,       \* the goroutines of recvLoop that hold a response
    responses,      \* how many responses were received
    batches,        \* the goroutines of translate that hold a batch for evChan
    memory,         \* the batches applied in the order the sidecar took them
    emitted,        \* history: the batches applied in the order they were made
    refused,        \* history: types of responses refused after a partial effect
    overlap,        \* history: a translateLoop began while another was blocked
    process         \* whether the process is up, or how it has ended

stateVars == <<upstreams, edsRequired, routes, ownership>>
runVars == <<run, stop, streams, ctxDone, broken>>
loopVars == <<sendLoop, recvLoop, first, trans, sending, received, batches>>
historyVars == <<sent, responses, memory, emitted, refused, overlap>>
vars == <<stateVars, runVars, loopVars, historyVars, process>>

\* A translateLoop that is not started, that waits for a response, or that is
\* blocked on sendCh with the request translate makes or with the ACK.
Off == [pc |-> "off"]
Select == [pc |-> "select"]

TypeOK ==
    /\ upstreams \in [Clusters -> Upstream \cup {NoObject}]
    /\ edsRequired \in SUBSET Clusters
    /\ routes \in [Configs -> Route \cup {NoObject}]
    /\ ownership \in [Configs -> Value \cup {Absent}]
    /\ run \in {"dial", "select", "closed"}
    /\ stop \in BOOLEAN
    /\ streams \in 0..MaxStreams
    /\ ctxDone \in [Stream -> BOOLEAN]
    /\ broken \in [Stream -> {"no", "closing", "other"}]
    /\ sendLoop \in [Stream -> BOOLEAN]
    /\ recvLoop \in [Stream -> {"off", "recv", "reset"}]
    /\ \A g \in Stream :
        \/ trans[g] \in {Off, Select}
        \/ /\ trans[g].pc \in {"request", "ack"}
           /\ trans[g].ack \in Request
           /\ trans[g].pc = "request" => trans[g].req \in Request
    /\ sending \in [Stream -> SUBSET Request]
    /\ sent \in [Stream -> SUBSET Request]
    /\ \A r \in received : r.stream \in Stream /\ r.num \in 1..responses
    /\ responses \in 0..MaxResponses
    /\ \A b \in batches : b.num \in 1..responses
    /\ memory \in [Name -> Upstream \cup Route \cup {NoObject}]
    /\ emitted \in [Name -> Upstream \cup Route \cup {NoObject}]
    /\ refused \in SUBSET ResourceType
    /\ overlap \in BOOLEAN
    /\ process \in {"up", "panic", "fatal"}

Init ==
    /\ upstreams = [c \in Clusters |-> NoObject]
    /\ edsRequired = {}
    /\ routes = [c \in Configs |-> NoObject]
    /\ ownership = [c \in Configs |-> Absent]
    /\ run = "dial"
    /\ stop = FALSE
    /\ streams = 0
    /\ ctxDone = [g \in Stream |-> FALSE]
    /\ broken = [g \in Stream |-> "no"]
    /\ sendLoop = [g \in Stream |-> FALSE]
    /\ recvLoop = [g \in Stream |-> "off"]
    /\ first = [g \in Stream |-> <<>>]
    /\ trans = [g \in Stream |-> Off]
    /\ sending = [g \in Stream |-> {}]
    /\ sent = [g \in Stream |-> {}]
    /\ received = {}
    /\ responses = 0
    /\ batches = {}
    /\ memory = [n \in Name |-> NoObject]
    /\ emitted = [n \in Name |-> NoObject]
    /\ refused = {}
    /\ overlap = FALSE
    /\ process = "up"
-----------------------------------------------------------------------------
(***************************************************************************)
(* Run.                                                                    *)
(***************************************************************************)

\* firstSend: the wildcard requests for listeners and clusters, in this order.
FirstSend == <<[type |-> "LDS", names |-> {}, ack |-> NoAck],
               [type |-> "CDS", names |-> {}, ack |-> NoAck]>>

\* DialContext blocks until it is connected, whatever stop says; then the stream
\* is opened and its goroutines start.
Dial ==
    /\ run = "dial"
    /\ streams < MaxStreams
    /\ LET g == streams + 1
       IN  /\ streams' = g
           /\ sendLoop' = [sendLoop EXCEPT ![g] = TRUE]
           /\ recvLoop' = [recvLoop EXCEPT ![g] = "recv"]
           /\ trans' = [trans EXCEPT ![g] = Select]
           /\ first' = [first EXCEPT ![g] = FirstSend]
    /\ run' = "select"
    /\ UNCHANGED <<stateVars, stop, ctxDone, broken, sending, received, batches,
                   historyVars, process>>

\* The stream cannot be opened: Run returns the error, and the sidecar exits.
DialFails ==
    /\ run = "dial"
    /\ process' = "fatal"
    /\ UNCHANGED <<stateVars, runVars, loopVars, historyVars>>

\* The stop channel is closed by a signal.
CloseStop ==
    /\ MayStop /\ ~stop
    /\ stop' = TRUE
    /\ UNCHANGED <<stateVars, run, streams, ctxDone, broken, loopVars, historyVars,
                   process>>

\* cleanup of the stream in use: it is cancelled, so what is not sent yet is lost.
Cleanup ==
    /\ ctxDone' = [ctxDone EXCEPT ![streams] = TRUE]
    /\ sending' = [sending EXCEPT ![streams] = {}]

\* Run sees it: cleanup, return, and the deferred close(p.evChan).
RunStop ==
    /\ run = "select"
    /\ stop
    /\ Cleanup
    /\ run' = "closed"
    /\ UNCHANGED <<stateVars, stop, streams, broken, sendLoop, recvLoop, first, trans,
                   received, batches, historyVars, process>>

\* Mutant: recvLoop goes on after it has asked for a reset, and asks again.
RunReset_NoReturn(g) ==
    /\ run = "select"
    /\ recvLoop[g] = "reset"
    /\ Cleanup
    /\ run' = "dial"
    /\ UNCHANGED <<stateVars, stop, streams, broken, sendLoop, recvLoop, first, trans,
                   received, batches, historyVars, process>>

\* Run takes an error from resetCh: cleanup, and dial again.
RunReset(g) ==
    /\ run = "select"
    /\ recvLoop[g] = "reset"
    /\ recvLoop' = [recvLoop EXCEPT ![g] = "off"]
    /\ Cleanup
    /\ run' = "dial"
    /\ UNCHANGED <<stateVars, stop, streams, broken, sendLoop, first, trans, received,
                   batches, historyVars, process>>
-----------------------------------------------------------------------------
(***************************************************************************)
(* sendLoop.                                                               *)
(***************************************************************************)

\* client.Send can still succeed.
Alive(h) == broken[h] = "no" /\ ~ctxDone[h]

\* sendLoop of stream h takes a request from sendCh: it starts a goroutine that
\* holds it, and whoever sent it goes on.  Any sendLoop that runs may take it.
\* The goroutine calls Send once: if the stream has failed or is cancelled the
\* request is lost, which is only logged.
Take(h, req) ==
    /\ sendLoop[h]
    /\ sending' = IF Alive(h) THEN [sending EXCEPT ![h] = @ \cup {req}] ELSE sending

\* firstSend of stream g hands over its next request.
TakeFirst(h, g) ==
    /\ first[g] # <<>>
    /\ Take(h, Head(first[g]))
    /\ first' = [first EXCEPT ![g] = Tail(@)]
    /\ UNCHANGED <<stateVars, runVars, sendLoop, recvLoop, trans, received, batches,
                   historyVars, process>>

\* The end of translate: a goroutine is started that holds the batch.
Emit(num, evs) ==
    \E b \in {[num |-> num, evs |-> evs]} :
        /\ batches' = batches \cup {b}
        /\ emitted' = ApplyEvents(emitted, b.evs)

\* translateLoop of stream g hands over the request of sendEds or trySendRds, and
\* translate goes on to its end.
TakeRequest(h, g) ==
    /\ trans[g].pc = "request"
    /\ Take(h, trans[g].req)
    /\ Emit(trans[g].ack.ack.num, trans[g].evs)
    /\ trans' = [trans EXCEPT ![g] = [pc |-> "ack", ack |-> trans[g].ack]]
    /\ UNCHANGED <<stateVars, runVars, sendLoop, recvLoop, first, received,
                   sent, responses, memory, refused, overlap, process>>

\* translateLoop of stream g hands over its ACK or NACK.
TakeAck(h, g) ==
    /\ trans[g].pc = "ack"
    /\ Take(h, trans[g].ack)
    /\ trans' = [trans EXCEPT ![g] = Select]
    /\ UNCHANGED <<stateVars, runVars, sendLoop, recvLoop, first, received, batches,
                   historyVars, process>>

\* client.Send succeeds.
Send(h) ==
    /\ \E req \in sending[h] :
        /\ sending' = [sending EXCEPT ![h] = @ \ {req}]
        /\ sent' = [sent EXCEPT ![h] = @ \cup {req}]
    /\ UNCHANGED <<stateVars, runVars, sendLoop, recvLoop, first, trans, received,
                   batches, responses, memory, emitted, refused, overlap, process>>

SendLoopEnds(h) ==
    /\ sendLoop[h]
    /\ ctxDone[h]
    /\ sendLoop' = [sendLoop EXCEPT ![h] = FALSE]
    /\ UNCHANGED <<stateVars, runVars, recvLoop, first, trans, sending, received,
                   batches, historyVars, process>>
-----------------------------------------------------------------------------
(***************************************************************************)
(* recvLoop.                                                               *)
(***************************************************************************)

\* What the server may say in a response of this type on stream g: it was asked
\* for the type and, in RDS and EDS, for the names.
MaySay(g, type) ==
    LET names == UNION {req.names : req \in {q \in sent[g] : q.type = type}}
    IN  {says \in Says(type) : type \in {"LDS", "CDS"} \/ Said(says) \subseteq names}

\* The server's response reaches recvLoop, which starts a goroutine that holds it.
\* A bad one holds a resource that cannot be unmarshalled or translated; static
\* are the configurations a listener holds itself.  Of a bad LDS or RDS response
\* nothing else matters.
RecvResponse(g) ==
    /\ recvLoop[g] = "recv"
    /\ Alive(g)
    /\ responses < MaxResponses
    /\ responses' = responses + 1
    /\ \E type \in {req.type : req \in sent[g]}, bad \in BOOLEAN :
        \E says \in MaySay(g, type) :
            /\ bad /\ type \in {"LDS", "RDS"} => Said(says) = {}
            /\ \E static \in IF type = "LDS" THEN SUBSET Said(says) ELSE {{}} :
                received' = received \cup
                    {[stream |-> g, num |-> responses', type |-> type, says |-> says,
                      bad |-> bad, static |-> static]}
    /\ UNCHANGED <<stateVars, runVars, sendLoop, recvLoop, first, trans, sending,
                   batches, sent, memory, emitted, refused, overlap, process>>

\* The goroutine that holds a response sees that the context is cancelled.
DropResponse(r) ==
    /\ ctxDone[r.stream]
    /\ received' = received \ {r}
    /\ UNCHANGED <<stateVars, runVars, sendLoop, recvLoop, first, trans, sending,
                   batches, historyVars, process>>

\* The stream fails, with an error that says "transport is closing" or another.
\* What is not sent yet is lost.
Break(g) ==
    /\ g <= streams /\ ~ctxDone[g]
    /\ broken[g] = "no"
    /\ \E why \in Failures : broken' = [broken EXCEPT ![g] = why]
    /\ sending' = [sending EXCEPT ![g] = {}]
    /\ UNCHANGED <<stateVars, run, stop, streams, ctxDone, sendLoop, recvLoop, first,
                   trans, received, batches, historyVars, process>>

\* Mutant: an error of the transport is treated as any other.
RecvError_NoReset(g) ==
    /\ recvLoop[g] = "recv"
    /\ ctxDone[g]
    /\ recvLoop' = [recvLoop EXCEPT ![g] = "off"]
    /\ UNCHANGED <<stateVars, runVars, sendLoop, first, trans, sending, received,
                   batches, historyVars, process>>

\* Recv fails.  recvLoop ends if the context is cancelled and asks for a reset
\* when the transport is closing; after any other error it calls Recv again,
\* which fails again: a step that changes nothing.
RecvError(g) ==
    /\ recvLoop[g] = "recv"
    /\ \/ /\ ctxDone[g]
          /\ recvLoop' = [recvLoop EXCEPT ![g] = "off"]
       \/ /\ ~ctxDone[g]
          /\ broken[g] = "closing"
          /\ recvLoop' = [recvLoop EXCEPT ![g] = "reset"]
    /\ UNCHANGED <<stateVars, runVars, sendLoop, first, trans, sending, received,
                   batches, historyVars, process>>
-----------------------------------------------------------------------------
(***************************************************************************)
(* translateLoop.                                                          *)
(***************************************************************************)

\* The objects of a map, in the order of its iteration.
ObjectsOf(map) ==
    SetToSeq({[id |-> n, val |-> map[n]] : n \in {x \in DOMAIN map : map[x] # NoObject}})

\* Mutant: the ACK does not name the response.
AckOf_NoNonce(r) ==
    [type |-> r.type, names |-> {}, ack |-> [stream |-> r.stream, num |-> 0]]

\* translateLoop: the ACK of response r.  RDS and EDS name their resources.
AckOf(r) ==
    [type |-> r.type,
     names |-> CASE r.type = "EDS" -> edsRequired
                 [] r.type = "RDS" -> Said(ownership)
                 [] OTHER          -> {},
     ack |-> [stream |-> r.stream, num |-> r.num]]

\* translate has come to the request it makes, if any, or to its end.
Translated(g, r, reqs, evs) ==
    \/ /\ reqs = {}
       /\ Emit(r.num, evs)
       /\ trans' = [trans EXCEPT ![g] = [pc |-> "ack", ack |-> AckOf(r)]]
    \/ \E req \in reqs :
        /\ trans' = [trans EXCEPT ![g] =
                       [pc |-> "request", req |-> req, evs |-> evs, ack |-> AckOf(r)]]
        /\ UNCHANGED <<batches, emitted>>

\* Mutant: no NACK is sent.
Refuse_NoNack(g, r) ==
    /\ trans' = [trans EXCEPT ![g] = Select]
    /\ UNCHANGED <<batches, emitted>>

\* translate returns an error: no events, and the ACK becomes a NACK.
Refuse(g, r) ==
    /\ trans' = [trans EXCEPT ![g] = [pc |-> "ack", ack |-> AckOf(r)]]
    /\ UNCHANGED <<batches, emitted>>

\* processRouteConfigurationV3: the routes of the configurations of a response, each
\* with the listener that owns it now.
RoutesOf(says) ==
    [f \in Configs |-> IF says[f] = Absent THEN NoObject
                       ELSE [content |-> says[f], owner |-> ownership[f]]]

\* RouteConfigurationUrl.  The routes of static configurations are translated and
\* dropped.  A response is refused before anything is changed.
TranslateRDS(g, r) ==
    LET new == RoutesOf(r.says)
    IN  /\ r.type = "RDS"
        /\ IF r.bad
           THEN /\ Refuse(g, r)
                /\ UNCHANGED routes
           ELSE /\ routes' = new
                /\ Translated(g, r, {},
                     GenerateEvents([routes |-> ObjectsOf(new), upstreams |-> <<>>],
                                    [routes |-> ObjectsOf(routes), upstreams |-> <<>>]))
        /\ UNCHANGED <<upstreams, edsRequired, ownership, refused>>

\* Mutant: the EDS request is not renewed when a cluster is removed.
SendEds_OnlyMore(new) ==
    IF new \subseteq edsRequired THEN {}
    ELSE {[type |-> "EDS", names |-> new, ack |-> NoAck]}

\* The request of sendEds, when CDS has changed the set of clusters that need it
\* and left one.
SendEds(new) ==
    IF new = edsRequired \/ new = {} THEN {}
    ELSE {[type |-> "EDS", names |-> new, ack |-> NoAck]}

\* processClusterV3: the upstreams of the clusters of a response, and which of them
\* need EDS.
UpstreamsOf(says) ==
    [c \in Clusters |-> IF says[c] = Absent THEN NoObject ELSE [nodes |-> says[c]]]

EdsClusters(says) == {c \in Clusters : says[c] = 0}

\* ClusterUrl.  A cluster with a feature that is not supported is left out; any
\* other error refuses the response after edsRequiredClusters was rebuilt from the
\* clusters before it.
TranslateCDS(g, r) ==
    LET new == UpstreamsOf(r.says)
        eds == EdsClusters(r.says)
    IN  /\ r.type = "CDS"
        /\ IF r.bad
           THEN /\ \E handled \in SUBSET Said(r.says) : edsRequired' = handled \cap eds
                /\ refused' = refused \cup {"CDS"}
                /\ Refuse(g, r)
                /\ UNCHANGED upstreams
           ELSE /\ upstreams' = new
                /\ edsRequired' = eds
                /\ Translated(g, r, SendEds(eds),
                     GenerateEvents([routes |-> <<>>, upstreams |-> ObjectsOf(new)],
                                    [routes |-> <<>>, upstreams |-> ObjectsOf(upstreams)]))
                /\ UNCHANGED refused
        /\ UNCHANGED <<routes, ownership>>

\* processClusterLoadAssignmentV3 of the clusters in set.
Assign(r, set) ==
    [c \in Clusters |-> IF c \in set THEN [nodes |-> r.says[c]] ELSE upstreams[c]]

\* Mutant: the difference is taken after the last state was replaced.
EdsEvents_Replaced(r) ==
    LET new == [routes |-> <<>>, upstreams |-> ObjectsOf(Assign(r, Said(r.says)))]
    IN  GenerateEvents(new, new)

\* An update event for every cluster of the response, changed or not.
EdsEvents(r) ==
    Events([routes |-> <<>>,
            upstreams |-> SetToSeq({[id |-> c, val |-> [nodes |-> r.says[c]]] :
                                        c \in Said(r.says)})], "update")

\* ClusterLoadAssignmentUrl.  A bad resource or one of an unknown cluster refuses
\* the response after the upstreams before it were replaced.
TranslateEDS(g, r) ==
    LET known == {c \in Said(r.says) : upstreams[c] # NoObject}
    IN  /\ r.type = "EDS"
        /\ IF r.bad \/ known # Said(r.says)
           THEN \E handled \in SUBSET known :
                /\ upstreams' = Assign(r, handled)
                /\ refused' = IF handled = {} THEN refused ELSE refused \cup {"EDS"}
                /\ Refuse(g, r)
           ELSE /\ upstreams' = Assign(r, known)
                /\ Translated(g, r, {}, EdsEvents(r))
                /\ UNCHANGED refused
        /\ UNCHANGED <<edsRequired, routes, ownership>>

\* ListenerUrl: the names of the route configurations to ask for (trySendRds) and
\* who owns them.  The batch is empty, and is sent to the sidecar all the same.
TranslateLDS(g, r) ==
    LET names == Said(r.says) \ r.static
    IN  /\ r.type = "LDS"
        /\ IF r.bad
           THEN /\ Refuse(g, r)
                /\ UNCHANGED ownership
           ELSE /\ ownership' = r.says
                /\ Translated(g, r,
                     IF names = {} THEN {}
                     ELSE {[type |-> "RDS", names |-> names, ack |-> NoAck]}, <<>>)
        /\ UNCHANGED <<upstreams, edsRequired, routes, refused>>

\* translateLoop of stream g takes a response from recvCh, be it of its own stream
\* or not, and translates it.  It may do so after its context was cancelled: select
\* chooses either case for a loop that reaches it only then.
Translate(g) ==
    /\ trans[g] = Select
    /\ \E r \in received :
        /\ received' = received \ {r}
        /\ \/ TranslateRDS(g, r)
           \/ TranslateCDS(g, r)
           \/ TranslateEDS(g, r)
           \/ TranslateLDS(g, r)
    /\ overlap' = (overlap \/ \E h \in Stream : trans[h].pc = "request")
    /\ UNCHANGED <<runVars, sendLoop, recvLoop, first, sending, sent, responses,
                   memory, process>>

TranslateLoopEnds(g) ==
    /\ trans[g] = Select
    /\ ctxDone[g]
    /\ trans' = [trans EXCEPT ![g] = Off]
    /\ UNCHANGED <<stateVars, runVars, sendLoop, recvLoop, first, sending, received,
                   batches, historyVars, process>>
-----------------------------------------------------------------------------
(***************************************************************************)
(* evChan.                                                                 *)
(***************************************************************************)

\* The sidecar takes a batch and reflects it.
TakeBatch ==
    /\ run # "closed"
    /\ \E b \in batches :
        /\ batches' = batches \ {b}
        /\ memory' = ApplyEvents(memory, b.evs)
    /\ UNCHANGED <<stateVars, runVars, sendLoop, recvLoop, first, trans, sending,
                   received, sent, responses, emitted, refused, overlap, process>>

\* A send on the closed evChan panics.
PanicOnClosed ==
    /\ run = "closed"
    /\ batches # {}
    /\ process' = "panic"
    /\ UNCHANGED <<stateVars, runVars, loopVars, historyVars>>
-----------------------------------------------------------------------------
RunStep == RunStop \/ \E g \in Stream : RunReset(g)

TakeStep(h) == \E g \in Stream : TakeFirst(h, g) \/ TakeRequest(h, g) \/ TakeAck(h, g)

Next ==
    /\ process = "up"
    /\ \/ Dial
       \/ DialFails
       \/ CloseStop
       \/ RunStep
       \/ \E g \in Stream :
            \/ TakeStep(g)
            \/ Send(g)
            \/ SendLoopEnds(g)
            \/ RecvResponse(g)
            \/ Break(g)
            \/ RecvError(g)
            \/ Translate(g)
            \/ TranslateLoopEnds(g)
       \/ \E r \in received : DropResponse(r)
       \/ TakeBatch
       \/ PanicOnClosed

Spec == Init /\ [][Next]_vars

\* Go runs every goroutine that can run.  The server need neither accept a
\* connection nor answer.
Fairness ==
    /\ WF_vars(process = "up" /\ RunStep)
    /\ WF_vars(process = "up" /\ TakeBatch)
    /\ \A g \in Stream :
        /\ WF_vars(process = "up" /\ RecvError(g))
        /\ WF_vars(process = "up" /\ Translate(g))
        /\ WF_vars(process = "up" /\ Send(g))
        /\ WF_vars(process = "up" /\ TakeStep(g))

FairSpec == Spec /\ Fairness
-----------------------------------------------------------------------------
(***************************************************************************)
(* Properties.                                                             *)
(***************************************************************************)

\* No translateLoop is in the middle of translate.
Quiet == \A g \in Stream : trans[g].pc # "request"

\* The last state of the provisioner is what its events say: the batches, applied
\* in the order translate made them, give upstreams and routes, through any mix of
\* CDS, EDS, LDS and RDS responses and refusals.  It is lost only by an EDS response
\* refused half-way, or when translateLoops of two streams overlap.
EmittedMatchesState ==
    Quiet /\ "EDS" \notin refused /\ ~overlap =>
        /\ \A c \in Clusters : emitted[c] = upstreams[c]
        /\ \A f \in Configs : emitted[f] = routes[f]

\* docs/how-it-works.md: "then generating ADD, DELETE and UPDATE events so data in
\* memory can be changed incrementally": once every batch was taken, the memory
\* holds the last state of the provisioner.
MemoryMatchesState ==
    Quiet /\ "EDS" \notin refused /\ ~overlap /\ batches = {} =>
        /\ \A c \in Clusters : memory[c] = upstreams[c]
        /\ \A f \in Configs : memory[f] = routes[f]

\* Stream g has asked, or is about to ask, for the endpoints of exactly the clusters
\* that need EDS.
EdsAsked(g) ==
    \/ edsRequired = {}
    \/ \E req \in sent[g] \cup sending[g] : req.type = "EDS" /\ req.names = edsRequired

\* On the first stream, as long as it lives and no CDS response was refused, the
\* endpoints of the clusters that need EDS are asked for, whatever the order in
\* which the responses come.
EdsRequested ==
    streams = 1 /\ Quiet /\ "CDS" \notin refused /\ ~ctxDone[1] /\ broken[1] = "no"
        => EdsAsked(1)

\* pkg/provisioner/xds/v3/grpc/types.go: "this map enrolls all clusters that
\* require further EDS requests": what an earlier stream asked for and is still
\* needed, a later stream has asked for again once it has handled CDS.
EdsRequestedAgain ==
    LET g == streams
    IN  /\ g > 1 /\ Quiet /\ "CDS" \notin refused /\ ~ctxDone[g] /\ broken[g] = "no"
        /\ \E req \in sent[g] : req.type = "CDS" /\ req.ack.stream = g
        /\ \E h \in 1..(g - 1) : EdsAsked(h)
        => EdsAsked(g)

\* Only the error of the stream in use resets the connection: when a recvLoop waits
\* for Run to take its error, its stream is the last one opened, and Run has not
\* cancelled it, unless it has returned.
ResetIsCurrent ==
    \A g \in Stream : recvLoop[g] = "reset" =>
        g = streams /\ ((run = "select" /\ ~ctxDone[g]) \/ run = "closed")

\* A connection whose transport is closing is given up, so that Run can dial again.
ClosingResets ==
    \A g \in Stream :
        broken[g] = "closing" ~> (ctxDone[g] \/ process # "up")

\* Every response is answered, with an ACK or a NACK, on a stream that lives on:
\* sendLoop and translateLoop, which wait for each other, never wait in a circle.
ResponseAnswered ==
    \A n \in 1..MaxResponses :
        (\E r \in received : r.num = n) ~>
            \/ process # "up"
            \/ \E g \in Stream : ctxDone[g] \/ broken[g] # "no"
            \/ \E g \in Stream : \E req \in sent[g] : req.ack.num = n
=============================================================================
