----------------------------- MODULE GrpcProofs -----------------------------
(***************************************************************************)
(* Proofs about module GrpcProvisioner, for any clusters and route         *)
(* configurations, any number of streams and of responses.                 *)
(*                                                                         *)
(* Each property has an inductive invariant of its own.  TypeInv adds to   *)
(* TypeOK the types of what waits in goroutines: requests, responses and   *)
(* batches of events.  ResetInv says which streams are cancelled,          *)
(* StartedInv which of them have no goroutines yet, EdsInv follows the EDS *)
(* request from translate to the wire, and EmitInv says what the batch     *)
(* that translate holds while it waits for sendLoop will make of the       *)
(* events sent so far.                                                     *)
(***************************************************************************)
EXTENDS GrpcProvisioner, ManifestProofs, FiniteSetTheorems, TLAPS

-----------------------------------------------------------------------------
(* Maps as slices.                                                         *)

\* SetToSeq lists the members of a finite set.
LEMMA SetToSeqLists ==
    ASSUME NEW S, IsFiniteSet(S)
    PROVE  SetToSeq(S) \in Seq(S) /\ ToSet(SetToSeq(S)) = S
<1> DEFINE n == Cardinality(S)
           seq == SetToSeq(S)
<1>1. n \in Nat /\ ExistsBijection(1..n, S)
  BY FS_CardinalityType
<1>2. PICK f \in [1..n -> S] : IsInjective(f)
  BY <1>1 DEF ExistsBijection, Bijection, Injection
<1>3. seq \in [1..n -> S] /\ IsInjective(seq)
  BY <1>2 DEF SetToSeq
<1>4. seq \in Injection(1..n, S)
  BY <1>3 DEF Injection
<1>5. Cardinality(1..n) = n
  BY <1>1, FS_Interval
<1> HIDE DEF seq
<1>6. seq \in Surjection(1..n, S)
  BY <1>4, <1>5, FS_Injection
<1>7. DOMAIN seq = 1..n /\ \A x \in S : \E i \in 1..n : seq[i] = x
  BY <1>3, <1>6 DEF Surjection
<1>8. ToSet(seq) = S
  BY <1>3, <1>7 DEF ToSet
<1> QED
  BY <1>1, <1>3, <1>8 DEF seq

\* The slice seq holds an object for each name in E, with the value of map.
Holds(seq, D, V, map, E) ==
    /\ seq \in Seq([id : D, val : V])
    /\ Ids(seq) = E
    /\ \A n \in E : Lookup(seq, n).val = map[n]

\* The slice of the objects a set of names has, each in a record of its own.
LEMMA Listed ==
    ASSUME NEW D, IsFiniteSet(D), NEW map, NEW V, \A n \in D : map[n] \in V
    PROVE  Holds(SetToSeq({[id |-> n, val |-> map[n]] : n \in D}), D, V, map, D)
<1> DEFINE S == {[id |-> n, val |-> map[n]] : n \in D}
           seq == SetToSeq(S)
           f == [n \in D |-> [id |-> n, val |-> map[n]]]
<1>1. IsFiniteSet(S)
  <2>1. f \in Surjection(D, S)
    BY DEF Surjection
  <2> QED
    BY <2>1, FS_Surjection
<1>2. S \subseteq [id : D, val : V]
  OBVIOUS
<1>3. \A o \in S : o.id \in D /\ o.val = map[o.id]
  OBVIOUS
<1>4. \A n \in D : \E o \in S : o.id = n
  <2> TAKE n \in D
  <2>1. [id |-> n, val |-> map[n]] \in S /\ [id |-> n, val |-> map[n]].id = n
    OBVIOUS
  <2> QED
    BY <2>1
<1> HIDE DEF S
<1>5. seq \in Seq(S) /\ ToSet(seq) = S
  BY <1>1, SetToSeqLists
<1> HIDE DEF seq
<1>6. Ids(seq) = {o.id : o \in S}
  BY <1>5, IdsToSet
<1>7. Ids(seq) = D
  BY <1>3, <1>4, <1>6
<1>8. \A n \in D : Lookup(seq, n).val = map[n]
  <2> TAKE n \in D
  <2>1. Lookup(seq, n) \in S /\ Lookup(seq, n).id = n
    BY <1>5, <1>7, LookupFinds
  <2> QED
    BY <2>1, <1>3
<1>9. seq \in Seq([id : D, val : V])
  BY <1>2, <1>5, SeqLarger
<1> QED
  BY <1>7, <1>8, <1>9 DEF seq, S, Holds

\* The slice of a map shows what the map holds.
LEMMA ObjectsShow ==
    ASSUME NEW D, IsFiniteSet(D), NEW V, NEW map \in [D -> V \cup {NoObject}]
    PROVE  Holds(ObjectsOf(map), D, V, map, {n \in D : map[n] # NoObject})
<1> DEFINE E == {n \in D : map[n] # NoObject}
           seq == SetToSeq({[id |-> n, val |-> map[n]] : n \in E})
<1>1. ObjectsOf(map) = seq
  BY DEF ObjectsOf
<1>2. IsFiniteSet(E) /\ \A n \in E : map[n] \in V
  BY FS_Subset
<1>3. E \subseteq D
  OBVIOUS
<1> HIDE DEF E
<1>4. /\ seq \in Seq([id : E, val : V])
      /\ Ids(seq) = E
      /\ \A n \in E : Lookup(seq, n).val = map[n]
  <2>1. Holds(seq, E, V, map, E)
    BY <1>2, Listed
  <2> QED
    BY <2>1 DEF Holds
<1> HIDE DEF seq
<1>5. seq \in Seq([id : D, val : V])
  <2> DEFINE S == [id : E, val : V]
             T == [id : D, val : V]
  <2>1. S \subseteq T
    BY <1>3
  <2>2. seq \in Seq(S)
    BY <1>4
  <2> HIDE DEF S, T
  <2>3. seq \in Seq(T)
    BY <2>1, <2>2, SeqLarger
  <2> QED
    BY <2>3 DEF T
<1> QED
  BY <1>1, <1>4, <1>5 DEF E, Holds
-----------------------------------------------------------------------------
(* Types.                                                                  *)

Object == [id : Clusters, val : Upstream] \cup [id : Configs, val : Route]
Event == EventOf(Object)
Thing == Upstream \cup Route \cup {NoObject}

RunType ==
    /\ run \in {"dial", "select", "closed"}
    /\ stop \in BOOLEAN
    /\ streams \in 0..MaxStreams
    /\ ctxDone \in [Stream -> BOOLEAN]
    /\ broken \in [Stream -> {"no", "closing", "other"}]
    /\ sendLoop \in [Stream -> BOOLEAN]
    /\ recvLoop \in [Stream -> {"off", "recv", "reset"}]
    /\ responses \in 0..MaxResponses
    /\ refused \in SUBSET ResourceType
    /\ overlap \in BOOLEAN
    /\ process \in {"up", "panic", "fatal"}

StateType ==
    /\ upstreams \in [Clusters -> Upstream \cup {NoObject}]
    /\ edsRequired \in SUBSET Clusters
    /\ routes \in [Configs -> Route \cup {NoObject}]
    /\ ownership \in [Configs -> Value \cup {Absent}]

\* An ACK or a NACK of a response that was received.
AckOK(a, n) == a \in Request /\ a.ack.num \in 1..n

TransOK(t, n) ==
    \/ t = Off
    \/ t = Select
    \/ t.pc = "ack" /\ AckOK(t.ack, n)
    \/ t.pc = "request" /\ AckOK(t.ack, n) /\ t.req \in Request /\ t.evs \in Seq(Event)

ResponseOK(r, n) ==
    /\ r.stream \in Stream
    /\ r.num \in 1..n
    /\ r.type \in ResourceType
    /\ r.says \in Says(r.type)
    /\ r.static \subseteq Configs

BatchOK(b, n) == b.num \in 1..n /\ b.evs \in Seq(Event)

LoopType ==
    /\ first \in [Stream -> Seq(Request)]
    /\ DOMAIN trans = Stream
    /\ trans = [g \in Stream |-> trans[g]]
    /\ \A g \in Stream : TransOK(trans[g], responses)
    /\ sending \in [Stream -> SUBSET Request]
    /\ sent \in [Stream -> SUBSET Request]
    /\ \A r \in received : ResponseOK(r, responses)

BatchType ==
    /\ \A b \in batches : BatchOK(b, responses)
    /\ memory \in [Name -> Thing]
    /\ emitted \in [Name -> Thing]

TypeInv == RunType /\ StateType /\ LoopType /\ BatchType

\* A batch of events keeps a memory within its type.
LEMMA ApplyTyped ==
    ASSUME NEW mem \in [Name -> Thing], NEW evs \in Seq(Event)
    PROVE  /\ ApplyEvents(mem, evs) \in [Name -> Thing]
           /\ ApplyEvents(mem, evs) =
                [n \in Name |-> IF n \in Ids(evs) THEN Outcome(Lookup(evs, n)) ELSE mem[n]]
<1>1. mem = [n \in Name |-> mem[n]]
  OBVIOUS
<1>2. ApplyEvents(mem, evs) =
        [n \in Name |-> IF n \in Ids(evs) THEN Outcome(Lookup(evs, n)) ELSE mem[n]]
  BY <1>1, ApplyExact
<1>3. ASSUME NEW ev \in Event PROVE Outcome(ev) \in Thing
  BY <1>3 DEF Event, EventOf, EventType, Object, Outcome, Thing
<1>4. \A n \in Ids(evs) : Lookup(evs, n) \in Event
  BY LookupFinds
<1> QED
  BY <1>2, <1>3, <1>4

\* What is received is counted: the types allow for more responses.
LEMMA MoreResponses ==
    ASSUME NEW n \in Nat, NEW t
    PROVE  /\ TransOK(t, n) => TransOK(t, n + 1)
           /\ ResponseOK(t, n) => ResponseOK(t, n + 1)
           /\ BatchOK(t, n) => BatchOK(t, n + 1)
<1>1. \A i \in 1..n : i \in 1..(n + 1)
  OBVIOUS
<1> QED
  BY <1>1 DEF TransOK, AckOK, ResponseOK, BatchOK

\* TypeInv has the types of TypeOK.
LEMMA TypeInvTypes == TypeInv => TypeOK
<1> SUFFICES ASSUME TypeInv PROVE TypeOK
  OBVIOUS
<1> USE DEF TypeInv
<1>1. ASSUME NEW g \in Stream
      PROVE  \/ trans[g] \in {Off, Select}
             \/ /\ trans[g].pc \in {"request", "ack"}
                /\ trans[g].ack \in Request
                /\ trans[g].pc = "request" => trans[g].req \in Request
  <2>1. TransOK(trans[g], responses)
    BY DEF LoopType
  <2> QED
    BY <2>1 DEF TransOK, AckOK
<1>2. \A r \in received : r.stream \in Stream /\ r.num \in 1..responses
  BY DEF LoopType, ResponseOK
<1>3. \A b \in batches : b.num \in 1..responses
  BY DEF BatchType, BatchOK
<1>4. sending \in [Stream -> SUBSET Request] /\ sent \in [Stream -> SUBSET Request]
  BY DEF LoopType
<1>5. /\ memory \in [Name -> Upstream \cup Route \cup {NoObject}]
      /\ emitted \in [Name -> Upstream \cup Route \cup {NoObject}]
  BY DEF BatchType, Thing
<1>6. RunType /\ StateType
  OBVIOUS
<1> QED
  BY <1>1, <1>2, <1>3, <1>4, <1>5, <1>6 DEF RunType, StateType, TypeOK

LEMMA TypeInit == Init => TypeInv
<1> SUFFICES ASSUME Init PROVE TypeInv
  OBVIOUS
<1> USE GrpcAssumption
<1>1. RunType
  <2>1. /\ ctxDone \in [Stream -> BOOLEAN] /\ sendLoop \in [Stream -> BOOLEAN]
        /\ stop \in BOOLEAN /\ overlap \in BOOLEAN
    BY Zenon DEF Init
  <2>2. streams \in 0..MaxStreams /\ responses \in 0..MaxResponses
    BY DEF Init
  <2> QED
    BY <2>1, <2>2 DEF Init, RunType
<1>2. StateType
  BY DEF Init, StateType
<1>3. LoopType
  BY DEF Init, LoopType, TransOK
<1>4. BatchType
  BY DEF Init, BatchType, Thing
<1> QED
  BY <1>1, <1>2, <1>3, <1>4 DEF TypeInv

\* A request that sendLoop takes is one more to send.
LEMMA TakeTyped ==
    ASSUME TypeInv, NEW h \in Stream, NEW req \in Request, Take(h, req)
    PROVE  sending' \in [Stream -> SUBSET Request]
BY DEF TypeInv, LoopType, Take

\* The actions of Run, of the loops and of the sidecar keep the types.
LEMMA LoopsTyped ==
    ASSUME TypeInv,
           \/ Dial \/ DialFails \/ CloseStop \/ RunStep
           \/ \E h \in Stream : TakeStep(h) \/ Send(h) \/ SendLoopEnds(h) \/ Break(h)
                                \/ RecvError(h) \/ TranslateLoopEnds(h)
           \/ \E r \in received : DropResponse(r)
           \/ TakeBatch \/ PanicOnClosed
    PROVE  TypeInv'
<1> USE GrpcAssumption DEF TypeInv, stateVars, runVars, loopVars, historyVars
<1>1. CASE Dial
  <2> USE <1>1 DEF Dial
  <2>1. RunType'
    BY DEF RunType, Stream
  <2>2. FirstSend \in Seq(Request)
    BY DEF FirstSend, Request, ResourceType
  <2>3. LoopType'
    BY <2>2 DEF LoopType, TransOK
  <2>4. StateType' /\ BatchType'
    BY DEF StateType, BatchType
  <2> QED
    BY <2>1, <2>3, <2>4
<1>2. CASE DialFails \/ CloseStop \/ PanicOnClosed
  <2>1. /\ UNCHANGED <<stateVars, loopVars, historyVars, batches, received, responses>>
        /\ UNCHANGED <<streams, ctxDone, broken>>
    BY <1>2 DEF DialFails, CloseStop, PanicOnClosed
  <2>2. RunType'
    BY <1>2 DEF DialFails, CloseStop, PanicOnClosed, RunType
  <2>3. StateType' /\ BatchType'
    BY <2>1 DEF StateType, BatchType
  <2>4. LoopType'
    BY <2>1 DEF LoopType
  <2> QED
    BY <2>2, <2>3, <2>4
<1>3. CASE RunStep
  <2>1. /\ UNCHANGED <<stateVars, stop, streams, broken, sendLoop, first, trans, received,
                       batches, historyVars, process>>
        /\ ctxDone' = [ctxDone EXCEPT ![streams] = TRUE]
        /\ sending' = [sending EXCEPT ![streams] = {}]
        /\ run' \in {"dial", "closed"}
        /\ \/ recvLoop' = recvLoop
           \/ \E g \in Stream : recvLoop' = [recvLoop EXCEPT ![g] = "off"]
    BY <1>3 DEF RunStep, RunStop, RunReset, Cleanup
  <2>2. RunType'
    BY <2>1 DEF RunType
  <2>3. LoopType'
    BY <2>1 DEF LoopType
  <2>4. StateType' /\ BatchType'
    BY <2>1 DEF StateType, BatchType
  <2> QED
    BY <2>2, <2>3, <2>4
<1>4. ASSUME NEW h \in Stream, NEW g \in Stream, TakeFirst(h, g) PROVE TypeInv'
  <2> USE <1>4 DEF TakeFirst
  <2>1. Head(first[g]) \in Request /\ Tail(first[g]) \in Seq(Request)
    BY DEF LoopType
  <2>2. sending' \in [Stream -> SUBSET Request]
    BY <2>1, TakeTyped
  <2>3. LoopType'
    BY <2>1, <2>2 DEF LoopType
  <2>4. RunType' /\ StateType' /\ BatchType'
    BY DEF RunType, StateType, BatchType
  <2> QED
    BY <2>3, <2>4
<1>5. ASSUME NEW h \in Stream, NEW g \in Stream, TakeRequest(h, g) PROVE TypeInv'
  <2> USE <1>5 DEF TakeRequest
  <2>1. TransOK(trans[g], responses)
    BY DEF LoopType
  <2>2. /\ AckOK(trans[g].ack, responses) /\ trans[g].req \in Request
        /\ trans[g].evs \in Seq(Event)
    BY <2>1 DEF TransOK, Off, Select
  <2>3. sending' \in [Stream -> SUBSET Request]
    BY <2>2, TakeTyped
  <2>4. LoopType'
    BY <2>2, <2>3 DEF LoopType, TransOK
  <2>5. ApplyEvents(emitted, trans[g].evs) \in [Name -> Thing]
    BY <2>2, ApplyTyped DEF BatchType
  <2>6. BatchType'
    BY <2>2, <2>5 DEF BatchType, BatchOK, Emit, AckOK
  <2>7. RunType' /\ StateType'
    BY DEF RunType, StateType
  <2> QED
    BY <2>4, <2>6, <2>7
<1>6. ASSUME NEW h \in Stream, NEW g \in Stream, TakeAck(h, g) PROVE TypeInv'
  <2> USE <1>6 DEF TakeAck
  <2>1. TransOK(trans[g], responses)
    BY DEF LoopType
  <2>2. trans[g].ack \in Request
    BY <2>1 DEF TransOK, AckOK, Off, Select
  <2>3. sending' \in [Stream -> SUBSET Request]
    BY <2>2, TakeTyped
  <2>4. LoopType'
    BY <2>3 DEF LoopType, TransOK
  <2>5. RunType' /\ StateType' /\ BatchType'
    BY DEF RunType, StateType, BatchType
  <2> QED
    BY <2>4, <2>5
<1>7. ASSUME NEW h \in Stream, Send(h) PROVE TypeInv'
  <2>1. LoopType'
    BY <1>7 DEF Send, LoopType
  <2>2. RunType' /\ StateType' /\ BatchType'
    BY <1>7 DEF Send, RunType, StateType, BatchType
  <2> QED
    BY <2>1, <2>2
<1>8. ASSUME NEW h \in Stream, SendLoopEnds(h) \/ Break(h) \/ RecvError(h) PROVE TypeInv'
  <2>1. RunType'
    BY <1>8 DEF SendLoopEnds, Break, RecvError, RunType
  <2>2. LoopType'
    BY <1>8 DEF SendLoopEnds, Break, RecvError, LoopType
  <2>3. StateType' /\ BatchType'
    BY <1>8 DEF SendLoopEnds, Break, RecvError, StateType, BatchType
  <2> QED
    BY <2>1, <2>2, <2>3
<1>9. ASSUME NEW h \in Stream, TranslateLoopEnds(h) PROVE TypeInv'
  <2>1. LoopType'
    BY <1>9 DEF TranslateLoopEnds, LoopType, TransOK
  <2>2. RunType' /\ StateType' /\ BatchType'
    BY <1>9 DEF TranslateLoopEnds, RunType, StateType, BatchType
  <2> QED
    BY <2>1, <2>2
<1>10. ASSUME NEW r \in received, DropResponse(r) PROVE TypeInv'
  BY <1>10 DEF DropResponse, RunType, StateType, LoopType, BatchType
<1>11. CASE TakeBatch
  <2>1. PICK b \in batches : batches' = batches \ {b} /\ memory' = ApplyEvents(memory, b.evs)
    BY <1>11 DEF TakeBatch
  <2>2. memory' \in [Name -> Thing]
    BY <2>1, ApplyTyped DEF BatchType, BatchOK
  <2>3. BatchType'
    BY <1>11, <2>1, <2>2 DEF TakeBatch, BatchType
  <2>4. RunType' /\ StateType' /\ LoopType'
    BY <1>11 DEF TakeBatch, RunType, StateType, LoopType
  <2> QED
    BY <2>3, <2>4
<1> QED
  BY <1>1, <1>2, <1>3, <1>4, <1>5, <1>6, <1>7, <1>8, <1>9, <1>10, <1>11 DEF TakeStep

\* A response that is received is one the server may send.
LEMMA ReceivedTyped ==
    ASSUME TypeInv, NEW g \in Stream, RecvResponse(g)
    PROVE  TypeInv'
<1> USE GrpcAssumption DEF TypeInv, stateVars, runVars, loopVars, historyVars
<1> USE DEF RecvResponse
<1>1. /\ responses' = responses + 1 /\ responses \in Nat /\ responses + 1 \in 0..MaxResponses
  BY DEF RunType
<1>2. PICK type \in {req.type : req \in sent[g]}, bad \in BOOLEAN :
        \E says \in MaySay(g, type) :
            \E static \in IF type = "LDS" THEN SUBSET Said(says) ELSE {{}} :
                received' = received \cup
                    {[stream |-> g, num |-> responses + 1, type |-> type, says |-> says,
                      bad |-> bad, static |-> static]}
  BY <1>1
<1>3. PICK says \in MaySay(g, type) :
        \E static \in IF type = "LDS" THEN SUBSET Said(says) ELSE {{}} :
            received' = received \cup
                {[stream |-> g, num |-> responses + 1, type |-> type, says |-> says,
                  bad |-> bad, static |-> static]}
  BY <1>2
<1>s. PICK static \in IF type = "LDS" THEN SUBSET Said(says) ELSE {{}} :
        received' = received \cup
            {[stream |-> g, num |-> responses + 1, type |-> type, says |-> says,
              bad |-> bad, static |-> static]}
  BY <1>3
<1>4. type \in ResourceType /\ says \in Says(type)
  BY DEF LoopType, Request, MaySay
<1>5. static \subseteq Configs
  BY <1>4 DEF Says, Said
<1> DEFINE r == [stream |-> g, num |-> responses + 1, type |-> type, says |-> says,
                 bad |-> bad, static |-> static]
<1>6. ResponseOK(r, responses + 1)
  BY <1>1, <1>4, <1>5 DEF ResponseOK
<1>7. \A q \in received : ResponseOK(q, responses + 1)
  BY <1>1, MoreResponses DEF LoopType
<1>8. \A q \in received' : ResponseOK(q, responses')
  BY <1>1, <1>s, <1>6, <1>7
<1>9. \A h \in Stream : TransOK(trans[h], responses + 1)
  BY <1>1, MoreResponses DEF LoopType
<1>10. \A b \in batches : BatchOK(b, responses + 1)
  BY <1>1, MoreResponses DEF BatchType
<1>11. LoopType'
  BY <1>1, <1>8, <1>9 DEF LoopType
<1>12. BatchType'
  BY <1>1, <1>10 DEF BatchType
<1>13. RunType' /\ StateType'
  BY <1>1 DEF RunType, StateType
<1> QED
  BY <1>11, <1>12, <1>13
-----------------------------------------------------------------------------
(* The events of translate.                                                *)

\* evs turns what a memory holds of the names in D from a into b, and leaves the rest.
Turns(evs, D, a, b) ==
    /\ evs \in Seq(Event)
    /\ \A mem \in [Name -> Thing] :
        (\A n \in D : mem[n] = a[n]) =>
            \A n \in Name : ApplyEvents(mem, evs)[n] = IF n \in D THEN b[n] ELSE mem[n]

\* Events that lead from one manifest to another, by what the manifests show.
LEMMA LeadTurns ==
    ASSUME NEW evs, NEW m, NEW o, Lead(evs, o, m, Object), NEW D \in SUBSET Name,
           NEW a, NEW b, \A n \in D : Shown(o, n) = a[n] /\ Shown(m, n) = b[n],
           Ids(evs) \subseteq D
    PROVE  Turns(evs, D, a, b)
<1>1. /\ evs \in Seq(Event)
      /\ \A n \in Ids(evs) : Outcome(Lookup(evs, n)) = Shown(m, n)
      /\ \A n : n \notin Ids(evs) => Shown(m, n) = Shown(o, n)
  BY DEF Lead, Event
<1>2. ASSUME NEW mem \in [Name -> Thing], \A n \in D : mem[n] = a[n], NEW n \in Name
      PROVE  ApplyEvents(mem, evs)[n] = IF n \in D THEN b[n] ELSE mem[n]
  <2>1. ApplyEvents(mem, evs) =
          [k \in Name |-> IF k \in Ids(evs) THEN Outcome(Lookup(evs, k)) ELSE mem[k]]
    BY <1>1, ApplyTyped
  <2>2. CASE n \in Ids(evs)
    BY <1>1, <2>1, <2>2
  <2>3. CASE n \notin Ids(evs) /\ n \in D
    BY <1>1, <1>2, <2>1, <2>3
  <2>4. CASE n \notin D
    BY <2>1, <2>4
  <2> QED
    BY <2>2, <2>3, <2>4
<1> QED
  BY <1>1, <1>2 DEF Turns

\* The difference of two maps of routes.
LEMMA RouteEvents ==
    ASSUME NEW a \in [Configs -> Route \cup {NoObject}],
           NEW b \in [Configs -> Route \cup {NoObject}]
    PROVE  Turns(GenerateEvents([routes |-> ObjectsOf(b), upstreams |-> <<>>],
                                [routes |-> ObjectsOf(a), upstreams |-> <<>>]),
                 Configs, a, b)
<1> DEFINE m == [routes |-> ObjectsOf(b), upstreams |-> <<>>]
           o == [routes |-> ObjectsOf(a), upstreams |-> <<>>]
           S == [id : Configs, val : Route]
<1>1. IsFiniteSet(Configs)
  BY GrpcAssumption
<1>2. /\ ObjectsOf(a) \in Seq(S)
      /\ Ids(ObjectsOf(a)) = {n \in Configs : a[n] # NoObject}
      /\ \A n \in Ids(ObjectsOf(a)) : Lookup(ObjectsOf(a), n).val = a[n]
  <2>1. Holds(ObjectsOf(a), Configs, Route, a, {n \in Configs : a[n] # NoObject})
    BY <1>1, ObjectsShow
  <2> QED
    BY <2>1 DEF Holds
<1>3. /\ ObjectsOf(b) \in Seq(S)
      /\ Ids(ObjectsOf(b)) = {n \in Configs : b[n] # NoObject}
      /\ \A n \in Ids(ObjectsOf(b)) : Lookup(ObjectsOf(b), n).val = b[n]
  <2>1. Holds(ObjectsOf(b), Configs, Route, b, {n \in Configs : b[n] # NoObject})
    BY <1>1, ObjectsShow
  <2> QED
    BY <2>1 DEF Holds
<1>4. S \subseteq Object
  BY DEF Object
<1> HIDE DEF S
<1>5. ObjectsOf(a) \in Seq(Object) /\ ObjectsOf(b) \in Seq(Object)
  BY <1>2, <1>3, <1>4, SeqLarger
<1>6. Ids(<<>>) = {}
  BY DEF Ids
<1>7. IsManifest(m, Object) /\ IsManifest(o, Object) /\ KindsApart(m, o)
  BY <1>5, <1>6 DEF IsManifest, KindsApart
<1>8. \A n \in Configs : Shown(o, n) = a[n] /\ Shown(m, n) = b[n]
  BY <1>2, <1>3, <1>6 DEF Shown
<1>9. Ids(m.routes) \cup Ids(m.upstreams) \cup Ids(o.routes) \cup Ids(o.upstreams)
        \subseteq Configs
  BY <1>2, <1>3, <1>6
<1> HIDE DEF m, o
<1>10. Lead(GenerateEvents(m, o), o, m, Object)
  BY <1>7, GenerateLeads
<1>11. Ids(GenerateEvents(m, o)) \subseteq Configs
  BY <1>9, <1>10 DEF Lead
<1>12. Turns(GenerateEvents(m, o), Configs, a, b)
  BY <1>8, <1>10, <1>11, LeadTurns DEF Name
<1> QED
  BY <1>12 DEF m, o

\* The difference of two maps of upstreams.
LEMMA UpstreamEvents ==
    ASSUME NEW a \in [Clusters -> Upstream \cup {NoObject}],
           NEW b \in [Clusters -> Upstream \cup {NoObject}]
    PROVE  Turns(GenerateEvents([routes |-> <<>>, upstreams |-> ObjectsOf(b)],
                                [routes |-> <<>>, upstreams |-> ObjectsOf(a)]),
                 Clusters, a, b)
<1> DEFINE m == [routes |-> <<>>, upstreams |-> ObjectsOf(b)]
           o == [routes |-> <<>>, upstreams |-> ObjectsOf(a)]
           S == [id : Clusters, val : Upstream]
<1>1. IsFiniteSet(Clusters)
  BY GrpcAssumption
<1>2. /\ ObjectsOf(a) \in Seq(S)
      /\ Ids(ObjectsOf(a)) = {n \in Clusters : a[n] # NoObject}
      /\ \A n \in Ids(ObjectsOf(a)) : Lookup(ObjectsOf(a), n).val = a[n]
  <2>1. Holds(ObjectsOf(a), Clusters, Upstream, a, {n \in Clusters : a[n] # NoObject})
    BY <1>1, ObjectsShow
  <2> QED
    BY <2>1 DEF Holds
<1>3. /\ ObjectsOf(b) \in Seq(S)
      /\ Ids(ObjectsOf(b)) = {n \in Clusters : b[n] # NoObject}
      /\ \A n \in Ids(ObjectsOf(b)) : Lookup(ObjectsOf(b), n).val = b[n]
  <2>1. Holds(ObjectsOf(b), Clusters, Upstream, b, {n \in Clusters : b[n] # NoObject})
    BY <1>1, ObjectsShow
  <2> QED
    BY <2>1 DEF Holds
<1>4. S \subseteq Object
  BY DEF Object
<1> HIDE DEF S
<1>5. ObjectsOf(a) \in Seq(Object) /\ ObjectsOf(b) \in Seq(Object)
  BY <1>2, <1>3, <1>4, SeqLarger
<1>6. Ids(<<>>) = {}
  BY DEF Ids
<1>7. IsManifest(m, Object) /\ IsManifest(o, Object) /\ KindsApart(m, o)
  BY <1>5, <1>6 DEF IsManifest, KindsApart
<1>8. \A n \in Clusters : Shown(o, n) = a[n] /\ Shown(m, n) = b[n]
  BY <1>2, <1>3, <1>6 DEF Shown
<1>9. Ids(m.routes) \cup Ids(m.upstreams) \cup Ids(o.routes) \cup Ids(o.upstreams)
        \subseteq Clusters
  BY <1>2, <1>3, <1>6
<1> HIDE DEF m, o
<1>10. Lead(GenerateEvents(m, o), o, m, Object)
  BY <1>7, GenerateLeads
<1>11. Ids(GenerateEvents(m, o)) \subseteq Clusters
  BY <1>9, <1>10 DEF Lead
<1>12. Turns(GenerateEvents(m, o), Clusters, a, b)
  BY <1>8, <1>10, <1>11, LeadTurns DEF Name
<1> QED
  BY <1>12 DEF m, o

\* The events of a load assignment: one for each cluster it names.
LEMMA AssignEvents ==
    ASSUME NEW r, r.says \in Says("EDS"), NEW a \in [Clusters -> Upstream \cup {NoObject}],
           NEW b, \A c \in Clusters : b[c] = IF c \in Said(r.says) THEN [nodes |-> r.says[c]]
                                            ELSE a[c]
    PROVE  Turns(EdsEvents(r), Clusters, a, b)
<1> DEFINE D == Said(r.says)
           map == [c \in D |-> [nodes |-> r.says[c]]]
           seq == SetToSeq({[id |-> c, val |-> [nodes |-> r.says[c]]] : c \in D})
           m == [routes |-> <<>>, upstreams |-> seq]
           evs == Events(m, "update")
           S == [id : D, val : Upstream]
<1>1. EdsEvents(r) = evs
  BY DEF EdsEvents
<1>2. D \subseteq Clusters /\ \A c \in D : map[c] \in Upstream
  BY GrpcAssumption DEF Says, Said, Upstream, Value, Absent
<1>3. IsFiniteSet(D)
  BY <1>2, GrpcAssumption, FS_Subset
<1>4. {[id |-> c, val |-> [nodes |-> r.says[c]]] : c \in D}
        = {[id |-> c, val |-> map[c]] : c \in D}
  OBVIOUS
<1>5. \A c \in D : map[c] = [nodes |-> r.says[c]]
  OBVIOUS
<1> HIDE DEF map
<1>6. /\ seq \in Seq(S)
      /\ Ids(seq) = D
      /\ \A n \in D : Lookup(seq, n).val = map[n]
  <2>1. Holds(SetToSeq({[id |-> c, val |-> map[c]] : c \in D}), D, Upstream, map, D)
    BY <1>2, <1>3, Listed
  <2> QED
    BY <1>4, <2>1 DEF Holds
<1> HIDE DEF seq
<1>7. S \subseteq Object
  BY <1>2 DEF Object
<1> HIDE DEF S
<1>8. seq \in Seq(Object)
  BY <1>6, <1>7, SeqLarger
<1>9. Ids(<<>>) = {} /\ IsManifest(m, Object) /\ m.routes = <<>> /\ m.upstreams = seq
  BY <1>8 DEF IsManifest, Ids
<1> HIDE DEF m
<1>10. /\ evs \in Seq(Event)
       /\ Ids(evs) = D
       /\ \A n \in D : Lookup(evs, n).type = "update"
                       /\ Lookup(evs, n).val = Lookup(seq, n).val
  <2>1. /\ evs \in Seq(EventOf(Object))
        /\ Ids(evs) = Ids(m.routes) \cup Ids(m.upstreams)
        /\ \A n \in Ids(m.upstreams) :
             Lookup(evs, n).type = "update" /\ Lookup(evs, n).val = Lookup(m.upstreams, n).val
    BY <1>9, EventsExact DEF EventType
  <2> HIDE DEF evs
  <2> QED
    BY <2>1, <1>6, <1>9 DEF Event
<1> HIDE DEF evs
<1>11. \A n \in D : Outcome(Lookup(evs, n)) = b[n]
  BY <1>2, <1>5, <1>6, <1>10 DEF Outcome
<1>12. ASSUME NEW mem \in [Name -> Thing], \A n \in Clusters : mem[n] = a[n], NEW n \in Name
       PROVE  ApplyEvents(mem, evs)[n] = IF n \in Clusters THEN b[n] ELSE mem[n]
  <2>1. ApplyEvents(mem, evs) =
          [k \in Name |-> IF k \in Ids(evs) THEN Outcome(Lookup(evs, k)) ELSE mem[k]]
    BY <1>10, ApplyTyped
  <2>2. CASE n \in D
    BY <1>2, <1>10, <1>11, <2>1, <2>2
  <2>3. CASE n \in Clusters /\ n \notin D
    BY <1>10, <1>12, <2>1, <2>3
  <2>4. CASE n \notin Clusters
    BY <1>2, <1>10, <2>1, <2>4
  <2> QED
    BY <2>2, <2>3, <2>4
<1> QED
  BY <1>1, <1>10, <1>12 DEF Turns
-----------------------------------------------------------------------------
(* translate.                                                              *)

\* The last state of the provisioner, by name.
LastState == [n \in Name |-> IF n \in Clusters THEN upstreams[n] ELSE routes[n]]

\* The batch evs takes a memory of the last state to the next one.
Follows(evs) ==
    /\ evs \in Seq(Event)
    /\ \A mem \in [Name -> Thing] : mem = LastState => ApplyEvents(mem, evs) = LastState'

\* No events.
LEMMA NoEvents ==
    ASSUME NEW mem \in [Name -> Thing]
    PROVE  <<>> \in Seq(Event) /\ ApplyEvents(mem, <<>>) = mem
<1>1. <<>> \in Seq(Event) /\ Ids(<<>>) = {}
  BY DEF Ids
<1>2. ApplyEvents(mem, <<>>) =
        [n \in Name |-> IF n \in Ids(<<>>) THEN Outcome(Lookup(<<>>, n)) ELSE mem[n]]
  BY <1>1, ApplyTyped
<1>3. ApplyEvents(mem, <<>>) = [n \in Name |-> mem[n]]
  BY <1>1, <1>2
<1> QED
  BY <1>1, <1>3

\* Events that turn one kind of objects as the state does follow the state.
LEMMA TurnsFollow ==
    ASSUME StateType,
           NEW evs,
           \/ Turns(evs, Clusters, upstreams, upstreams') /\ UNCHANGED routes
           \/ Turns(evs, Configs, routes, routes') /\ UNCHANGED upstreams
    PROVE  Follows(evs)
<1>1. evs \in Seq(Event)
  BY DEF Turns
<1>2. ASSUME NEW mem \in [Name -> Thing], mem = LastState
      PROVE  ApplyEvents(mem, evs) = LastState'
  <2>1. /\ \A c \in Clusters : mem[c] = upstreams[c]
        /\ \A f \in Configs : mem[f] = routes[f]
    BY <1>2, GrpcAssumption DEF LastState, Name
  <2>2. ApplyEvents(mem, evs) \in [Name -> Thing]
    BY <1>1, ApplyTyped
  <2>3. \A n \in Name : ApplyEvents(mem, evs)[n] = LastState'[n]
    <3>1. CASE Turns(evs, Clusters, upstreams, upstreams') /\ UNCHANGED routes
      <4>1. \A n \in Name : ApplyEvents(mem, evs)[n] =
              IF n \in Clusters THEN upstreams'[n] ELSE mem[n]
        BY <2>1, <3>1 DEF Turns
      <4> QED
        BY <2>1, <3>1, <4>1 DEF LastState, Name
    <3>2. CASE Turns(evs, Configs, routes, routes') /\ UNCHANGED upstreams
      <4>1. \A n \in Name : ApplyEvents(mem, evs)[n] =
              IF n \in Configs THEN routes'[n] ELSE mem[n]
        BY <2>1, <3>2 DEF Turns
      <4> QED
        BY <2>1, <3>2, <4>1, GrpcAssumption DEF LastState, Name
    <3> QED
      BY <3>1, <3>2
  <2>4. LastState' = [n \in Name |-> LastState'[n]]
    BY DEF LastState
  <2> QED
    BY <2>2, <2>3, <2>4
<1> QED
  BY <1>1, <1>2 DEF Follows

\* What a response may say, by its type.
LEMMA SaysTypes ==
    /\ Says("CDS") = [Clusters -> {Absent} \cup 0..MaxValue]
    /\ Says("EDS") = [Clusters -> {Absent} \cup Value]
    /\ Says("LDS") = [Configs -> {Absent} \cup Value]
    /\ Says("RDS") = [Configs -> {Absent} \cup Value]
BY DEF Says

\* What translate makes of a response: a batch that follows the last state, behind a
\* request or not, or a refusal, which leaves the last state as it is unless it is of
\* EDS and recorded as such.
LEMMA TranslateEffect ==
    ASSUME TypeInv, NEW g \in Stream, NEW r \in received,
           \/ TranslateRDS(g, r)
           \/ TranslateCDS(g, r)
           \/ TranslateEDS(g, r)
           \/ TranslateLDS(g, r)
    PROVE  /\ StateType'
           /\ refused \subseteq refused' /\ refused' \subseteq ResourceType
           /\ \/ \E evs, reqs :
                    Follows(evs) /\ reqs \in SUBSET Request /\ Translated(g, r, reqs, evs)
              \/ Refuse(g, r) /\ (LastState' = LastState \/ "EDS" \in refused')
<1> USE DEF TypeInv
<1>1. r.type \in ResourceType /\ r.says \in Says(r.type)
  BY DEF LoopType, ResponseOK
<1>2. refused \subseteq ResourceType
  BY DEF RunType
<1>3. CASE TranslateRDS(g, r)
  <2> USE <1>3 DEF TranslateRDS
  <2>1. r.says \in [Configs -> {Absent} \cup Value]
    BY <1>1, SaysTypes
  <2>2. RoutesOf(r.says) \in [Configs -> Route \cup {NoObject}]
    BY <2>1, GrpcAssumption DEF RoutesOf, Route, StateType, Value, Absent
  <2>3. StateType'
    BY <2>2 DEF StateType
  <2>4. CASE r.bad
    BY <2>3, <2>4, <1>2 DEF LastState
  <2>5. CASE ~r.bad
    <3> DEFINE evs == GenerateEvents([routes |-> ObjectsOf(RoutesOf(r.says)), upstreams |-> <<>>],
                                     [routes |-> ObjectsOf(routes), upstreams |-> <<>>])
    <3>1. Turns(evs, Configs, routes, RoutesOf(r.says))
      BY <2>2, RouteEvents DEF StateType
    <3>2. Translated(g, r, {}, evs) /\ routes' = RoutesOf(r.says)
      BY <2>5
    <3> HIDE DEF evs
    <3>3. Follows(evs)
      BY <3>1, <3>2, TurnsFollow
    <3> QED
      BY <2>3, <3>2, <3>3, <1>2
  <2> QED
    BY <2>4, <2>5
<1>4. CASE TranslateCDS(g, r)
  <2> USE <1>4 DEF TranslateCDS
  <2>1. r.says \in [Clusters -> {Absent} \cup 0..MaxValue]
    BY <1>1, SaysTypes
  <2>2. UpstreamsOf(r.says) \in [Clusters -> Upstream \cup {NoObject}]
    BY <2>1, GrpcAssumption DEF UpstreamsOf, Upstream, Absent
  <2>3. EdsClusters(r.says) \subseteq Clusters
    BY DEF EdsClusters
  <2>4. StateType'
    BY <2>2, <2>3 DEF StateType
  <2>5. refused \subseteq refused' /\ refused' \subseteq ResourceType
    BY <1>2 DEF ResourceType
  <2>6. CASE r.bad
    BY <2>4, <2>5, <2>6 DEF LastState
  <2>7. CASE ~r.bad
    <3> DEFINE evs == GenerateEvents(
                        [routes |-> <<>>, upstreams |-> ObjectsOf(UpstreamsOf(r.says))],
                        [routes |-> <<>>, upstreams |-> ObjectsOf(upstreams)])
               reqs == SendEds(EdsClusters(r.says))
    <3>1. Turns(evs, Clusters, upstreams, UpstreamsOf(r.says))
      BY <2>2, UpstreamEvents DEF StateType
    <3>2. Translated(g, r, reqs, evs) /\ upstreams' = UpstreamsOf(r.says)
      BY <2>7
    <3>3. reqs \in SUBSET Request
      BY <2>3 DEF SendEds, Request, ResourceType, Name
    <3> HIDE DEF evs, reqs
    <3>4. Follows(evs)
      BY <3>1, <3>2, TurnsFollow
    <3> QED
      BY <2>4, <2>5, <3>2, <3>3, <3>4
  <2> QED
    BY <2>6, <2>7
<1>5. CASE TranslateEDS(g, r)
  <2> USE <1>5 DEF TranslateEDS
  <2> DEFINE known == {c \in Said(r.says) : upstreams[c] # NoObject}
  <2>1. r.says \in [Clusters -> {Absent} \cup Value] /\ r.says \in Says("EDS")
    BY <1>1, SaysTypes
  <2>2. ASSUME NEW set \in SUBSET known
        PROVE  Assign(r, set) \in [Clusters -> Upstream \cup {NoObject}]
    BY <2>1, GrpcAssumption DEF Assign, Said, Upstream, Value, StateType
  <2>3. PICK set \in SUBSET known : upstreams' = Assign(r, set)
    OBVIOUS
  <2>4. StateType'
    BY <2>2, <2>3 DEF StateType
  <2>5. refused \subseteq refused' /\ refused' \subseteq ResourceType
    BY <1>2 DEF ResourceType
  <2>6. CASE r.bad \/ known # Said(r.says)
    <3>1. PICK handled \in SUBSET known :
            /\ upstreams' = Assign(r, handled)
            /\ refused' = IF handled = {} THEN refused ELSE refused \cup {"EDS"}
            /\ Refuse(g, r)
      BY <2>6
    <3>2. CASE handled = {}
      <4>1. upstreams' = upstreams
        BY <3>1, <3>2 DEF Assign, StateType
      <4> QED
        BY <2>4, <2>5, <3>1, <4>1 DEF LastState
    <3>3. CASE handled # {}
      BY <2>4, <2>5, <3>1, <3>3
    <3> QED
      BY <3>2, <3>3
  <2>7. CASE ~(r.bad \/ known # Said(r.says))
    <3>1. Translated(g, r, {}, EdsEvents(r)) /\ upstreams' = Assign(r, Said(r.says))
      BY <2>7
    <3>2. \A c \in Clusters :
            upstreams'[c] = IF c \in Said(r.says) THEN [nodes |-> r.says[c]] ELSE upstreams[c]
      BY <3>1 DEF Assign
    <3>3. Turns(EdsEvents(r), Clusters, upstreams, upstreams')
      BY <2>1, <3>2, AssignEvents DEF StateType
    <3>4. Follows(EdsEvents(r))
      BY <3>3, TurnsFollow
    <3> QED
      BY <2>4, <2>5, <3>1, <3>4
  <2> QED
    BY <2>6, <2>7
<1>6. CASE TranslateLDS(g, r)
  <2> USE <1>6 DEF TranslateLDS
  <2>1. r.says \in [Configs -> {Absent} \cup Value]
    BY <1>1, SaysTypes
  <2>2. StateType'
    BY <2>1 DEF StateType
  <2>3. LastState' = LastState
    BY DEF LastState
  <2>4. CASE r.bad
    BY <2>2, <2>3, <2>4, <1>2
  <2>5. CASE ~r.bad
    <3> DEFINE names == Said(r.says) \ r.static
               reqs == IF names = {} THEN {}
                       ELSE {[type |-> "RDS", names |-> names, ack |-> NoAck]}
    <3>1. reqs \in SUBSET Request
      BY <2>1 DEF Request, ResourceType, Name, Said
    <3>2. Translated(g, r, reqs, <<>>)
      BY <2>5
    <3> HIDE DEF reqs
    <3>3. Follows(<<>>)
      <4>1. <<>> \in Seq(Event)
        OBVIOUS
      <4> QED
        BY <2>3, <4>1, NoEvents DEF Follows
    <3> QED
      BY <2>2, <3>1, <3>2, <3>3, <1>2
  <2> QED
    BY <2>4, <2>5
<1> QED
  BY <1>3, <1>4, <1>5, <1>6

\* A step of translateLoop keeps the types.
LEMMA TranslateTyped ==
    ASSUME TypeInv, NEW g \in Stream, Translate(g)
    PROVE  TypeInv'
<1> USE DEF TypeInv
<1>1. PICK r \in received :
        /\ received' = received \ {r}
        /\ \/ TranslateRDS(g, r)
           \/ TranslateCDS(g, r)
           \/ TranslateEDS(g, r)
           \/ TranslateLDS(g, r)
  BY DEF Translate
<1>2. /\ StateType'
      /\ refused' \subseteq ResourceType
      /\ \/ \E evs, reqs :
               Follows(evs) /\ reqs \in SUBSET Request /\ Translated(g, r, reqs, evs)
         \/ Refuse(g, r)
  BY <1>1, TranslateEffect
<1>3. UNCHANGED <<runVars, sendLoop, recvLoop, first, sending, sent, responses, memory, process>>
      /\ overlap' \in BOOLEAN
  BY DEF Translate
<1>4. RunType'
  BY <1>2, <1>3 DEF RunType, runVars
<1>5. AckOK(AckOf(r), responses)
  <2>1. r.stream \in Stream /\ r.num \in 1..responses /\ r.type \in ResourceType
    BY DEF LoopType, ResponseOK
  <2>2. r.num \in 1..MaxResponses
    BY <2>1, GrpcAssumption DEF RunType
  <2>3. Said(ownership) \subseteq Name /\ edsRequired \subseteq Name
    BY DEF StateType, Said, Name
  <2> QED
    BY <2>1, <2>2, <2>3 DEF AckOK, AckOf, Request
<1>6. /\ DOMAIN trans' = Stream
      /\ trans' = [h \in Stream |-> trans'[h]]
      /\ \A h \in Stream : TransOK(trans'[h], responses)
      /\ \A b \in batches' : BatchOK(b, responses)
      /\ emitted' \in [Name -> Thing]
  <2>1. ASSUME NEW evs, NEW reqs, Follows(evs), reqs \in SUBSET Request,
               Translated(g, r, reqs, evs)
        PROVE  <1>6!:
    <3>1. evs \in Seq(Event)
      BY <2>1 DEF Follows
    <3>2. CASE Emit(r.num, evs) /\ trans' = [trans EXCEPT ![g] = [pc |-> "ack", ack |-> AckOf(r)]]
      <4>1. emitted' \in [Name -> Thing]
        BY <3>1, <3>2, ApplyTyped DEF Emit, BatchType
      <4>2. BatchOK([num |-> r.num, evs |-> evs], responses)
        BY <3>1 DEF BatchOK, LoopType, ResponseOK
      <4>3. \A b \in batches' : BatchOK(b, responses)
        BY <3>2, <4>2 DEF Emit, BatchType
      <4>4. TransOK([pc |-> "ack", ack |-> AckOf(r)], responses)
        BY <1>5 DEF TransOK
      <4> QED
        BY <3>2, <4>1, <4>3, <4>4 DEF LoopType
    <3>3. ASSUME NEW req \in reqs,
                 trans' = [trans EXCEPT ![g] =
                    [pc |-> "request", req |-> req, evs |-> evs, ack |-> AckOf(r)]],
                 UNCHANGED <<batches, emitted>>
          PROVE  <1>6!:
      <4>1. TransOK([pc |-> "request", req |-> req, evs |-> evs, ack |-> AckOf(r)], responses)
        BY <1>5, <2>1, <3>1 DEF TransOK
      <4> QED
        BY <3>3, <4>1 DEF LoopType, BatchType
    <3> QED
      BY <2>1, <3>2, <3>3 DEF Translated
  <2>2. CASE Refuse(g, r)
    <3>1. TransOK([pc |-> "ack", ack |-> AckOf(r)], responses)
      BY <1>5 DEF TransOK
    <3> QED
      BY <2>2, <3>1 DEF Refuse, LoopType, BatchType
  <2> QED
    BY <1>2, <2>1, <2>2
<1>7. LoopType'
  BY <1>1, <1>3, <1>6 DEF LoopType
<1>8. BatchType'
  BY <1>3, <1>6 DEF BatchType
<1> QED
  BY <1>2, <1>4, <1>7, <1>8

\* Every step keeps the types.
LEMMA TypeStep == TypeInv /\ [Next]_vars => TypeInv'
<1> SUFFICES ASSUME TypeInv, [Next]_vars PROVE TypeInv'
  OBVIOUS
<1>1. CASE Next
  BY <1>1, LoopsTyped, ReceivedTyped, TranslateTyped DEF Next
<1>2. CASE UNCHANGED vars
  BY <1>2 DEF vars, stateVars, runVars, loopVars, historyVars, TypeInv, RunType, StateType,
              LoopType, BatchType
<1> QED
  BY <1>1, <1>2

LEMMA TypeAlways == Spec => []TypeInv
BY TypeInit, TypeStep, PTL DEF Spec

\* The variables of GrpcProvisioner keep their types: what every goroutine holds is what
\* the one that hands it over has made.
THEOREM GrpcTypeCorrect == Spec => []TypeOK
BY TypeAlways, TypeInvTypes, PTL
-----------------------------------------------------------------------------
(* The stream in use.                                                      *)

\* Every stream but the last is cancelled, and the last one too while Run dials.  The
\* goroutines of a stream that is not opened do not run.
ResetInv ==
    /\ \A g \in Stream : g > streams => recvLoop[g] = "off"
    /\ \A g \in Stream : g < streams \/ (g = streams /\ run = "dial") => ctxDone[g]
    /\ ResetIsCurrent

LEMMA ResetInit == Init => ResetInv
BY GrpcAssumption DEF Init, ResetInv, ResetIsCurrent, Stream

LEMMA ResetStep == TypeInv /\ ResetInv /\ [Next]_vars => ResetInv'
<1> SUFFICES ASSUME TypeInv, ResetInv, [Next]_vars PROVE ResetInv'
  OBVIOUS
<1> USE DEF TypeInv, RunType, ResetInv, ResetIsCurrent, Stream, stateVars, runVars, loopVars,
            historyVars
<1>1. CASE Dial
  BY <1>1 DEF Dial
<1>2. CASE RunStop
  BY <1>2 DEF RunStop, Cleanup
<1>3. ASSUME NEW g \in Stream, RunReset(g) PROVE ResetInv'
  BY <1>3 DEF RunReset, Cleanup
<1>4. ASSUME NEW g \in Stream, RecvError(g) PROVE ResetInv'
  <2>1. UNCHANGED <<run, streams, ctxDone>> /\ recvLoop[g] = "recv"
    BY <1>4 DEF RecvError
  <2>2. CASE recvLoop' = [recvLoop EXCEPT ![g] = "off"]
    BY <2>1, <2>2
  <2>3. CASE ~ctxDone[g] /\ recvLoop' = [recvLoop EXCEPT ![g] = "reset"]
    <3>1. g = streams /\ run # "dial"
      BY <2>1, <2>3
    <3> QED
      BY <2>1, <2>3, <3>1
  <2> QED
    BY <1>4, <2>2, <2>3 DEF RecvError
<1>5. ASSUME UNCHANGED <<run, streams, ctxDone, recvLoop>> PROVE ResetInv'
  BY <1>5
<1>6. DialFails \/ CloseStop \/ TakeBatch \/ PanicOnClosed \/ UNCHANGED vars
        => UNCHANGED <<run, streams, ctxDone, recvLoop>>
  BY DEF DialFails, CloseStop, TakeBatch, PanicOnClosed, vars
<1>7. \A g \in Stream :
        TakeStep(g) \/ Send(g) \/ SendLoopEnds(g) \/ RecvResponse(g) \/ Break(g)
          \/ Translate(g) \/ TranslateLoopEnds(g)
        => UNCHANGED <<run, streams, ctxDone, recvLoop>>
  BY DEF TakeStep, TakeFirst, TakeRequest, TakeAck, Send, SendLoopEnds, RecvResponse, Break,
         Translate, TranslateLoopEnds
<1>8. \A r \in received : DropResponse(r) => UNCHANGED <<run, streams, ctxDone, recvLoop>>
  BY DEF DropResponse
<1> QED
  BY <1>1, <1>2, <1>3, <1>4, <1>5, <1>6, <1>7, <1>8 DEF Next, RunStep

\* Only the error of the stream in use resets the connection (recvLoop and Run of
\* types.go share resetCh over all streams): for any number of streams, a recvLoop that
\* waits for Run is that of the last stream, which Run has not cancelled.
THEOREM ResetsAreCurrent == Spec => []ResetIsCurrent
<1>1. ResetInv => ResetIsCurrent
  BY DEF ResetInv
<1> QED
  BY <1>1, ResetInit, ResetStep, TypeAlways, PTL DEF Spec
-----------------------------------------------------------------------------
(* Goroutines of streams that are not opened.                              *)

StartedInv == \A g \in Stream : g > streams => trans[g] = Off /\ ~sendLoop[g]

LEMMA StartedInit == Init => StartedInv
BY DEF Init, StartedInv

LEMMA StartedStep == TypeInv /\ StartedInv /\ [Next]_vars => StartedInv'
<1> SUFFICES ASSUME TypeInv, StartedInv, [Next]_vars PROVE StartedInv'
  OBVIOUS
<1> USE DEF StartedInv, stateVars, runVars, loopVars, historyVars
<1>0. streams \in Nat /\ trans = [g \in Stream |-> trans[g]] /\ sendLoop \in [Stream -> BOOLEAN]
  BY GrpcAssumption DEF TypeInv, RunType, LoopType
<1>1. CASE Dial
  BY <1>0, <1>1 DEF Dial, Stream
<1>2. \A g \in Stream : SendLoopEnds(g) => UNCHANGED <<streams, trans>> /\
        sendLoop' = [sendLoop EXCEPT ![g] = FALSE]
  BY DEF SendLoopEnds
<1>3. ASSUME NEW g \in Stream, \E h \in Stream : TakeRequest(h, g) PROVE StartedInv'
  BY <1>0, <1>3 DEF TakeRequest, Off
<1>4. ASSUME NEW g \in Stream, \E h \in Stream : TakeAck(h, g) PROVE StartedInv'
  BY <1>0, <1>4 DEF TakeAck, Off
<1>5. ASSUME NEW g \in Stream, Translate(g) PROVE StartedInv'
  <2>1. trans[g] = Select /\ UNCHANGED <<streams, sendLoop>>
    BY <1>5 DEF Translate
  <2>2. \E t : trans' = [trans EXCEPT ![g] = t]
    BY <1>5 DEF Translate, TranslateRDS, TranslateCDS, TranslateEDS, TranslateLDS, Translated,
                Refuse
  <2>3. ~(g > streams)
    BY <2>1 DEF Off, Select
  <2> QED
    BY <1>0, <2>1, <2>2, <2>3
<1>6. ASSUME NEW g \in Stream, TranslateLoopEnds(g) PROVE StartedInv'
  BY <1>0, <1>6 DEF TranslateLoopEnds
<1>7. ASSUME NEW g \in Stream, SendLoopEnds(g) PROVE StartedInv'
  BY <1>0, <1>2, <1>7
<1>8. ASSUME UNCHANGED <<streams, trans, sendLoop>> PROVE StartedInv'
  BY <1>8
<1>9. DialFails \/ CloseStop \/ RunStep \/ TakeBatch \/ PanicOnClosed \/ UNCHANGED vars
        => UNCHANGED <<streams, trans, sendLoop>>
  BY DEF DialFails, CloseStop, RunStep, RunStop, RunReset, TakeBatch, PanicOnClosed, vars
<1>10. \A h, g \in Stream :
         TakeFirst(h, g) \/ Send(g) \/ RecvResponse(g) \/ Break(g) \/ RecvError(g)
         => UNCHANGED <<streams, trans, sendLoop>>
  BY DEF TakeFirst, Send, RecvResponse, Break, RecvError
<1>11. \A r \in received : DropResponse(r) => UNCHANGED <<streams, trans, sendLoop>>
  BY DEF DropResponse
<1> QED
  BY <1>1, <1>3, <1>4, <1>5, <1>6, <1>7, <1>8, <1>9, <1>10, <1>11 DEF Next, TakeStep

LEMMA StartedAlways == Spec => []StartedInv
BY StartedInit, StartedStep, TypeAlways, PTL DEF Spec
-----------------------------------------------------------------------------
(* The batches follow the last state.                                      *)

\* At most one translate is between its request and its end, and the batch it holds
\* will bring the events sent so far up to the last state.
EmitInv ==
    "EDS" \notin refused /\ ~overlap =>
        /\ \A g, h \in Stream :
             trans[g].pc = "request" /\ trans[h].pc = "request" => g = h
        /\ Quiet => emitted = LastState
        /\ \A g \in Stream :
             trans[g].pc = "request" => ApplyEvents(emitted, trans[g].evs) = LastState

LEMMA EmitInit == Init => EmitInv
BY DEF Init, EmitInv, LastState, Name, Off

\* Steps that neither begin nor end a request keep it.
LEMMA EmitFrame ==
    ASSUME EmitInv, UNCHANGED <<upstreams, routes, emitted, refused, overlap>>,
           \A g \in Stream :
             \/ trans'[g] = trans[g]
             \/ trans[g].pc # "request" /\ trans'[g].pc # "request"
    PROVE  EmitInv'
<1>1. LastState' = LastState
  BY DEF LastState
<1>2. Quiet' <=> Quiet
  BY DEF Quiet
<1> QED
  BY <1>1, <1>2 DEF EmitInv

LEMMA EmitStep == TypeInv /\ StartedInv /\ EmitInv /\ [Next]_vars => EmitInv'
<1> SUFFICES ASSUME TypeInv, StartedInv, EmitInv, [Next]_vars PROVE EmitInv'
  OBVIOUS
<1> USE DEF stateVars, runVars, loopVars, historyVars
<1>0. /\ trans = [g \in Stream |-> trans[g]]
      /\ emitted \in [Name -> Thing]
      /\ streams \in Nat
  BY GrpcAssumption DEF TypeInv, LoopType, BatchType, RunType
<1>1. CASE Dial
  <2>1. streams + 1 \in Stream => trans[streams + 1] = Off
    BY <1>0 DEF StartedInv
  <2> QED
    BY <1>0, <1>1, <2>1, EmitFrame DEF Dial, Off, Select
<1>2. ASSUME NEW h \in Stream, NEW g \in Stream, TakeRequest(h, g) PROVE EmitInv'
  <2>1. /\ trans[g].pc = "request"
        /\ emitted' = ApplyEvents(emitted, trans[g].evs)
        /\ trans' = [trans EXCEPT ![g] = [pc |-> "ack", ack |-> trans[g].ack]]
        /\ UNCHANGED <<upstreams, routes, refused, overlap>>
    BY <1>2 DEF TakeRequest, Emit
  <2>2. SUFFICES ASSUME "EDS" \notin refused, ~overlap
                 PROVE  Quiet' /\ emitted' = LastState'
    BY <2>1 DEF EmitInv, Quiet
  <2>3. LastState' = LastState
    BY <2>1 DEF LastState
  <2>4. emitted' = LastState
    BY <2>1, <2>2 DEF EmitInv
  <2>5. \A k \in Stream : trans'[k].pc # "request"
    BY <1>0, <2>1, <2>2 DEF EmitInv
  <2> QED
    BY <2>3, <2>4, <2>5 DEF Quiet
<1>3. ASSUME NEW h \in Stream, NEW g \in Stream, TakeAck(h, g) PROVE EmitInv'
  BY <1>0, <1>3, EmitFrame DEF TakeAck, Select
<1>4. ASSUME NEW g \in Stream, TranslateLoopEnds(g) PROVE EmitInv'
  BY <1>0, <1>4, EmitFrame DEF TranslateLoopEnds, Select, Off
<1>5. ASSUME NEW g \in Stream, Translate(g) PROVE EmitInv'
  <2>1. SUFFICES ASSUME "EDS" \notin refused', ~overlap' PROVE EmitInv'
    BY DEF EmitInv
  <2>2. PICK r \in received :
          \/ TranslateRDS(g, r)
          \/ TranslateCDS(g, r)
          \/ TranslateEDS(g, r)
          \/ TranslateLDS(g, r)
    BY <1>5 DEF Translate
  <2>3. /\ refused \subseteq refused'
        /\ \/ \E evs, reqs :
                Follows(evs) /\ reqs \in SUBSET Request /\ Translated(g, r, reqs, evs)
           \/ Refuse(g, r) /\ (LastState' = LastState \/ "EDS" \in refused')
    BY <2>2, TranslateEffect
  <2>4. ~overlap /\ Quiet
    BY <1>5, <2>1 DEF Translate, Quiet
  <2>5. emitted = LastState
    BY <2>1, <2>3, <2>4 DEF EmitInv
  <2>6. CASE Refuse(g, r) /\ (LastState' = LastState \/ "EDS" \in refused')
    <3>1. /\ emitted' = emitted
          /\ trans' = [trans EXCEPT ![g] = [pc |-> "ack", ack |-> AckOf(r)]]
          /\ LastState' = LastState
      BY <2>1, <2>6 DEF Refuse
    <3>2. \A k \in Stream : trans'[k].pc # "request"
      BY <1>0, <2>4, <3>1 DEF Quiet
    <3> QED
      BY <2>5, <3>1, <3>2 DEF EmitInv
  <2>7. ASSUME NEW evs, NEW reqs, Follows(evs), Translated(g, r, reqs, evs) PROVE EmitInv'
    <3>1. ApplyEvents(emitted, evs) = LastState'
      BY <1>0, <2>5, <2>7 DEF Follows
    <3>2. CASE /\ emitted' = ApplyEvents(emitted, evs)
               /\ trans' = [trans EXCEPT ![g] = [pc |-> "ack", ack |-> AckOf(r)]]
      <4>1. \A k \in Stream : trans'[k].pc # "request"
        BY <1>0, <2>4, <3>2 DEF Quiet
      <4> QED
        BY <3>1, <3>2, <4>1 DEF EmitInv
    <3>3. ASSUME NEW req \in reqs, emitted' = emitted,
                 trans' = [trans EXCEPT ![g] =
                   [pc |-> "request", req |-> req, evs |-> evs, ack |-> AckOf(r)]]
          PROVE  EmitInv'
      <4>1. \A k \in Stream : trans'[k].pc = "request" => k = g
        BY <1>0, <2>4, <3>3 DEF Quiet
      <4>2. trans'[g].pc = "request" /\ trans'[g].evs = evs
        BY <1>0, <3>3
      <4> QED
        BY <3>1, <3>3, <4>1, <4>2 DEF EmitInv, Quiet
    <3> QED
      BY <2>7, <3>2, <3>3 DEF Translated, Emit
  <2> QED
    BY <2>3, <2>6, <2>7
<1>6. ASSUME UNCHANGED <<upstreams, routes, emitted, refused, overlap, trans>> PROVE EmitInv'
  BY <1>6, EmitFrame
<1>7. DialFails \/ CloseStop \/ RunStep \/ TakeBatch \/ PanicOnClosed \/ UNCHANGED vars
        => UNCHANGED <<upstreams, routes, emitted, refused, overlap, trans>>
  BY DEF DialFails, CloseStop, RunStep, RunStop, RunReset, TakeBatch, PanicOnClosed, vars
<1>8. \A h, g \in Stream :
        TakeFirst(h, g) \/ Send(g) \/ SendLoopEnds(g) \/ RecvResponse(g) \/ Break(g)
          \/ RecvError(g)
        => UNCHANGED <<upstreams, routes, emitted, refused, overlap, trans>>
  BY DEF TakeFirst, Send, SendLoopEnds, RecvResponse, Break, RecvError
<1>9. \A r \in received : DropResponse(r) =>
        UNCHANGED <<upstreams, routes, emitted, refused, overlap, trans>>
  BY DEF DropResponse
<1> QED
  BY <1>1, <1>2, <1>3, <1>4, <1>5, <1>6, <1>7, <1>8, <1>9 DEF Next, TakeStep

\* The last state of the provisioner is what its events say (translate in types.go and
\* delivery.go, with the difference of manifest.go): for any clusters and route
\* configurations and any mix of responses over any number of streams, the batches in the
\* order they were made give upstreams and routes, unless an EDS response was refused
\* half-way or two translateLoops overlapped.
THEOREM EmittedIsState == Spec => []EmittedMatchesState
<1>1. TypeInv /\ EmitInv => EmittedMatchesState
  BY GrpcAssumption DEF EmitInv, EmittedMatchesState, LastState, Name
<1> QED
  BY <1>1, EmitInit, EmitStep, TypeAlways, StartedAlways, PTL DEF Spec
-----------------------------------------------------------------------------
(* The request for the endpoints.                                          *)

\* translate of the first stream holds the request for the endpoints that are needed.
EdsHeld ==
    /\ trans[1].pc = "request"
    /\ trans[1].req.type = "EDS"
    /\ trans[1].req.names = edsRequired

\* While the first stream lives, the request for the endpoints that are needed is with
\* translate, with sendLoop or sent.
EdsInv ==
    /\ streams = 0 => edsRequired = {}
    /\ streams = 1 /\ "CDS" \notin refused /\ ~ctxDone[1] /\ broken[1] = "no" =>
         EdsAsked(1) \/ EdsHeld

LEMMA EdsInit == Init => EdsInv
BY DEF Init, EdsInv

\* What has been asked for stays so as long as nothing else is needed.
LEMMA EdsFrame ==
    ASSUME EdsInv, UNCHANGED <<streams, edsRequired, refused, ctxDone, broken>>,
           EdsHeld /\ streams = 1 => EdsHeld' \/ EdsAsked(1)',
           streams = 1 /\ ~ctxDone[1] /\ broken[1] = "no" =>
             sent[1] \cup sending[1] \subseteq sent'[1] \cup sending'[1]
    PROVE  EdsInv'
<1>1. ASSUME EdsAsked(1), streams = 1, ~ctxDone[1], broken[1] = "no" PROVE EdsAsked(1)'
  BY <1>1 DEF EdsAsked
<1> QED
  BY <1>1 DEF EdsInv

LEMMA EdsStep == TypeInv /\ StartedInv /\ EdsInv /\ [Next]_vars => EdsInv'
<1> SUFFICES ASSUME TypeInv, StartedInv, EdsInv, [Next]_vars PROVE EdsInv'
  OBVIOUS
<1> USE DEF stateVars, runVars, loopVars, historyVars
<1>0. /\ streams \in 0..MaxStreams /\ streams \in Nat
      /\ trans = [g \in Stream |-> trans[g]]
      /\ sending \in [Stream -> SUBSET Request] /\ sent \in [Stream -> SUBSET Request]
      /\ ctxDone \in [Stream -> BOOLEAN]
      /\ broken \in [Stream -> {"no", "closing", "other"}]
      /\ streams = 1 => 1 \in Stream
      /\ \A g \in Stream : g \in Nat /\ g >= 1
  BY GrpcAssumption DEF TypeInv, RunType, LoopType, Stream
\* A goroutine that runs is of a stream that was opened.
<1>1. \A g \in Stream : trans[g] # Off \/ sendLoop[g] => streams >= 1 /\ (streams = 1 => g = 1)
  BY <1>0 DEF StartedInv
<1>2. CASE Dial
  <2>1. streams' = streams + 1 /\ UNCHANGED edsRequired
    BY <1>2 DEF Dial
  <2>2. streams' = 1 => edsRequired' = {}
    BY <1>0, <2>1 DEF EdsInv
  <2> QED
    BY <1>0, <2>1, <2>2 DEF EdsInv, EdsAsked
<1>3. CASE RunStep
  <2>1. /\ UNCHANGED <<streams, edsRequired>>
        /\ ctxDone' = [ctxDone EXCEPT ![streams] = TRUE]
    BY <1>3 DEF RunStep, RunStop, RunReset, Cleanup
  <2>2. streams = 1 => ctxDone'[1]
    BY <1>0, <2>1
  <2> QED
    BY <2>1, <2>2 DEF EdsInv
<1>4. ASSUME NEW h \in Stream, NEW req \in Request, Take(h, req), UNCHANGED sent,
             UNCHANGED <<broken, ctxDone>>
      PROVE  streams = 1 /\ ~ctxDone[1] /\ broken[1] = "no" =>
               /\ sent[1] \cup sending[1] \subseteq sent'[1] \cup sending'[1]
               /\ req \in sending'[1]
  <2> SUFFICES ASSUME streams = 1, ~ctxDone[1], broken[1] = "no"
               PROVE  /\ sent[1] \cup sending[1] \subseteq sent'[1] \cup sending'[1]
                      /\ req \in sending'[1]
    OBVIOUS
  <2>1. h = 1
    BY <1>1, <1>4 DEF Take
  <2>2. sending' = [sending EXCEPT ![1] = @ \cup {req}]
    BY <1>4, <2>1 DEF Take, Alive
  <2> QED
    BY <1>0, <1>4, <2>2
<1>5. ASSUME NEW h \in Stream, NEW g \in Stream, TakeFirst(h, g) PROVE EdsInv'
  <2>1. /\ Take(h, Head(first[g]))
        /\ UNCHANGED <<sent, trans, streams, edsRequired, refused, ctxDone, broken>>
        /\ Head(first[g]) \in Request
    BY <1>5 DEF TakeFirst, TypeInv, LoopType
  <2> QED
    BY <1>4, <2>1, EdsFrame DEF EdsHeld
<1>6. ASSUME NEW h \in Stream, NEW g \in Stream, TakeAck(h, g) PROVE EdsInv'
  <2>1. /\ trans[g].pc = "ack"
        /\ Take(h, trans[g].ack)
        /\ trans' = [trans EXCEPT ![g] = Select]
        /\ UNCHANGED <<sent, streams, edsRequired, refused, ctxDone, broken>>
    BY <1>6 DEF TakeAck
  <2>2. trans[g].ack \in Request
    <3>1. TransOK(trans[g], responses)
      BY DEF TypeInv, LoopType
    <3> QED
      BY <2>1, <3>1 DEF TransOK, AckOK, Off, Select
  <2>3. EdsHeld /\ streams = 1 => EdsHeld'
    BY <1>0, <2>1 DEF EdsHeld
  <2> QED
    BY <1>4, <2>1, <2>2, <2>3, EdsFrame
<1>7. ASSUME NEW h \in Stream, NEW g \in Stream, TakeRequest(h, g) PROVE EdsInv'
  <2>1. /\ trans[g].pc = "request"
        /\ Take(h, trans[g].req)
        /\ trans' = [trans EXCEPT ![g] = [pc |-> "ack", ack |-> trans[g].ack]]
        /\ UNCHANGED <<sent, streams, edsRequired, refused, ctxDone, broken>>
    BY <1>7 DEF TakeRequest
  <2>2. trans[g].req \in Request
    <3>1. TransOK(trans[g], responses)
      BY DEF TypeInv, LoopType
    <3> QED
      BY <2>1, <3>1 DEF TransOK, AckOK, Off, Select
  <2>3. SUFFICES ASSUME streams = 1, "CDS" \notin refused, ~ctxDone[1], broken[1] = "no"
                 PROVE  EdsAsked(1)'
    BY <2>1 DEF EdsInv
  <2>4. g = 1
    BY <1>1, <2>1, <2>3 DEF Off
  <2>5. /\ sent[1] \cup sending[1] \subseteq sent'[1] \cup sending'[1]
        /\ trans[1].req \in sending'[1]
    BY <1>4, <2>1, <2>2, <2>3, <2>4
  <2>6. EdsAsked(1) \/ EdsHeld
    BY <2>3 DEF EdsInv
  <2> QED
    BY <2>1, <2>5, <2>6 DEF EdsAsked, EdsHeld
<1>8. ASSUME NEW h \in Stream, Send(h) PROVE EdsInv'
  <2>1. PICK req \in sending[h] :
          /\ sending' = [sending EXCEPT ![h] = @ \ {req}]
          /\ sent' = [sent EXCEPT ![h] = @ \cup {req}]
    BY <1>8 DEF Send
  <2>2. UNCHANGED <<trans, streams, edsRequired, refused, ctxDone, broken>>
    BY <1>8 DEF Send
  <2>3. streams = 1 => sent[1] \cup sending[1] \subseteq sent'[1] \cup sending'[1]
    BY <1>0, <2>1
  <2> QED
    BY <2>2, <2>3, EdsFrame DEF EdsHeld
<1>9. ASSUME NEW h \in Stream, Break(h) PROVE EdsInv'
  <2>1. PICK why \in Failures : broken' = [broken EXCEPT ![h] = why]
    BY <1>9 DEF Break
  <2>2. /\ h <= streams /\ UNCHANGED <<trans, streams, edsRequired, refused, ctxDone, sent>>
        /\ broken[h] = "no"
    BY <1>9 DEF Break
  <2>3. why # "no"
    BY GrpcAssumption
  <2>4. streams = 1 => broken'[1] # "no"
    BY <1>0, <2>1, <2>2, <2>3
  <2> QED
    BY <2>2, <2>4 DEF EdsInv
<1>10. ASSUME NEW g \in Stream, Translate(g) PROVE EdsInv'
  <2>1. /\ trans[g] = Select
        /\ UNCHANGED <<streams, ctxDone, broken, sent, sending>>
    BY <1>10 DEF Translate
  <2>2. PICK r \in received :
          \/ TranslateRDS(g, r)
          \/ TranslateCDS(g, r)
          \/ TranslateEDS(g, r)
          \/ TranslateLDS(g, r)
    BY <1>10 DEF Translate
  <2>3. streams >= 1 /\ (streams = 1 => g = 1)
    BY <1>1, <2>1 DEF Off, Select
  <2>4. SUFFICES ASSUME streams = 1, "CDS" \notin refused', ~ctxDone[1], broken[1] = "no"
                 PROVE  EdsAsked(1)' \/ EdsHeld'
    BY <1>0, <2>1, <2>3 DEF EdsInv
  <2>5. refused \subseteq refused'
    BY <2>2, TranslateEffect
  <2>6. EdsAsked(1)
    BY <2>1, <2>3, <2>4, <2>5 DEF EdsInv, EdsHeld, Select
  <2>7. CASE edsRequired' = edsRequired
    BY <2>1, <2>6, <2>7 DEF EdsAsked
  <2>8. CASE edsRequired' # edsRequired
    <3>1. TranslateCDS(g, r)
      BY <2>2, <2>8 DEF TranslateRDS, TranslateEDS, TranslateLDS
    <3>2. CASE r.bad
      BY <2>4, <3>1, <3>2 DEF TranslateCDS
    <3>3. CASE ~r.bad
      <4> DEFINE eds == EdsClusters(r.says)
      <4>1. PICK evs : edsRequired' = eds /\ Translated(g, r, SendEds(eds), evs)
        BY <3>1, <3>3 DEF TranslateCDS
      <4> HIDE DEF eds
      <4>2. CASE eds = {}
        BY <4>1, <4>2 DEF EdsAsked
      <4>3. CASE eds # {}
        <5>1. SendEds(eds) = {[type |-> "EDS", names |-> eds, ack |-> NoAck]}
          BY <2>8, <4>1, <4>3 DEF SendEds
        <5>2. trans' = [trans EXCEPT ![g] =
                [pc |-> "request", req |-> [type |-> "EDS", names |-> eds, ack |-> NoAck],
                 evs |-> evs, ack |-> AckOf(r)]]
          BY <4>1, <5>1 DEF Translated
        <5>3. /\ trans'[1].pc = "request"
              /\ trans'[1].req = [type |-> "EDS", names |-> eds, ack |-> NoAck]
          BY <1>0, <2>3, <2>4, <5>2
        <5> QED
          BY <4>1, <5>3 DEF EdsHeld
      <4> QED
        BY <4>2, <4>3
    <3> QED
      BY <3>2, <3>3
  <2> QED
    BY <2>7, <2>8
<1>11. ASSUME NEW g \in Stream, TranslateLoopEnds(g) PROVE EdsInv'
  <2>1. /\ trans[g] = Select /\ trans' = [trans EXCEPT ![g] = Off]
        /\ UNCHANGED <<streams, edsRequired, refused, ctxDone, broken, sent, sending>>
    BY <1>11 DEF TranslateLoopEnds
  <2>2. EdsHeld /\ streams = 1 => EdsHeld'
    BY <1>0, <2>1 DEF EdsHeld, Select
  <2> QED
    BY <2>1, <2>2, EdsFrame
<1>12. ASSUME UNCHANGED <<streams, edsRequired, refused, ctxDone, broken, sent, sending, trans>>
       PROVE  EdsInv'
  BY <1>12, EdsFrame DEF EdsHeld
<1>13. DialFails \/ CloseStop \/ TakeBatch \/ PanicOnClosed \/ UNCHANGED vars
         => UNCHANGED <<streams, edsRequired, refused, ctxDone, broken, sent, sending, trans>>
  BY DEF DialFails, CloseStop, TakeBatch, PanicOnClosed, vars
<1>14. \A g \in Stream :
         SendLoopEnds(g) \/ RecvResponse(g) \/ RecvError(g)
         => UNCHANGED <<streams, edsRequired, refused, ctxDone, broken, sent, sending, trans>>
  BY DEF SendLoopEnds, RecvResponse, RecvError
<1>15. \A r \in received : DropResponse(r) =>
         UNCHANGED <<streams, edsRequired, refused, ctxDone, broken, sent, sending, trans>>
  BY DEF DropResponse
<1> QED
  BY <1>2, <1>3, <1>5, <1>6, <1>7, <1>8, <1>9, <1>10, <1>11, <1>12, <1>13, <1>14, <1>15
     DEF Next, TakeStep

\* As long as the first stream lives and no CDS response was refused, the endpoints of
\* exactly the clusters that need EDS are asked for (sendEds in delivery.go): in any order
\* of responses, and for any number of clusters.
THEOREM EdsIsRequested == Spec => []EdsRequested
<1>1. EdsInv /\ TypeInv => EdsRequested
  <2> SUFFICES ASSUME EdsInv, TypeInv, streams = 1, Quiet, "CDS" \notin refused,
                      ~ctxDone[1], broken[1] = "no"
               PROVE  EdsAsked(1)
    BY DEF EdsRequested
  <2>1. 1 \in Stream
    BY GrpcAssumption DEF TypeInv, RunType, Stream
  <2> QED
    BY <2>1 DEF EdsInv, EdsHeld, Quiet
<1> QED
  BY <1>1, EdsInit, EdsStep, TypeAlways, StartedAlways, PTL DEF Spec
=============================================================================
