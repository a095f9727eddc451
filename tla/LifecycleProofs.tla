-------------------------- MODULE LifecycleProofs --------------------------
(***************************************************************************)
(* Proofs about module Lifecycle, for every set of configurations and of   *)
(* clients and every bound on dials and batches.                           *)
(***************************************************************************)
EXTENDS Lifecycle, TLAPS

-----------------------------------------------------------------------------
(***************************************************************************)
(* The inductive invariant, relative to TypeOK: what the main goroutine    *)
(* may conclude about the others from how far it is itself.                *)
(***************************************************************************)

\* waitGroup counts the goroutine of Serve, from Start until Serve returns, and that
\* of the APISIX command.
Counted ==
    wg = (IF main = "command" \/ serve = "returned" THEN 0 ELSE 1)
         + (IF runner \in {"start", "running"} THEN 1 ELSE 0)

\* stop is closed by waitForSignal, and evChan not without a stop or a failure; Run
\* goes past its loop when evChan is closed.
StopInv ==
    /\ stop => waiter = "done"
    /\ EvChanClosed => stop \/ failed
    /\ main \in {"apisix", "etcd", "drain", "http", "wait"} => EvChanClosed

\* Serve begins after Start.  Once GracefulStop was called, a server that serves has
\* no listener; once it has returned, no gRPC client is left.
ServeInv ==
    /\ main = "command" => serve = "new"
    /\ main \in {"drain", "http", "wait"} /\ serve = "serving" => ~listening
    /\ main \in {"http", "wait"} => \A c \in Clients : conns[c] # "grpc"
    /\ main = "wait" => serve \in {"serving", "returned"}

\* The goroutine of the command and the process it runs agree.
RunnerInv ==
    /\ runner \in {"off", "start"} => apisix = "none"
    /\ runner = "running" => apisix # "none"
    /\ runner = "done" => apisix \in {"none", "reaped"} /\ ~workers
    /\ apisix = "none" => ~workers
    /\ errCh => runner = "done"

\* The main goroutine has launched APISIX exactly in bundle mode and before its loop,
\* and has signalled it exactly after apisixRunner.shutdown.
BundleInv ==
    /\ main \in {"launch", "select"} => Bundle
    /\ main \in {"command", "sleep", "launch"} \/ ~Bundle => runner = "off"
    /\ Bundle /\ main \notin {"command", "sleep", "launch"} => runner # "off"
    /\ Bundle /\ main \notin {"command", "sleep", "launch", "select"} => apisix # "none"
    /\ sigint <=> Bundle /\ main \in {"etcd", "drain", "http", "wait"}

LifecycleInv ==
    Counted /\ StopInv /\ ServeInv /\ RunnerInv /\ BundleInv
    /\ CleanEnd /\ ApisixClosed
-----------------------------------------------------------------------------
(***************************************************************************)
(* A step that ends the process changes nothing else.                      *)
(***************************************************************************)

\* The process ends: what remains to be shown is what CleanEnd and ApisixClosed say
\* of the end.
LEMMA ExitInv ==
    ASSUME TypeOK, LifecycleInv, end = "up",
           NEW how \in {"ok", "refused", "launch", "fatal", "panic", "killed"},
           Exit(how),
           how = "ok" => main = "wait" /\ wg = 0,
           stop /\ apisix = "running" /\ ~sigint =>
               \/ how = "panic" /\ EvChanClosed /\ held > 0
               \/ how = "fatal" /\ (failed \/ listening)
    PROVE  TypeOK' /\ LifecycleInv'
<1>1. /\ end' = how
      /\ UNCHANGED <<cfg, main, waiter, stop, prov, failed, dials, held, batches, serve,
                     listening, gateway, conns, runner, errCh, apisix, workers, sigint, wg>>
  BY DEF Exit, provVars, etcdVars, apisixVars
<1>2. TypeOK'
  BY <1>1 DEF TypeOK
<1>3. Counted' /\ StopInv' /\ ServeInv' /\ RunnerInv' /\ BundleInv'
  BY <1>1 DEF LifecycleInv, Counted, StopInv, ServeInv, RunnerInv, BundleInv,
              EvChanClosed, Bundle
<1>4. CleanEnd'
  <2> SUFFICES ASSUME how = "ok"
               PROVE  /\ stop \/ failed
                      /\ serve = "returned" /\ \A c \in Clients : conns[c] # "grpc"
                      /\ Bundle => sigint /\ apisix = "reaped" /\ ~workers
    BY <1>1 DEF CleanEnd, Bundle
  <2>1. stop \/ failed
    BY DEF LifecycleInv, StopInv
  <2>2. serve = "returned" /\ runner \notin {"start", "running"}
    BY DEF LifecycleInv, Counted
  <2>3. \A c \in Clients : conns[c] # "grpc"
    BY DEF LifecycleInv, ServeInv
  <2>4. Bundle => runner = "done" /\ sigint /\ apisix # "none"
    BY <2>2 DEF LifecycleInv, BundleInv, TypeOK
  <2> QED
    BY <2>1, <2>2, <2>3, <2>4 DEF LifecycleInv, RunnerInv
<1>5. ApisixClosed'
  BY <1>1 DEF ApisixClosed, EvChanClosed
<1> QED
  BY <1>2, <1>3, <1>4, <1>5 DEF LifecycleInv

\* As long as the process runs, CleanEnd and ApisixClosed say nothing.
LEMMA UpInv ==
    ASSUME end' = "up", Counted', StopInv', ServeInv', RunnerInv', BundleInv'
    PROVE  LifecycleInv'
BY DEF LifecycleInv, CleanEnd, ApisixClosed
-----------------------------------------------------------------------------
(***************************************************************************)
(* The invariant is preserved, process by process.                         *)
(***************************************************************************)

\* The main goroutine.
LEMMA MainStepInv ==
    ASSUME TypeOK, LifecycleInv, end = "up", MainStep
    PROVE  TypeOK' /\ LifecycleInv'
<1> USE DEF notMain, provVars, etcdVars, apisixVars
<1>0. Counted /\ StopInv /\ ServeInv /\ RunnerInv /\ BundleInv
  BY DEF LifecycleInv
<1>1. CASE Refuse
  BY <1>0, <1>1, ExitInv DEF Refuse, BundleInv, RunnerInv
<1>2. CASE Start
  <2>1. TypeOK'
    BY <1>0, <1>2 DEF Start, TypeOK, Counted, ServeInv, BundleInv
  <2>2. Counted' /\ StopInv' /\ ServeInv' /\ RunnerInv' /\ BundleInv' /\ end' = "up"
    BY <1>0, <1>2 DEF Start, Counted, StopInv, ServeInv, RunnerInv, BundleInv,
                      EvChanClosed, Bundle
  <2> QED
    BY <2>1, <2>2, UpInv
<1>3. CASE SleepOver
  <2>1. TypeOK' /\ end' = "up"
    BY <1>3 DEF SleepOver, TypeOK
  <2>2. Counted' /\ StopInv' /\ ServeInv' /\ RunnerInv' /\ BundleInv'
    BY <1>0, <1>3 DEF SleepOver, Counted, StopInv, ServeInv, RunnerInv, BundleInv,
                      EvChanClosed, Bundle
  <2> QED
    BY <2>1, <2>2, UpInv
<1>4. CASE Launch
  <2>1. CASE Exit("launch")
    BY <1>0, <1>4, <2>1, ExitInv DEF Launch, BundleInv, RunnerInv
  <2>2. CASE ~Exit("launch")
    <3>1. /\ main' = "select" /\ runner' = "start" /\ wg' = wg + 1 /\ end' = "up"
          /\ UNCHANGED <<cfg, waiter, stop, provVars, etcdVars, errCh, apisix, workers,
                         sigint>>
      BY <1>4, <2>2 DEF Launch
    <3>2. main = "launch" /\ runner = "off"
      BY <1>0, <1>4 DEF Launch, BundleInv
    <3>3. Bundle
      BY <1>0, <3>2 DEF BundleInv
    <3>4. TypeOK'
      BY <1>0, <3>1, <3>2 DEF TypeOK, Counted
    <3>5. Counted' /\ StopInv' /\ ServeInv' /\ RunnerInv' /\ BundleInv'
      BY <1>0, <3>1, <3>2, <3>3 DEF Counted, StopInv, ServeInv, RunnerInv, BundleInv,
                                    EvChanClosed, Bundle
    <3> QED
      BY <3>1, <3>4, <3>5, UpInv
  <2> QED
    BY <2>1, <2>2
<1>5. CASE LaunchSelect
  <2>1. CASE errCh /\ Exit("launch")
    BY <1>0, <2>1, ExitInv DEF RunnerInv
  <2>2. CASE apisix = "none" /\ Exit("panic")
    BY <2>2, ExitInv
  <2>3. CASE apisix # "none" /\ main' = "loop" /\ UNCHANGED notMain
    <3>1. TypeOK' /\ end' = "up"
      BY <2>3 DEF TypeOK
    <3>2. Counted' /\ StopInv' /\ ServeInv' /\ RunnerInv' /\ BundleInv'
      BY <1>0, <1>5, <2>3 DEF LaunchSelect, Counted, StopInv, ServeInv, RunnerInv,
                              BundleInv, EvChanClosed, Bundle
    <3> QED
      BY <3>1, <3>2, UpInv
  <2> QED
    BY <1>5, <2>1, <2>2, <2>3 DEF LaunchSelect
<1>6. CASE Loop
  <2>1. TypeOK' /\ end' = "up"
    BY <1>6 DEF Loop, TypeOK
  <2>2. Counted' /\ StopInv' /\ ServeInv' /\ RunnerInv' /\ BundleInv'
    BY <1>0, <1>6 DEF Loop, Counted, StopInv, ServeInv, RunnerInv, BundleInv,
                      EvChanClosed, Bundle
  <2> QED
    BY <2>1, <2>2, UpInv
<1>7. CASE SignalApisix
  <2>1. CASE Bundle /\ apisix = "reaped" /\ Exit("fatal")
    BY <2>1, ExitInv
  <2>2. CASE ~(Bundle /\ apisix = "reaped")
    <3>1. TypeOK' /\ end' = "up"
      BY <1>7, <2>2 DEF SignalApisix, TypeOK, Bundle
    <3>2. Counted' /\ StopInv' /\ ServeInv' /\ RunnerInv'
      BY <1>0, <1>7, <2>2 DEF SignalApisix, Counted, StopInv, ServeInv, RunnerInv,
                              EvChanClosed
    <3>3. BundleInv'
      BY <1>0, <1>7, <2>2 DEF SignalApisix, BundleInv, Bundle
    <3> QED
      BY <3>1, <3>2, <3>3, UpInv
  <2> QED
    BY <1>7, <2>1, <2>2 DEF SignalApisix
<1>8. CASE GracefulStop
  <2>1. CASE serve = "new"
    <3>1. Exit("panic") /\ main = "etcd"
      BY <1>8, <2>1 DEF GracefulStop
    <3> QED
      BY <1>0, <3>1, ExitInv DEF BundleInv, RunnerInv
  <2>2. CASE serve # "new"
    <3>1. TypeOK' /\ end' = "up"
      BY <1>8, <2>2 DEF GracefulStop, TypeOK
    <3>2. ServeInv'
      BY <1>0, <1>8, <2>2 DEF GracefulStop, ServeInv
    <3>3. Counted' /\ StopInv' /\ RunnerInv' /\ BundleInv'
      BY <1>0, <1>8, <2>2 DEF GracefulStop, Counted, StopInv, RunnerInv, BundleInv,
                              EvChanClosed, Bundle
    <3> QED
      BY <3>1, <3>2, <3>3, UpInv
  <2> QED
    BY <2>1, <2>2
<1>9. CASE Drained
  <2>1. TypeOK' /\ end' = "up"
    BY <1>9 DEF Drained, TypeOK
  <2>2. Counted' /\ StopInv' /\ ServeInv' /\ RunnerInv' /\ BundleInv'
    BY <1>0, <1>9 DEF Drained, Counted, StopInv, ServeInv, RunnerInv, BundleInv,
                      EvChanClosed, Bundle
  <2> QED
    BY <2>1, <2>2, UpInv
<1>10. CASE HttpShutdown
  <2>1. CASE serve \in {"new", "grpc"}
    <3>1. Exit("panic") /\ main = "http"
      BY <1>10, <2>1 DEF HttpShutdown
    <3> QED
      BY <1>0, <3>1, ExitInv DEF BundleInv, RunnerInv
  <2>2. CASE serve \notin {"new", "grpc"}
    <3>1. TypeOK' /\ end' = "up"
      BY <1>10, <2>2 DEF HttpShutdown, TypeOK
    <3>2. Counted' /\ StopInv' /\ ServeInv' /\ RunnerInv' /\ BundleInv'
      BY <1>0, <1>10, <2>2 DEF HttpShutdown, TypeOK, Counted, StopInv, ServeInv,
                               RunnerInv, BundleInv, EvChanClosed, Bundle
    <3> QED
      BY <3>1, <3>2, UpInv
  <2> QED
    BY <2>1, <2>2
<1>11. CASE Wait
  <2>1. Exit("ok") /\ main = "wait" /\ wg = 0
    BY <1>11 DEF Wait
  <2> QED
    BY <1>0, <2>1, ExitInv DEF BundleInv, RunnerInv
<1> QED
  BY <1>1, <1>2, <1>3, <1>4, <1>5, <1>6, <1>7, <1>8, <1>9, <1>10, <1>11 DEF MainStep

\* waitForSignal and the signals.
LEMMA SignalStepInv ==
    ASSUME TypeOK, LifecycleInv, end = "up", SignalStep \/ Signal
    PROVE  TypeOK' /\ LifecycleInv'
<1> USE DEF provVars, etcdVars, apisixVars
<1>0. Counted /\ StopInv /\ ServeInv /\ RunnerInv /\ BundleInv
  BY DEF LifecycleInv
<1>1. CASE waiter = "new" /\ Exit("killed")
  BY <1>0, <1>1, ExitInv DEF StopInv
<1>2. CASE ~(waiter = "new" /\ Exit("killed"))
  <2>1. /\ waiter' \in {"wait", "got", "done"} /\ end' = "up"
        /\ \/ waiter' = "done" /\ stop' = TRUE
           \/ waiter # "done" /\ UNCHANGED stop
        /\ UNCHANGED <<cfg, main, provVars, etcdVars, apisixVars, wg>>
    BY <1>2 DEF SignalStep, Signal, Notify, CloseStop
  <2>2. TypeOK'
    <3>1. stop' \in BOOLEAN
      BY <2>1 DEF TypeOK
    <3>2. waiter' \in {"new", "wait", "got", "done"}
      BY <2>1 DEF TypeOK
    <3>3. UNCHANGED <<cfg, main, provVars, etcdVars, apisixVars, wg>> /\ end' = "up"
      BY <2>1
    <3> QED
      BY <3>1, <3>2, <3>3 DEF TypeOK
  <2>3. Counted' /\ StopInv' /\ ServeInv' /\ RunnerInv' /\ BundleInv'
    BY <1>0, <2>1 DEF Counted, StopInv, ServeInv, RunnerInv, BundleInv, EvChanClosed,
                      Bundle, TypeOK
  <2> QED
    BY <2>1, <2>2, <2>3, UpInv
<1> QED
  BY <1>1, <1>2

\* The provisioner and the goroutines that hold its batches.
LEMMA ProvisionerInv ==
    ASSUME TypeOK, LifecycleInv, end = "up",
           ProvisionerStep \/ Begin \/ BeginFails \/ Reset \/ MakeBatch \/ PanicOnClosed
    PROVE  TypeOK' /\ LifecycleInv'
<1> USE DEF provVars, etcdVars, apisixVars, notProv
<1>0. Counted /\ StopInv /\ ServeInv /\ RunnerInv /\ BundleInv
  BY DEF LifecycleInv
<1>1. CASE PanicOnClosed
  BY <1>1, ExitInv DEF PanicOnClosed
<1>2. CASE ProvisionerOver /\ failed
  BY <1>2, ExitInv DEF ProvisionerOver
<1>3. CASE Begin \/ BeginFails \/ Reset \/ ProvisionerStops \/ (ProvisionerOver /\ ~failed)
  <2>1. TypeOK' /\ end' = "up"
    <3>1. UNCHANGED <<notProv, held, batches>>
      BY <1>3 DEF Begin, BeginFails, Reset, ProvisionerStops, ProvisionerOver
    <3>2. prov' \in {"new", "begin", "select", "returned", "over"} /\ failed' \in BOOLEAN
      BY <1>3 DEF Begin, BeginFails, Reset, ProvisionerStops, ProvisionerOver, TypeOK
    <3>3. dials' \in 0..MaxDials
      BY <1>3, LifecycleAssumption
         DEF Begin, BeginFails, Reset, ProvisionerStops, ProvisionerOver, TypeOK
    <3> QED
      BY <3>1, <3>2, <3>3 DEF TypeOK
  <2>2. StopInv'
    BY <1>0, <1>3 DEF Begin, BeginFails, Reset, ProvisionerStops, ProvisionerOver,
                      StopInv, EvChanClosed
  <2>3. Counted' /\ ServeInv' /\ RunnerInv' /\ BundleInv'
    BY <1>0, <1>3 DEF Begin, BeginFails, Reset, ProvisionerStops, ProvisionerOver,
                      Counted, ServeInv, RunnerInv, BundleInv, Bundle
  <2> QED
    BY <2>1, <2>2, <2>3, UpInv
<1>4. CASE MakeBatch
  <2>1. TypeOK' /\ end' = "up"
    BY <1>4, LifecycleAssumption DEF MakeBatch, TypeOK
  <2>2. Counted' /\ StopInv' /\ ServeInv' /\ RunnerInv' /\ BundleInv'
    BY <1>0, <1>4 DEF MakeBatch, Counted, StopInv, ServeInv, RunnerInv, BundleInv,
                      EvChanClosed, Bundle
  <2> QED
    BY <2>1, <2>2, UpInv
<1> QED
  BY <1>1, <1>2, <1>3, <1>4 DEF ProvisionerStep

\* The etcd server, its gateway and its clients.
LEMMA EtcdInv ==
    ASSUME TypeOK, LifecycleInv, end = "up",
           \/ ServeStep \/ ServeFails \/ CloseGateway
           \/ \E c \in Clients : Connect(c) \/ Disconnect(c) \/ HandlerEnds(c)
    PROVE  TypeOK' /\ LifecycleInv'
<1> USE DEF provVars, etcdVars, apisixVars, notEtcd
<1>0. Counted /\ StopInv /\ ServeInv /\ RunnerInv /\ BundleInv
  BY DEF LifecycleInv
<1>1. CASE ServeFails
  BY <1>1, ExitInv DEF ServeFails
<1>2. CASE ServeStep \/ CloseGateway
  <2> USE DEF ServeStep, ServeGrpc, ServeAll, ServeReturns, CloseGateway
  <2>1. TypeOK' /\ end' = "up"
    <3>1. /\ serve' \in {"new", "grpc", "serving", "returned"}
          /\ UNCHANGED <<notEtcd, conns>>
      BY <1>2
    <3>2. listening' \in BOOLEAN /\ gateway' \in BOOLEAN
      BY <1>2 DEF TypeOK
    <3>3. wg' \in 0..2
      BY <1>0, <1>2 DEF TypeOK, Counted, ServeInv
    <3> QED
      BY <3>1, <3>2, <3>3 DEF TypeOK
  <2>2. Counted'
    BY <1>0, <1>2 DEF Counted, ServeInv
  <2>3. ServeInv'
    BY <1>0, <1>2 DEF ServeInv
  <2>4. StopInv' /\ RunnerInv' /\ BundleInv'
    BY <1>0, <1>2 DEF StopInv, RunnerInv, BundleInv, EvChanClosed, Bundle
  <2> QED
    BY <2>1, <2>2, <2>3, <2>4, UpInv
<1>3. CASE \E c \in Clients : Connect(c) \/ Disconnect(c) \/ HandlerEnds(c)
  <2>1. PICK c \in Clients : Connect(c) \/ Disconnect(c) \/ HandlerEnds(c)
    BY <1>3
  <2>2. /\ end' = "up" /\ UNCHANGED <<notEtcd, serve, listening, gateway, wg>>
        /\ \E how \in {"none", "grpc", "http"} :
              /\ conns' = [conns EXCEPT ![c] = how]
              /\ how = "grpc" => serve = "serving" /\ listening
    BY <2>1 DEF Connect, Disconnect, HandlerEnds
  <2>3. TypeOK'
    BY <2>2 DEF TypeOK
  <2>4. ServeInv'
    BY <1>0, <2>2 DEF ServeInv, TypeOK
  <2>5. Counted' /\ StopInv' /\ RunnerInv' /\ BundleInv'
    BY <1>0, <2>2 DEF Counted, StopInv, RunnerInv, BundleInv, EvChanClosed, Bundle
  <2> QED
    BY <2>2, <2>3, <2>4, <2>5, UpInv
<1> QED
  BY <1>1, <1>2, <1>3

\* The goroutine of the APISIX command and the processes of APISIX.
LEMMA ApisixInv ==
    ASSUME TypeOK, LifecycleInv, end = "up", RunnerStep \/ ApisixExits \/ WorkersExit
    PROVE  TypeOK' /\ LifecycleInv'
<1> USE DEF provVars, etcdVars, apisixVars, notApisix, RunnerStep, RunnerStarts,
            ApisixExits, WorkersExit, Reap, RunnerEnds
<1>0. Counted /\ StopInv /\ ServeInv /\ RunnerInv /\ BundleInv
  BY DEF LifecycleInv
<1>1. /\ end' = "up"
      /\ UNCHANGED <<cfg, main, waiter, stop, provVars, etcdVars, sigint>>
  OBVIOUS
<1>2. TypeOK'
  <2>1. /\ runner' \in {"off", "start", "running", "done"}
        /\ apisix' \in {"none", "running", "exited", "reaped"}
    BY DEF TypeOK
  <2>2. errCh' \in BOOLEAN /\ workers' \in BOOLEAN
    BY DEF TypeOK
  <2>3. wg' \in 0..2
    BY <1>0 DEF TypeOK, Counted
  <2> QED
    BY <1>1, <2>1, <2>2, <2>3 DEF TypeOK
<1>3. Counted'
  BY <1>0, <1>1 DEF Counted
<1>4. RunnerInv'
  BY <1>0 DEF TypeOK, RunnerInv
<1>5. StopInv' /\ ServeInv'
  BY <1>0, <1>1 DEF StopInv, ServeInv, EvChanClosed
<1>6. BundleInv'
  BY <1>0, <1>1 DEF BundleInv, RunnerInv, Bundle
<1> QED
  BY <1>1, <1>2, <1>3, <1>4, <1>5, <1>6, UpInv
-----------------------------------------------------------------------------
LEMMA InitInv == Init => TypeOK /\ LifecycleInv
<1> SUFFICES ASSUME Init PROVE TypeOK /\ LifecycleInv
  OBVIOUS
<1>1. TypeOK
  <2>1. /\ stop \in BOOLEAN /\ failed \in BOOLEAN /\ listening \in BOOLEAN
        /\ gateway \in BOOLEAN /\ errCh \in BOOLEAN /\ workers \in BOOLEAN
        /\ sigint \in BOOLEAN
    BY DEF Init
  <2>2. dials \in 0..MaxDials /\ batches \in 0..MaxBatches /\ held \in 0..batches
    BY LifecycleAssumption DEF Init
  <2> QED
    BY <2>1, <2>2 DEF Init, TypeOK
<1>2. Counted /\ StopInv /\ ServeInv /\ RunnerInv /\ BundleInv
  BY DEF Init, Counted, StopInv, ServeInv, RunnerInv, BundleInv, EvChanClosed
<1>3. CleanEnd /\ ApisixClosed
  BY DEF Init, CleanEnd, ApisixClosed
<1> QED
  BY <1>1, <1>2, <1>3 DEF LifecycleInv

\* TypeOK and LifecycleInv hold in every reachable state.
LEMMA LifecycleInvariant == Spec => [](TypeOK /\ LifecycleInv)
<1>1. ASSUME TypeOK /\ LifecycleInv, [Next]_vars PROVE (TypeOK /\ LifecycleInv)'
  <2>1. CASE UNCHANGED vars
    BY <1>1, <2>1
       DEF vars, provVars, etcdVars, apisixVars, TypeOK, LifecycleInv, Counted, StopInv,
           ServeInv, RunnerInv, BundleInv, CleanEnd, ApisixClosed, EvChanClosed, Bundle
  <2>2. CASE Next
    <3>1. end = "up"
      BY <2>2 DEF Next
    <3> QED
      BY <1>1, <2>2, <3>1, MainStepInv, SignalStepInv, ProvisionerInv, EtcdInv, ApisixInv
         DEF Next, Environment
  <2> QED
    BY <1>1, <2>1, <2>2
<1> QED
  BY <1>1, InitInv, PTL DEF Spec

\* Type correctness of the life cycle: in particular waitGroup's counter is never
\* negative, which in Go is a panic.
THEOREM TypeCorrect == Spec => []TypeOK
BY LifecycleInvariant, PTL

\* Sidecar.Run returns nil only with everything it has started at its end.
THEOREM EndIsClean == Spec => []CleanEnd
<1>1. LifecycleInv => CleanEnd
  BY DEF LifecycleInv
<1> QED
  BY <1>1, LifecycleInvariant, PTL

\* A stopped agent leaves a running APISIX behind that it has not signalled only when
\* a batch meets the closed evChan, the provisioner fails or Serve does.
THEOREM ApisixIsClosed == Spec => []ApisixClosed
<1>1. LifecycleInv => ApisixClosed
  BY DEF LifecycleInv
<1> QED
  BY <1>1, LifecycleInvariant, PTL
=============================================================================
