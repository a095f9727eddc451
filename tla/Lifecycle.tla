----------------------------- MODULE Lifecycle -----------------------------
(***************************************************************************)
(* From the start of the sidecar command to the end of the process:        *)
(* cmd/sidecar, Sidecar.Run, the APISIX runner, and Serve and Shutdown of  *)
(* the etcd server.                                                        *)
(*                                                                         *)
(* The main goroutine starts the provisioner and the etcd server, sleeps,  *)
(* launches APISIX in bundle mode, and takes batches until the provisioner *)
(* closes evChan.  Then it signals APISIX, shuts the etcd server down and  *)
(* waits for the goroutines of Serve and of the APISIX command.  Nothing   *)
(* but time.Sleep and a two-second timer orders the goroutines at start,   *)
(* and time is not modelled, so a timer may fire before or after any step  *)
(* of another goroutine.                                                   *)
(*                                                                         *)
(* The provisioners are those of GrpcProvisioner and FileProvisioner, cut  *)
(* down to when they begin, wait, return, and hold a batch for evChan.     *)
(***************************************************************************)
EXTENDS Integers, FiniteSets

CONSTANTS
    Configurations, \* the configurations the command may be started with
    Clients,        \* clients of the etcd server that watch
    MaxDials,       \* bound: connections to the config source
    MaxBatches      \* bound: batches of events in a behaviour

ASSUME LifecycleAssumption ==
    /\ MaxDials \in Nat /\ MaxBatches \in Nat
    /\ \A c \in Configurations :
        {"Provisioner", "XDSConfigSource", "XDSWatchFiles", "GRPCListen", "RunMode"}
            \subseteq DOMAIN c

VARIABLES
    cfg,        \* the configuration
    main,       \* where the main goroutine is
    waiter,     \* where waitForSignal is
    stop,       \* the stop channel is closed
    prov,       \* where the provisioner's Run is; evChan is closed once it returned
    failed,     \* Run of the provisioner has returned an error
    dials,      \* how often it has dialed
    held,       \* the goroutines that hold a batch for evChan
    batches,    \* how many batches were made
    serve,      \* how far Serve of the etcd server is
    listening,  \* the root listener is open
    gateway,    \* the gateway's own gRPC connection is open
    conns,      \* how each client is connected: not, by gRPC, or by HTTP
    runner,     \* where the goroutine of the APISIX command is
    errCh,      \* it has left an error for apisixRunner.run
    apisix,     \* the APISIX master process
    workers,    \* processes APISIX has left behind that hold its output open
    sigint,     \* APISIX was sent SIGINT
    wg,         \* the counter of Sidecar.waitGroup
    end         \* "up", or how the process has ended

provVars == <<prov, failed, dials, held, batches>>
etcdVars == <<serve, listening, gateway, conns>>
apisixVars == <<runner, errCh, apisix, workers, sigint>>
vars == <<cfg, main, waiter, stop, provVars, etcdVars, apisixVars, wg, end>>

notMain == <<cfg, waiter, stop, provVars, etcdVars, apisixVars, wg, end>>
notProv == <<cfg, main, waiter, stop, etcdVars, apisixVars, wg, end>>
notEtcd == <<cfg, main, waiter, stop, provVars, apisixVars, end>>
notApisix == <<cfg, main, waiter, stop, provVars, etcdVars, end>>

TypeOK ==
    /\ cfg \in Configurations
    /\ main \in {"command", "sleep", "launch", "select", "loop", "apisix", "etcd",
                 "drain", "http", "wait"}
    /\ waiter \in {"new", "wait", "got", "done"}
    /\ stop \in BOOLEAN
    /\ prov \in {"new", "begin", "select", "returned", "over"}
    /\ failed \in BOOLEAN
    /\ dials \in 0..MaxDials
    /\ held \in 0..batches
    /\ batches \in 0..MaxBatches
    /\ serve \in {"new", "grpc", "serving", "returned"}
    /\ listening \in BOOLEAN /\ gateway \in BOOLEAN
    /\ conns \in [Clients -> {"none", "grpc", "http"}]
    /\ runner \in {"off", "start", "running", "done"}
    /\ errCh \in BOOLEAN
    /\ apisix \in {"none", "running", "exited", "reaped"}
    /\ workers \in BOOLEAN /\ sigint \in BOOLEAN
    /\ wg \in 0..2
    /\ end \in {"up", "ok", "refused", "launch", "fatal", "panic", "killed"}

Init ==
    /\ cfg \in Configurations
    /\ main = "command"
    /\ waiter = "new"
    /\ stop = FALSE
    /\ prov = "new" /\ failed = FALSE /\ dials = 0
    /\ held = 0 /\ batches = 0
    /\ serve = "new" /\ listening = FALSE /\ gateway = FALSE
    /\ conns = [c \in Clients |-> "none"]
    /\ runner = "off" /\ errCh = FALSE
    /\ apisix = "none" /\ workers = FALSE /\ sigint = FALSE
    /\ wg = 0
    /\ end = "up"

\* The process ends; the other processes stay as they are.
Exit(how) ==
    /\ end' = how
    /\ UNCHANGED <<cfg, main, waiter, stop, provVars, etcdVars, apisixVars, wg>>
-----------------------------------------------------------------------------
(***************************************************************************)
(* The command, up to Sidecar.Run.                                         *)
(***************************************************************************)

\* Config.Validate.  Of GRPCListen count whether its host is an IP address, and its
\* port, 0 when it is no number or the address cannot be split.
Validate(c) ==
    /\ c.Provisioner \in {"xds-v3-file", "xds-v3-grpc"}
    /\ c.Provisioner = "xds-v3-grpc" => c.XDSConfigSource # ""
    /\ c.GRPCListen.ip
    /\ c.GRPCListen.port \in 1..65535

\* newProvisioner: the source must be of the form grpc://..., or files be given.
NewProvisioner(c) ==
    IF c.Provisioner = "xds-v3-file" THEN c.XDSWatchFiles
    ELSE c.XDSConfigSource = "grpc://"

\* Validate or NewSidecar fails, be it that the address is in use, and dief exits.
Refuse ==
    /\ main = "command"
    /\ Exit("refused")

Bundle == cfg.RunMode = "bundle"

\* NewSidecar listens; the command starts waitForSignal and calls Run, which starts
\* the provisioner and, counted in waitGroup, Serve.
Start ==
    /\ main = "command"
    /\ Validate(cfg)
    /\ NewProvisioner(cfg)
    /\ listening' = TRUE
    /\ main' = "sleep"
    /\ prov' = "begin"
    /\ wg' = wg + 1
    /\ UNCHANGED <<cfg, waiter, stop, failed, dials, held, batches, serve, gateway,
                   conns, apisixVars, end>>

\* waitForSignal asks for SIGINT and SIGTERM.
Notify ==
    /\ waiter = "new" /\ main # "command"
    /\ waiter' = "wait"
    /\ UNCHANGED <<cfg, main, stop, provVars, etcdVars, apisixVars, wg, end>>

\* A signal comes.  Before Notify it kills the process; afterwards it is put into
\* sigCh.  Once waitForSignal has taken one, nobody looks at any other.
Signal ==
    \/ /\ waiter = "new"
       /\ Exit("killed")
    \/ /\ waiter = "wait"
       /\ waiter' = "got"
       /\ UNCHANGED <<cfg, main, stop, provVars, etcdVars, apisixVars, wg, end>>

CloseStop ==
    /\ waiter = "got"
    /\ waiter' = "done"
    /\ stop' = TRUE
    /\ UNCHANGED <<cfg, main, provVars, etcdVars, apisixVars, wg, end>>
-----------------------------------------------------------------------------
(***************************************************************************)
(* The provisioner.                                                        *)
(***************************************************************************)

Grpc == cfg.Provisioner = "xds-v3-grpc"

\* The dial succeeds and the stream is opened, or the files are read and watched.
\* Neither looks at stop.
Begin ==
    /\ prov = "begin"
    /\ dials < MaxDials
    /\ dials' = dials + 1
    /\ prov' = "select"
    /\ UNCHANGED <<notProv, failed, held, batches>>

\* The stream cannot be opened, or a file not be read or watched: Run returns an
\* error, and its deferred close(evChan) comes first.
BeginFails ==
    /\ prov = "begin"
    /\ prov' = "returned"
    /\ failed' = TRUE
    /\ UNCHANGED <<notProv, dials, held, batches>>

\* recvLoop asks for a reset, and Run dials again.
Reset ==
    /\ prov = "select" /\ Grpc /\ dials < MaxDials
    /\ prov' = "begin"
    /\ UNCHANGED <<notProv, failed, dials, held, batches>>

\* Run sees stop and returns: evChan is closed.
ProvisionerStops ==
    /\ prov = "select" /\ stop
    /\ prov' = "returned"
    /\ UNCHANGED <<notProv, failed, dials, held, batches>>

\* The provisioner's goroutine in Sidecar.Run: an error is fatal.
ProvisionerOver ==
    /\ prov = "returned"
    /\ \/ /\ failed
          /\ Exit("fatal")
       \/ /\ ~failed
          /\ prov' = "over"
          /\ UNCHANGED <<notProv, failed, dials, held, batches>>

EvChanClosed == prov \in {"returned", "over"}

\* A response is translated or a file event handled, and a goroutine started that
\* holds the batch.  A translateLoop may do it once more after Run has returned.
MakeBatch ==
    /\ batches < MaxBatches
    /\ IF Grpc THEN dials > 0 ELSE prov \in {"begin", "select"}
    /\ batches' = batches + 1
    /\ held' = held + 1
    /\ UNCHANGED <<notProv, prov, failed, dials>>

\* It sends to the closed evChan.
PanicOnClosed ==
    /\ EvChanClosed /\ held > 0
    /\ Exit("panic")
-----------------------------------------------------------------------------
(***************************************************************************)
(* The etcd server.                                                        *)
(***************************************************************************)

\* Serve makes the gRPC server, ...
ServeGrpc ==
    /\ main # "command" /\ serve = "new"
    /\ serve' = "grpc"
    /\ UNCHANGED <<notEtcd, listening, gateway, conns, wg>>

\* ... registers the gateway with a gRPC connection to the server itself, makes
\* the HTTP server, and serves.  A gRPC server that was stopped before closes the
\* listener it is given.
ServeAll ==
    /\ serve = "grpc"
    /\ serve' = "serving"
    /\ gateway' = TRUE
    /\ listening' = (main \notin {"drain", "http", "wait"})
    /\ UNCHANGED <<notEtcd, conns, wg>>

\* The gateway cannot be registered, or Accept fails while the listener is open: an
\* error that is not reasonable, which is fatal.
ServeFails ==
    /\ serve \in {"grpc", "serving"} /\ listening
    /\ Exit("fatal")

\* A client opens a watch stream, over gRPC or, through the gateway, over HTTP, and
\* may close it at any time.
Connect(c) ==
    /\ serve = "serving" /\ listening /\ conns[c] = "none"
    /\ \E how \in {"grpc", "http"} : conns' = [conns EXCEPT ![c] = how]
    /\ UNCHANGED <<notEtcd, serve, listening, gateway, wg>>

Disconnect(c) ==
    /\ conns[c] # "none"
    /\ conns' = [conns EXCEPT ![c] = "none"]
    /\ UNCHANGED <<notEtcd, serve, listening, gateway, wg>>

\* Mutant: Done is called at the end and deferred.
ServeReturns_DoneTwice ==
    /\ serve = "serving" /\ ~listening
    /\ serve' = "returned"
    /\ wg' = wg - 2
    /\ UNCHANGED <<notEtcd, listening, gateway, conns>>

\* GracefulStop has closed the listener: m.Serve returns an error that is reasonable,
\* Serve cancels its context, and its goroutine leaves waitGroup.
ServeReturns ==
    /\ serve = "serving" /\ ~listening
    /\ serve' = "returned"
    /\ wg' = wg - 1
    /\ UNCHANGED <<notEtcd, listening, gateway, conns>>

\* Mutant: the context of Serve does not reach the gateway.
CloseGateway_Never == FALSE

\* The goroutine of registerGateway closes the gateway's connection.
CloseGateway ==
    /\ serve = "returned" /\ gateway
    /\ gateway' = FALSE
    /\ UNCHANGED <<notEtcd, serve, listening, conns, wg>>

\* The handler of an HTTP client sees its stream end with that connection.
HandlerEnds(c) ==
    /\ conns[c] = "http" /\ ~gateway
    /\ conns' = [conns EXCEPT ![c] = "none"]
    /\ UNCHANGED <<notEtcd, serve, listening, gateway, wg>>
-----------------------------------------------------------------------------
(***************************************************************************)
(* The APISIX command.                                                     *)
(***************************************************************************)

\* cmd.Run starts APISIX, or cannot.
RunnerStarts ==
    /\ runner = "start"
    /\ \/ /\ apisix' = "running"
          /\ runner' = "running"
          /\ UNCHANGED <<errCh, wg>>
       \/ /\ runner' = "done"
          /\ errCh' = TRUE
          /\ wg' = wg - 1
          /\ UNCHANGED apisix
    /\ UNCHANGED <<notApisix, workers, sigint>>

\* The master process exits, told to or not, and may leave workers behind.
ApisixExits ==
    /\ apisix = "running"
    /\ apisix' = "exited"
    /\ workers' \in BOOLEAN
    /\ UNCHANGED <<notApisix, runner, errCh, sigint, wg>>

WorkersExit ==
    /\ workers
    /\ workers' = FALSE
    /\ UNCHANGED <<notApisix, runner, errCh, apisix, sigint, wg>>

\* cmd.Run learns of the exit ...
Reap ==
    /\ apisix = "exited"
    /\ apisix' = "reaped"
    /\ UNCHANGED <<notApisix, runner, errCh, workers, sigint, wg>>

\* ... and returns when the output is closed as well, with an error or not.
RunnerEnds ==
    /\ runner = "running" /\ apisix = "reaped" /\ ~workers
    /\ runner' = "done"
    /\ errCh' \in BOOLEAN
    /\ wg' = wg - 1
    /\ UNCHANGED <<notApisix, apisix, workers, sigint>>
-----------------------------------------------------------------------------
(***************************************************************************)
(* Sidecar.Run, the main goroutine.                                        *)
(***************************************************************************)

\* time.Sleep is over.
SleepOver ==
    /\ main = "sleep"
    /\ main' = IF Bundle THEN "launch" ELSE "loop"
    /\ UNCHANGED notMain

\* apisixRunner.run: renderConfig, which may fail to write the file, and the
\* goroutine of the command.
Launch ==
    /\ main = "launch"
    /\ \/ Exit("launch")
       \/ /\ main' = "select"
          /\ runner' = "start"
          /\ wg' = wg + 1
          /\ UNCHANGED <<cfg, waiter, stop, provVars, etcdVars, errCh, apisix, workers,
                         sigint, end>>

\* Its select: an error of the command is returned, and dief exits; after two
\* seconds the process is taken from the command, which may not have one yet.
LaunchSelect ==
    /\ main = "select"
    /\ \/ /\ errCh
          /\ Exit("launch")
       \/ /\ apisix = "none"
          /\ Exit("panic")
       \/ /\ apisix # "none"
          /\ main' = "loop"
          /\ UNCHANGED notMain

\* The loop takes a batch, or ends when evChan is closed.
Loop ==
    /\ main = "loop"
    /\ \/ /\ ~EvChanClosed /\ held > 0
          /\ held' = held - 1
          /\ UNCHANGED main
       \/ /\ EvChanClosed
          /\ main' = "apisix"
          /\ UNCHANGED held
    /\ UNCHANGED <<cfg, waiter, stop, prov, failed, dials, batches, etcdVars,
                   apisixVars, wg, end>>

\* Mutant: the process was never taken from the command, so nothing is signalled.
SignalApisix_NoProcess ==
    /\ main = "apisix"
    /\ main' = "etcd"
    /\ UNCHANGED notMain

\* apisixRunner.shutdown: a process that was reaped cannot be signalled, which is
\* fatal.
SignalApisix ==
    /\ main = "apisix"
    /\ \/ /\ Bundle /\ apisix = "reaped"
          /\ Exit("fatal")
       \/ /\ ~(Bundle /\ apisix = "reaped")
          /\ main' = "etcd"
          /\ sigint' = Bundle
          /\ UNCHANGED <<cfg, waiter, stop, provVars, etcdVars, runner, errCh, apisix,
                         workers, wg, end>>

\* etcdV3.Shutdown, GracefulStop: it closes the listener it serves.  Without a server
\* yet it is a nil dereference.
GracefulStop ==
    /\ main = "etcd"
    /\ \/ /\ serve = "new"
          /\ Exit("panic")
       \/ /\ serve # "new"
          /\ listening' = (listening /\ serve = "grpc")
          /\ main' = "drain"
          /\ UNCHANGED <<cfg, waiter, stop, provVars, serve, gateway, conns,
                         apisixVars, wg, end>>

\* GracefulStop returns when no stream is left, whatever the time limit of the
\* shutdown: neither of a gRPC client nor, in the gateway's connection, of an HTTP
\* client.
Drained ==
    /\ main = "drain"
    /\ \A c \in Clients : conns[c] # "grpc" /\ (gateway => conns[c] # "http")
    /\ main' = "http"
    /\ UNCHANGED notMain

\* httpSrv.Shutdown waits for HTTP clients up to the time limit, which is only
\* logged.  Without an HTTP server yet it is a nil dereference.
HttpShutdown ==
    /\ main = "http"
    /\ \/ /\ serve \in {"new", "grpc"}
          /\ Exit("panic")
       \/ /\ serve \notin {"new", "grpc"}
          /\ main' = "wait"
          /\ UNCHANGED notMain

\* Mutant: Run does not wait.
Wait_Not ==
    /\ main = "wait"
    /\ Exit("ok")

\* waitGroup.Wait, and the end of the command.
Wait ==
    /\ main = "wait"
    /\ wg = 0
    /\ Exit("ok")
-----------------------------------------------------------------------------
MainStep ==
    \/ Refuse \/ Start \/ SleepOver \/ Launch \/ LaunchSelect \/ Loop \/ SignalApisix
    \/ GracefulStop \/ Drained \/ HttpShutdown \/ Wait

SignalStep == Notify \/ CloseStop

ProvisionerStep ==
    \/ ProvisionerStops
    \/ ProvisionerOver
    \/ ~Grpc /\ (Begin \/ BeginFails)

ServeStep == ServeGrpc \/ ServeAll \/ ServeReturns

RunnerStep == RunnerStarts \/ Reap \/ RunnerEnds

\* What others decide: the user, the config source, the clients, APISIX.
Environment ==
    \/ Signal
    \/ Grpc /\ (Begin \/ BeginFails)
    \/ Reset
    \/ MakeBatch
    \/ ServeFails
    \/ \E c \in Clients : Connect(c) \/ Disconnect(c)
    \/ ApisixExits
    \/ WorkersExit

Next ==
    /\ end = "up"
    /\ \/ MainStep \/ SignalStep \/ ProvisionerStep \/ ServeStep \/ RunnerStep
       \/ CloseGateway
       \/ \E c \in Clients : HandlerEnds(c)
       \/ PanicOnClosed
       \/ Environment

Spec == Init /\ [][Next]_vars

\* Go runs every goroutine that can run, and timers fire.
Fairness ==
    /\ WF_vars(end = "up" /\ MainStep)
    /\ WF_vars(end = "up" /\ SignalStep)
    /\ WF_vars(end = "up" /\ ProvisionerStep)
    /\ WF_vars(end = "up" /\ ServeStep)
    /\ WF_vars(end = "up" /\ RunnerStep)
    /\ WF_vars(end = "up" /\ CloseGateway)
    /\ \A c \in Clients : WF_vars(end = "up" /\ HandlerEnds(c))

FairSpec == Spec /\ Fairness
-----------------------------------------------------------------------------
(***************************************************************************)
(* Properties.                                                             *)
(***************************************************************************)

\* Sidecar.Run returns nil only after a stop or a failure of the provisioner, with
\* everything it has started at its end: no client is served any more, Serve has
\* returned, and APISIX was told to exit, has exited and has left nobody behind.
CleanEnd ==
    end = "ok" =>
        /\ stop \/ failed
        /\ serve = "returned" /\ \A c \in Clients : conns[c] # "grpc"
        /\ Bundle => sigint /\ apisix = "reaped" /\ ~workers

\* pkg/config/types.go: "when you shutdown apisix-mesh-agent, APISIX will also be
\* closed".  A stopped agent leaves an APISIX behind that runs and was not told to
\* exit in three cases only: a batch was waiting when evChan was closed, the
\* provisioner could not begin again, or Serve failed.
ApisixClosed ==
    stop /\ end # "up" /\ apisix = "running" /\ ~sigint =>
        \/ end = "panic" /\ EvChanClosed /\ held > 0
        \/ end = "fatal" /\ (failed \/ listening)

\* A stop ends the process, unless one of three others keeps it for ever: a config
\* source that does not accept, a gRPC client that watches on, or APISIX with the
\* processes it has left.  HTTP clients, which watch through the gateway, do not.
StopEnds ==
    <>stop => \/ <>(end # "up")
              \/ <>[](Grpc /\ prov = "begin")
              \/ <>[](\E c \in Clients : conns[c] = "grpc")
              \/ <>[](apisix = "running" \/ workers)
=============================================================================
