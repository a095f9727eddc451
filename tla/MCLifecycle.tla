---------------------------- MODULE MCLifecycle ----------------------------
(***************************************************************************)
(* Instances of Lifecycle for TLC.                                         *)
(***************************************************************************)
EXTENDS Lifecycle

\* Both provisioners in both modes, and configurations that are refused.
MCConfigurations ==
    LET ok == [Provisioner |-> "xds-v3-file", XDSConfigSource |-> "",
               XDSWatchFiles |-> TRUE, GRPCListen |-> [ip |-> TRUE, port |-> 65535],
               RunMode |-> "standalone"]
        grpc == [ok EXCEPT !.Provisioner = "xds-v3-grpc", !.XDSConfigSource = "grpc://"]
    IN  {[c EXCEPT !.RunMode = mode] : c \in {ok, grpc}, mode \in {"standalone", "bundle"}}
        \cup {[ok EXCEPT !.Provisioner = ""], [ok EXCEPT !.XDSWatchFiles = FALSE],
              [ok EXCEPT !.GRPCListen.port = 65536], [ok EXCEPT !.GRPCListen.port = 0],
              [grpc EXCEPT !.XDSConfigSource = ""],
              [grpc EXCEPT !.XDSConfigSource = "http://"]}
=============================================================================
