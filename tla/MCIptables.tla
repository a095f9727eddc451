----------------------------- MODULE MCIptables -----------------------------
(***************************************************************************)
(* Instances of Iptables for TLC.                                          *)
(***************************************************************************)
EXTENDS Iptables

\* No ports, all but some, a list with an empty entry, one of nothing else, and one with a
\* bad port.
MCConfigs ==
    [InboundPortsInclude : {<<>>, <<"*">>, <<"", "">>, <<"80", "", "22">>},
     InboundPortsExclude : {<<>>, <<"80">>},
     OutboundPortsInclude : {<<>>, <<"*">>, <<"80", "bad">>, <<"443">>},
     OutboundPortsExclude : {<<>>, <<"", "443">>}]
=============================================================================
