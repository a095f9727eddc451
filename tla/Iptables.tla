------------------------------ MODULE Iptables ------------------------------
(***************************************************************************)
(* The commands that intercept traffic: cmd/iptables (set-up and           *)
(* clean-up) and cmd/precheck, over the nat table of the kernel.           *)
(*                                                                         *)
(* Both iptables commands make a list of changes and run them one by one.  *)
(* The set-up gives up at the first that fails, the clean-up ignores       *)
(* failures, and either may be killed between two changes, so that the     *)
(* table may be met half-way by the next command and by packets.  The      *)
(* table is a function from chains to their rules; a packet is told by     *)
(* what some rule may look at.                                             *)
(*                                                                         *)
(* A list of ports is the sequence of the strings between its commas:      *)
(* <<>> for the empty string, <<"*">> for all ports.                       *)
(***************************************************************************)
EXTENDS Integers, Sequences, SequencesExt, Slices

CONSTANTS
    Configs,        \* the flags a set-up may be called with
    Ports,          \* the ports a packet may have
    MaxCommands     \* bound: set-ups and clean-ups in a behaviour

\* An empty entry in a list of ports.
NoPort == ""

\* "any" and "foreign" stand for what is no port (see Rule and Foreign).
ASSUME IptablesAssumption ==
    /\ MaxCommands \in Nat
    /\ {NoPort, "*", "any", "foreign"} \cap Ports = {}
    /\ \A c \in Configs :
        /\ c \in [{"InboundPortsInclude", "InboundPortsExclude",
                  "OutboundPortsInclude", "OutboundPortsExclude"} -> Seq(STRING)]
        /\ \A f \in DOMAIN c : "any" \notin ToSet(c[f])

BuiltinChain == {"PREROUTING", "OUTPUT"}
AgentChain == {"APISIX_INBOUND", "APISIX_REDIRECT", "APISIX_INBOUND_REDIRECT"}

\* A rule matches by protocol, destination port and owner, and then goes to another
\* chain, returns, or redirects to one of the two ports of APISIX.
Rule(proto, dport, owner, to) ==
    [proto |-> proto, dport |-> dport, owner |-> owner, to |-> to]

\* A rule somebody else has made, about a port that is nobody's business.
Foreign == Rule("tcp", "foreign", "any", "elsewhere")

VARIABLES
    table,      \* the nat table
    todo,       \* the changes the running command has still to make
    command,    \* which command runs, if any
    cfg,        \* the flags of the last set-up that has changed the table
    outcome,    \* how the last command has ended
    commands    \* how many commands were run

vars == <<table, todo, command, cfg, outcome, commands>>

Init ==
    /\ table = [c \in BuiltinChain |-> <<Foreign>>]
    /\ todo = <<>>
    /\ command = "none"
    /\ cfg \in Configs
    /\ outcome = [command |-> "none", how |-> "done"]
    /\ commands = 0
-----------------------------------------------------------------------------
(***************************************************************************)
(* The rules of a set-up.                                                  *)
(***************************************************************************)

\* split and filterEmpty.
Split(ports) == Keep(ports, ToSet(ports) \ {NoPort})

\* AppendRuleV4 for a list of ports.
PerPort(chain, ports, to) ==
    LET ps == Split(ports)
    IN  [i \in DOMAIN ps |-> [chain |-> chain, rule |-> Rule("tcp", ps[i], "any", to)]]

InsertInboundRules(c) ==
    IF c.InboundPortsInclude = <<>> THEN <<>>
    ELSE <<[chain |-> "PREROUTING", rule |-> Rule("tcp", "any", "any", "APISIX_INBOUND")]>>
         \o IF c.InboundPortsInclude = <<"*">>
            THEN PerPort("APISIX_INBOUND", <<"22">> \o c.InboundPortsExclude, "RETURN")
                 \o <<[chain |-> "APISIX_INBOUND",
                       rule |-> Rule("tcp", "any", "any", "APISIX_INBOUND_REDIRECT")]>>
            ELSE PerPort("APISIX_INBOUND", c.InboundPortsInclude, "APISIX_INBOUND_REDIRECT")

\* Mutant: a list of ports is overlooked.
InsertOutboundRules_OnlyAll(c) ==
    IF c.OutboundPortsInclude = <<"*">>
    THEN PerPort("OUTPUT", c.OutboundPortsExclude, "RETURN")
         \o <<[chain |-> "OUTPUT", rule |-> Rule("tcp", "any", "any", "APISIX_REDIRECT")]>>
    ELSE <<>>

InsertOutboundRules(c) ==
    IF c.OutboundPortsInclude = <<"*">>
    THEN PerPort("OUTPUT", c.OutboundPortsExclude, "RETURN")
         \o <<[chain |-> "OUTPUT", rule |-> Rule("tcp", "any", "any", "APISIX_REDIRECT")]>>
    ELSE PerPort("OUTPUT", c.OutboundPortsInclude, "APISIX_REDIRECT")

\* What APISIX itself sends: over the loopback to another address, or at all.
InsertSkipRules ==
    <<[chain |-> "OUTPUT", rule |-> Rule("any", "any", "uid_over_lo", "RETURN")],
      [chain |-> "OUTPUT", rule |-> Rule("any", "any", "gid", "RETURN")]>>

RedirectRules ==
    <<[chain |-> "APISIX_REDIRECT", rule |-> Rule("tcp", "any", "any", "ProxyPort")],
      [chain |-> "APISIX_INBOUND_REDIRECT",
       rule |-> Rule("tcp", "any", "any", "InboundCapturePort")]>>

\* Mutant: the skipping rules come last.
Rules_SkipLast(c) ==
    RedirectRules \o InsertInboundRules(c) \o InsertOutboundRules(c) \o InsertSkipRules

\* iptablesConstructor.run, up to executeCommand.
Rules(c) ==
    RedirectRules \o InsertSkipRules \o InsertInboundRules(c) \o InsertOutboundRules(c)

\* BuildV4: the chains that are not built in are made first, in the order in which
\* the rules name them, then the rules are appended.
BuildV4(rules) ==
    LET first == {i \in DOMAIN rules :
                    /\ rules[i].chain \notin BuiltinChain
                    /\ \A j \in 1..(i - 1) : rules[j].chain # rules[i].chain}
        firsts == Keep([i \in DOMAIN rules |-> i], first)
    IN  [i \in DOMAIN firsts |-> [op |-> "-N", chain |-> rules[firsts[i]].chain]]
        \o [i \in DOMAIN rules |->
              [op |-> "-A", chain |-> rules[i].chain, rule |-> rules[i].rule]]
-----------------------------------------------------------------------------
(***************************************************************************)
(* The changes of a clean-up.                                              *)
(***************************************************************************)

\* flushAndDeleteChains, for one chain.
FlushAndDelete(chain) == <<[op |-> "-F", chain |-> chain], [op |-> "-X", chain |-> chain]>>

\* Mutant: the jump to the inbound chain stays.
RemoveOldChains_KeepJump ==
    FlushAndDelete("APISIX_INBOUND") \o FlushAndDelete("OUTPUT")
        \o FlushAndDelete("APISIX_REDIRECT") \o FlushAndDelete("APISIX_INBOUND_REDIRECT")

\* Mutant: the jump to the inbound chain is removed last.
RemoveOldChains_JumpLast ==
    FlushAndDelete("OUTPUT") \o FlushAndDelete("APISIX_REDIRECT")
        \o <<[op |-> "-D", chain |-> "PREROUTING",
              rule |-> Rule("tcp", "any", "any", "APISIX_INBOUND")]>>
        \o FlushAndDelete("APISIX_INBOUND") \o FlushAndDelete("APISIX_INBOUND_REDIRECT")

\* removeOldChains and flushAndDeleteChains.
RemoveOldChains ==
    <<[op |-> "-D", chain |-> "PREROUTING",
       rule |-> Rule("tcp", "any", "any", "APISIX_INBOUND")],
      [op |-> "-D", chain |-> "OUTPUT", rule |-> Rule("tcp", "any", "any", "OUTPUT")]>>
        \o FlushAndDelete("APISIX_INBOUND") \o FlushAndDelete("OUTPUT")
        \o FlushAndDelete("APISIX_REDIRECT") \o FlushAndDelete("APISIX_INBOUND_REDIRECT")
-----------------------------------------------------------------------------
(***************************************************************************)
(* What iptables makes of a change.                                        *)
(***************************************************************************)

Refers(tbl, chain) ==
    \E c \in DOMAIN tbl : \E i \in DOMAIN tbl[c] : tbl[c][i].to = chain

Possible(tbl, ch) ==
    CASE ch.op = "-N" -> ch.chain \notin DOMAIN tbl
      [] ch.op = "-A" -> /\ ch.chain \in DOMAIN tbl
                         /\ ch.rule.dport \in Ports \cup {"any"}
                         /\ ch.rule.to \in AgentChain => ch.rule.to \in DOMAIN tbl
      [] ch.op = "-D" -> ch.chain \in DOMAIN tbl /\ Contains(tbl[ch.chain], ch.rule)
      [] ch.op = "-F" -> ch.chain \in DOMAIN tbl
      [] ch.op = "-X" -> /\ ch.chain \in DOMAIN tbl \ BuiltinChain
                         /\ tbl[ch.chain] = <<>> /\ ~Refers(tbl, ch.chain)

Changed(tbl, ch) ==
    CASE ch.op = "-N" -> [c \in DOMAIN tbl \cup {ch.chain} |->
                            IF c = ch.chain THEN <<>> ELSE tbl[c]]
      [] ch.op = "-A" -> [tbl EXCEPT ![ch.chain] = Append(@, ch.rule)]
      [] ch.op = "-D" -> [tbl EXCEPT ![ch.chain] = RemoveFirst(@, ch.rule)]
      [] ch.op = "-F" -> [tbl EXCEPT ![ch.chain] = <<>>]
      [] ch.op = "-X" -> [c \in DOMAIN tbl \ {ch.chain} |-> tbl[c]]
-----------------------------------------------------------------------------
(***************************************************************************)
(* The commands.                                                           *)
(***************************************************************************)

\* The set-up begins.  Its first change tells whether it is the set-up in force: it
\* makes a chain that no other may have made.
SetUp(c) ==
    /\ command = "none"
    /\ commands < MaxCommands
    /\ commands' = commands + 1
    /\ command' = "iptables"
    /\ todo' = BuildV4(Rules(c))
    /\ cfg' = IF "APISIX_REDIRECT" \in DOMAIN table THEN cfg ELSE c
    /\ UNCHANGED <<table, outcome>>

CleanUp ==
    /\ command = "none"
    /\ commands < MaxCommands
    /\ commands' = commands + 1
    /\ command' = "cleanup-iptables"
    /\ todo' = RemoveOldChains
    /\ UNCHANGED <<table, cfg, outcome>>

\* The command ends, and with it what it had still to do.
EndCommand(how) ==
    /\ outcome' = [command |-> command, how |-> how]
    /\ command' = "none"
    /\ todo' = <<>>

\* executeCommand, RunOrFail, and RunQuietlyAndIgnore: the next change is made, if
\* it can be; if not, the set-up exits and the clean-up goes on.
Execute ==
    /\ todo # <<>>
    /\ \/ /\ Possible(table, Head(todo))
          /\ table' = Changed(table, Head(todo))
          /\ todo' = Tail(todo)
          /\ UNCHANGED <<command, outcome>>
       \/ /\ ~Possible(table, Head(todo))
          /\ UNCHANGED table
          /\ \/ command = "iptables" /\ EndCommand("failed")
             \/ command # "iptables" /\ todo' = Tail(todo) /\ UNCHANGED <<command, outcome>>
    /\ UNCHANGED <<cfg, commands>>

Finish ==
    /\ command # "none"
    /\ todo = <<>>
    /\ EndCommand("done")
    /\ UNCHANGED <<table, cfg, commands>>

\* The command is killed.
Kill ==
    /\ command # "none"
    /\ EndCommand("killed")
    /\ UNCHANGED <<table, cfg, commands>>

Next == (\E c \in Configs : SetUp(c)) \/ CleanUp \/ Execute \/ Finish \/ Kill

Spec == Init /\ [][Next]_vars

\* check of the precheck command: the binary, the home directory, four chains.
Check(bin, home) ==
    /\ bin # "missing"
    /\ home = "directory"
    /\ {"APISIX_INBOUND", "OUTPUT", "APISIX_REDIRECT", "PREROUTING"} \subseteq DOMAIN table
-----------------------------------------------------------------------------
(***************************************************************************)
(* Packets.                                                                *)
(***************************************************************************)

\* Where a packet enters, and what rules look at.  A packet from outside has no owner.
Packet ==
    {p \in [hook : BuiltinChain, proto : {"tcp", "udp"}, dport : Ports,
            owner : {"app", "gid", "uid_over_lo"}] :
        p.hook = "PREROUTING" => p.owner = "app"}

Matches(rule, p) ==
    /\ rule.proto \in {"any", p.proto}
    /\ rule.dport \in {"any", p.dport}
    /\ rule.owner \in {"any", p.owner}

\* The rules of a chain that decide about p: they match, and a chain they go to does not
\* let it pass.  after tells what the chains make of p.
Hits(p, chain, after) ==
    {i \in DOMAIN table[chain] :
        /\ Matches(table[chain][i], p)
        /\ table[chain][i].to \in DOMAIN table => after[table[chain][i].to] # "passed"}

\* What the chains make of p: the first rule that decides.
Walk(p, after) ==
    [chain \in DOMAIN table |->
        LET hits == Hits(p, chain, after)
            first == CHOOSE i \in hits : \A j \in hits : i <= j
            to == table[chain][first].to
        IN  IF hits = {} \/ to = "RETURN" THEN "passed"
            ELSE IF to \in DOMAIN table THEN after[to] ELSE to]

\* What becomes of packet p: "passed", or the port it is redirected to.  From a built-in
\* chain rules lead through two chains at most.
Fate(p) == Walk(p, Walk(p, Walk(p, [chain \in DOMAIN table |-> "passed"])))[p.hook]

\* What should become of it, from the descriptions of the flags (cmd/iptables/iptables.go,
\* lines 68-74): the lists of ports choose packets, none if empty; inbound ones go to
\* --apisix-inbound-capture-port ("where all inbound TCP traffic should be redirected on"),
\* the others to --apisix-port.  Three texts say otherwise: the help of the command (line 32)
\* and docs/traffic-interception.md:48 send inbound ports to --apisix-port, and line 34 of
\* that document has a set-up without lists redirect all inbound traffic.
Chosen(include, exclude, dport) ==
    IF include = <<"*">> THEN ~Contains(exclude, dport) ELSE Contains(include, dport)

Wanted(p) ==
    LET inbound == p.hook = "PREROUTING"
        chosen == IF inbound
                  THEN Chosen(cfg.InboundPortsInclude, cfg.InboundPortsExclude \o <<"22">>, p.dport)
                  ELSE Chosen(cfg.OutboundPortsInclude, cfg.OutboundPortsExclude, p.dport)
    IN  IF p.proto = "tcp" /\ p.owner = "app" /\ chosen
        THEN IF inbound THEN "InboundCapturePort" ELSE "ProxyPort"
        ELSE "passed"
-----------------------------------------------------------------------------
(***************************************************************************)
(* Properties.                                                             *)
(***************************************************************************)

\* cmd/iptables/iptables.go: "Should first insert these skipping rules", "Makes sure
\* SSH is not redirected".  Whatever has failed or been killed half-way, at no moment
\* is a packet redirected that the set-up in force leaves alone, or to another port:
\* APISIX's own packets never come back to it.
NeverMisled == \A p \in Packet : Fate(p) \in {"passed", Wanted(p)}

\* A set-up has run to its end, and no command has begun since.
SetUpDone == command = "none" /\ outcome = [command |-> "iptables", how |-> "done"]

\* RunOrFail ends a set-up at the first change that fails.  Whatever half-made tables
\* came before it, a set-up that gets to its end redirects exactly what the descriptions
\* of its flags say, and leaves no packet out.  So it refutes the three texts that
\* Wanted does not follow.
SetUpWorks == SetUpDone => \A p \in Packet : Fate(p) = Wanted(p)

\* cmd/precheck/precheck.go: precheck "reports false positive errors" in standalone mode
\* only.  As long as any inbound packet is redirected, and be it by a table that a killed
\* command has left half-made, precheck finds its four chains.  It is about inbound traffic:
\* a set-up for outbound ports alone, as docs/traffic-interception.md:84 shows one, makes
\* no inbound chain, and precheck complains.
NoFalseAlarm ==
    (\E p \in Packet : p.hook = "PREROUTING" /\ Fate(p) # "passed")
        => Check("file", "directory")

\* docs/traffic-interception.md: "cleanup-iptables command clears rules created
\* previously".  After any history of set-ups and clean-ups that failed or were killed,
\* one clean-up leaves no chain of the agent, nothing that refers to one, and in
\* PREROUTING what others have put there.
CleanUpRestores ==
    command = "none" /\ outcome = [command |-> "cleanup-iptables", how |-> "done"] =>
        /\ DOMAIN table = BuiltinChain
        /\ table["PREROUTING"] = <<Foreign>>
        /\ \A p \in Packet : Fate(p) = "passed"
=============================================================================
