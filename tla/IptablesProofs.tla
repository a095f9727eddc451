--------------------------- MODULE IptablesProofs ---------------------------
(***************************************************************************)
(* Proofs about the commands that intercept traffic (module Iptables), for *)
(* any flags, any ports and any number of commands that fail or are killed *)
(* at any change: no packet is ever misled, a set-up that ends does what   *)
(* its flags say, and one clean-up takes all of it back.                   *)
(*                                                                         *)
(* A table is judged by the rules of the set-up in force: every rule in it *)
(* is one of them, and those that come before it in its chain are before   *)
(* it in the table too.  With a set-up under way all rules up to the next  *)
(* change are there; with a clean-up under way what it has removed is      *)
(* gone.  What becomes of a packet then depends on the rules alone.        *)
(***************************************************************************)
EXTENDS Iptables, ManifestProofs, TLAPS

(* The invariant.                                                          *)

\* The strings of the model.  (The provers do not know that a literal is in STRING.)
Name == STRING \cup BuiltinChain \cup AgentChain
            \cup {"tcp", "any", "22", "foreign", "uid_over_lo", "gid",
                  "RETURN", "elsewhere", "ProxyPort", "InboundCapturePort"}

AnyRule == [proto : Name, dport : Name, owner : Name, to : Name]

\* The rule that leads to the inbound chain.
Jump == Rule("tcp", "any", "any", "APISIX_INBOUND")

IsTable(tbl) ==
    /\ BuiltinChain \subseteq DOMAIN tbl
    /\ DOMAIN tbl \subseteq BuiltinChain \cup AgentChain
    /\ \A chain \in DOMAIN tbl : tbl[chain] \in Seq(AnyRule)

\* Rule i of chain s is number j of rules, and those before it are before it in s.
FollowsAt(s, i, rules, j, chain) ==
    /\ rules[j].chain = chain
    /\ rules[j].rule = s[i]
    /\ \A k \in 1..(j - 1) :
        rules[k].chain = chain => \E m \in 1..(i - 1) : s[m] = rules[k].rule

Follows(tbl, rules) ==
    \A chain \in DOMAIN tbl : \A i \in DOMAIN tbl[chain] :
        \/ tbl[chain][i] = Foreign
        \/ \E j \in DOMAIN rules : FollowsAt(tbl[chain], i, rules, j, chain)

\* No rule goes to a chain that is not there.
Closed(tbl) ==
    \A chain \in DOMAIN tbl : \A i \in DOMAIN tbl[chain] :
        tbl[chain][i].to \in AgentChain => tbl[chain][i].to \in DOMAIN tbl

\* The first chain a set-up makes is the last one to go that another refers to.
Bare(tbl) ==
    "APISIX_REDIRECT" \notin DOMAIN tbl =>
        /\ "APISIX_INBOUND" \notin DOMAIN tbl
        /\ tbl["PREROUTING"] = <<Foreign>>
        /\ tbl["OUTPUT"] = <<>> \/ tbl["OUTPUT"] = <<Foreign>>

Shape(tbl, rules) ==
    /\ IsTable(tbl)
    /\ Follows(tbl, rules)
    /\ Closed(tbl)
    /\ tbl["PREROUTING"] = <<Foreign>> \/ tbl["PREROUTING"] = <<Foreign, Jump>>

\* s is what is left of all.
IsRest(s, all) ==
    /\ Len(s) <= Len(all)
    /\ \A i \in 1..Len(s) : s[i] = all[(Len(all) - Len(s)) + i]

\* The first n rules are in the table.
Added(tbl, rules, n) ==
    \A j \in 1..n : /\ rules[j].chain \in DOMAIN tbl
                    /\ \E i \in DOMAIN tbl[rules[j].chain] :
                            tbl[rules[j].chain][i] = rules[j].rule

\* A set-up that met the chain of another one is about to fail.
Doomed(tbl, rest) ==
    /\ "APISIX_REDIRECT" \in DOMAIN tbl
    /\ rest # <<>>
    /\ rest[1] = [op |-> "-N", chain |-> "APISIX_REDIRECT"]

\* The set-up in force, after the first done of its changes: rest is left of all.
UnderWay(tbl, rest, rules, all, done) ==
    /\ IsRest(rest, all)
    /\ done = Len(all) - Len(rest)
    /\ done >= 1 => "APISIX_REDIRECT" \in DOMAIN tbl
    /\ Added(tbl, rules, done - (Len(all) - Len(rules)))
    /\ \/ tbl["PREROUTING"] = <<Foreign>>
       \/ \E j \in 1..(done - (Len(all) - Len(rules))) : rules[j].chain = "PREROUTING"

\* What a clean-up has removed after done changes.
Removed(tbl, done) ==
    /\ done >= 1 => tbl["PREROUTING"] = <<Foreign>>
    /\ done >= 3 /\ "APISIX_INBOUND" \in DOMAIN tbl => tbl["APISIX_INBOUND"] = <<>>
    /\ done >= 4 => "APISIX_INBOUND" \notin DOMAIN tbl
    /\ done >= 5 => tbl["OUTPUT"] = <<>>
    /\ done >= 7 /\ "APISIX_REDIRECT" \in DOMAIN tbl => tbl["APISIX_REDIRECT"] = <<>>
    /\ done >= 8 => "APISIX_REDIRECT" \notin DOMAIN tbl
    /\ done >= 9 /\ "APISIX_INBOUND_REDIRECT" \in DOMAIN tbl =>
            tbl["APISIX_INBOUND_REDIRECT"] = <<>>
    /\ done >= 10 => "APISIX_INBOUND_REDIRECT" \notin DOMAIN tbl

Change == [op : {"-N", "-F", "-X"}, chain : Name]
            \cup [op : {"-A", "-D"}, chain : Name, rule : AnyRule]

StateOK ==
    /\ cfg \in Configs
    /\ todo \in Seq(Change)
    /\ command \in {"none", "iptables", "cleanup-iptables"}

Running ==
    /\ command = "none" => todo = <<>>
    /\ command = "iptables" =>
        \/ Doomed(table, todo)
        \/ \E done \in Nat : UnderWay(table, todo, Rules(cfg), BuildV4(Rules(cfg)), done)
    /\ command = "cleanup-iptables" =>
        /\ IsRest(todo, RemoveOldChains)
        /\ Removed(table, Len(RemoveOldChains) - Len(todo))

Ended ==
    command = "none" =>
        /\ outcome = [command |-> "iptables", how |-> "done"] =>
                Added(table, Rules(cfg), Len(Rules(cfg)))
        /\ outcome = [command |-> "cleanup-iptables", how |-> "done"] =>
                Removed(table, 10)

Inv ==
    /\ StateOK
    /\ Shape(table, Rules(cfg))
    /\ Bare(table)
    /\ Running
    /\ Ended
-----------------------------------------------------------------------------
(* The rules of a set-up.                                                  *)

ChainRule == [chain : Name, rule : AnyRule]

\* Every rule lets one of the ports go to the chain to, and every port is let.
PortsTo(s, chain, ports, to) ==
    /\ \A i \in DOMAIN s : \E e \in ports :
        s[i] = [chain |-> chain, rule |-> Rule("tcp", e, "any", to)]
    /\ \A e \in ports : \E i \in DOMAIN s :
        s[i] = [chain |-> chain, rule |-> Rule("tcp", e, "any", to)]

\* The rules of a list of ports.
LEMMA PerPortFacts ==
    ASSUME NEW chain \in Name, NEW ports \in Seq(Name), NEW to \in Name
    PROVE  /\ PerPort(chain, ports, to) \in Seq(ChainRule)
           /\ PortsTo(PerPort(chain, ports, to), chain, ToSet(ports) \ {NoPort}, to)
<1> DEFINE ps == Split(ports)
           s == PerPort(chain, ports, to)
<1>1. ps \in Seq(Name)
  BY KeepPicks DEF Split
<1>2. ToSet(ps) = ToSet(ports) \ {NoPort}
  <2>1. ToSet(Keep(ports, ToSet(ports) \ {NoPort})) = ToSet(ports) \cap (ToSet(ports) \ {NoPort})
    BY KeepSet
  <2> QED
    BY <2>1 DEF Split
<1>3. s = [i \in DOMAIN ps |-> [chain |-> chain, rule |-> Rule("tcp", ps[i], "any", to)]]
  BY DEF PerPort
<1> HIDE DEF ps, s
<1>4. DOMAIN ps = 1..Len(ps) /\ Len(ps) \in Nat /\ \A i \in DOMAIN ps : ps[i] \in Name
  BY <1>1
<1>5. \A e \in Name : [chain |-> chain, rule |-> Rule("tcp", e, "any", to)] \in ChainRule
  BY DEF ChainRule, AnyRule, Rule, Name
<1>6. s \in [1..Len(ps) -> ChainRule]
  BY <1>3, <1>4, <1>5
<1>7. s \in Seq(ChainRule)
  BY <1>4, <1>6
<1>8. \A e : e \in ToSet(ports) \ {NoPort} <=> \E i \in DOMAIN ps : e = ps[i]
  BY <1>2 DEF ToSet
<1>9. PortsTo(s, chain, ToSet(ports) \ {NoPort}, to)
  BY <1>3, <1>8 DEF PortsTo
<1> QED
  BY <1>7, <1>9 DEF s

\* The rules that choose among the packets of a chain: what InsertOutboundRules does, and
\* InsertInboundRules after its first rule.
ChoiceRules(include, exclude, chain, to) ==
    IF include = <<"*">>
    THEN PerPort(chain, exclude, "RETURN")
         \o <<[chain |-> chain, rule |-> Rule("tcp", "any", "any", to)]>>
    ELSE PerPort(chain, include, to)

\* Rule j of s lets go to the chain to only what is chosen: it is for a port of include,
\* or comes after those for the ports that are not to be chosen.
Leads(s, j, include, excluded, chain, to) ==
    \/ /\ include = <<"*">>
       /\ s[j].rule = Rule("tcp", "any", "any", to)
       /\ \A e \in excluded : \E k \in 1..(j - 1) :
            s[k] = [chain |-> chain, rule |-> Rule("tcp", e, "any", "RETURN")]
    \/ /\ include # <<"*">>
       /\ \E e \in ToSet(include) \ {NoPort} : s[j].rule = Rule("tcp", e, "any", to)

Returns(s, j, include, excluded) ==
    /\ include = <<"*">>
    /\ \E e \in excluded : s[j].rule = Rule("tcp", e, "any", "RETURN")

\* Everything that is chosen has a rule.
Provides(s, include, chain, to) ==
    /\ include = <<"*">> =>
        \E j \in DOMAIN s : s[j] = [chain |-> chain, rule |-> Rule("tcp", "any", "any", to)]
    /\ include # <<"*">> => \A e \in ToSet(include) \ {NoPort} :
        \E j \in DOMAIN s : s[j] = [chain |-> chain, rule |-> Rule("tcp", e, "any", to)]

Chooses(s, include, excluded, chain, to) ==
    /\ \A j \in DOMAIN s :
        /\ s[j].chain = chain
        /\ Leads(s, j, include, excluded, chain, to) \/ Returns(s, j, include, excluded)
    /\ Provides(s, include, chain, to)

LEMMA ChoiceFacts ==
    ASSUME NEW include \in Seq(Name), NEW exclude \in Seq(Name),
           NEW chain \in Name, NEW to \in Name
    PROVE  /\ ChoiceRules(include, exclude, chain, to) \in Seq(ChainRule)
           /\ Chooses(ChoiceRules(include, exclude, chain, to), include,
                      ToSet(exclude) \ {NoPort}, chain, to)
<1> DEFINE E == ToSet(exclude) \ {NoPort}
<1>1. CASE include # <<"*">>
  <2> DEFINE s == PerPort(chain, include, to)
             I == ToSet(include) \ {NoPort}
  <2>1. ChoiceRules(include, exclude, chain, to) = s
    BY <1>1 DEF ChoiceRules
  <2>2. s \in Seq(ChainRule) /\ PortsTo(s, chain, I, to)
    BY PerPortFacts
  <2> HIDE DEF s
  <2>3. \A j \in DOMAIN s : s[j].chain = chain /\ Leads(s, j, include, E, chain, to)
    <3> HIDE DEF I, E
    <3> TAKE j \in DOMAIN s
    <3>1. PICK e \in I : s[j] = [chain |-> chain, rule |-> Rule("tcp", e, "any", to)]
      BY <2>2 DEF PortsTo
    <3>2. s[j].chain = chain /\ s[j].rule = Rule("tcp", e, "any", to)
      BY <3>1
    <3> QED
      BY <1>1, <3>2 DEF Leads, I
  <2>4. Provides(s, include, chain, to)
    BY <1>1, <2>2 DEF PortsTo, Provides
  <2> QED
    BY <2>1, <2>2, <2>3, <2>4 DEF Chooses
<1>2. CASE include = <<"*">>
  <2> DEFINE a == PerPort(chain, exclude, "RETURN")
             r == [chain |-> chain, rule |-> Rule("tcp", "any", "any", to)]
             s == a \o <<r>>
  <2>1. ChoiceRules(include, exclude, chain, to) = s
    BY <1>2 DEF ChoiceRules
  <2>2. a \in Seq(ChainRule) /\ PortsTo(a, chain, E, "RETURN")
    <3>1. "RETURN" \in Name
      BY DEF Name
    <3> QED
      BY <3>1, PerPortFacts
  <2>3. r \in ChainRule /\ r.chain = chain /\ r.rule = Rule("tcp", "any", "any", to)
    BY DEF ChainRule, AnyRule, Rule, Name
  <2> HIDE DEF a, r, E
  <2>4. /\ s \in Seq(ChainRule)
        /\ Len(a) \in Nat
        /\ DOMAIN a = 1..Len(a)
        /\ DOMAIN s = 1..(Len(a) + 1)
        /\ \A i \in 1..Len(a) : s[i] = a[i]
        /\ s[Len(a) + 1] = r
    BY <2>2, <2>3
  <2> HIDE DEF s
  <2>5. ASSUME NEW j \in 1..Len(a)
        PROVE  s[j].chain = chain /\ Returns(s, j, include, E)
    BY <1>2, <2>2, <2>4 DEF PortsTo, Returns
  <2>6. Leads(s, Len(a) + 1, include, E, chain, to)
    BY <1>2, <2>2, <2>3, <2>4 DEF PortsTo, Leads
  <2>7. \A j \in DOMAIN s : j \in 1..Len(a) \/ j = Len(a) + 1
    BY <2>4
  <2>8. Provides(s, include, chain, to)
    BY <1>2, <2>3, <2>4 DEF Provides, r
  <2> QED
    BY <2>1, <2>3, <2>4, <2>5, <2>6, <2>7, <2>8 DEF Chooses, E
<1> QED
  BY <1>1, <1>2

\* The ports that are not to be chosen.
InboundExcluded(c) == ToSet(<<"22">> \o c.InboundPortsExclude) \ {NoPort}
OutboundExcluded(c) == ToSet(c.OutboundPortsExclude) \ {NoPort}

\* What the flags are.
LEMMA FlagFacts ==
    ASSUME NEW c \in Configs
    PROVE  /\ c.InboundPortsInclude \in Seq(Name) /\ c.InboundPortsExclude \in Seq(Name)
           /\ c.OutboundPortsInclude \in Seq(Name) /\ c.OutboundPortsExclude \in Seq(Name)
           /\ "any" \notin ToSet(c.InboundPortsInclude)
           /\ "any" \notin ToSet(c.OutboundPortsInclude)
           /\ "any" \notin ToSet(c.InboundPortsExclude)
           /\ "any" \notin ToSet(c.OutboundPortsExclude)
<1>1. \A s \in Seq(STRING) : s \in Seq(Name)
  <2>1. STRING \subseteq Name
    BY DEF Name
  <2> QED
    BY <2>1, SeqLarger
<1> DEFINE F == {"InboundPortsInclude", "InboundPortsExclude",
                 "OutboundPortsInclude", "OutboundPortsExclude"}
<1>2. c \in [F -> Seq(STRING)] /\ \A f \in DOMAIN c : "any" \notin ToSet(c[f])
  BY IptablesAssumption
<1>3. \A f \in F : c[f] \in Seq(STRING) /\ "any" \notin ToSet(c[f])
  BY <1>2
<1> QED
  BY <1>1, <1>3

\* What every set-up has, whatever its flags: the two redirections come first, then the
\* rules for what APISIX sends.
Begins(rules) ==
    /\ Len(rules) \in Nat /\ Len(rules) >= 4
    /\ rules[1] = [chain |-> "APISIX_REDIRECT", rule |-> Rule("tcp", "any", "any", "ProxyPort")]
    /\ rules[2] = [chain |-> "APISIX_INBOUND_REDIRECT",
                   rule |-> Rule("tcp", "any", "any", "InboundCapturePort")]
    /\ rules[3] = [chain |-> "OUTPUT", rule |-> Rule("any", "any", "uid_over_lo", "RETURN")]
    /\ rules[4] = [chain |-> "OUTPUT", rule |-> Rule("any", "any", "gid", "RETURN")]

LEMMA BeginsChains ==
    ASSUME NEW rules, Begins(rules)
    PROVE  /\ rules[1].chain = "APISIX_REDIRECT"
           /\ rules[1].rule = Rule("tcp", "any", "any", "ProxyPort")
           /\ rules[2].chain = "APISIX_INBOUND_REDIRECT"
           /\ rules[2].rule = Rule("tcp", "any", "any", "InboundCapturePort")
           /\ rules[3].chain = "OUTPUT"
           /\ rules[3].rule = Rule("any", "any", "uid_over_lo", "RETURN")
           /\ rules[4].chain = "OUTPUT"
           /\ rules[4].rule = Rule("any", "any", "gid", "RETURN")
BY DEF Begins

\* The rules after those, by their chain.
InboundRuleAt(rules, c, j) ==
    \/ Leads(rules, j, c.InboundPortsInclude, InboundExcluded(c),
             "APISIX_INBOUND", "APISIX_INBOUND_REDIRECT")
    \/ Returns(rules, j, c.InboundPortsInclude, InboundExcluded(c))

OutboundRuleAt(rules, c, j) ==
    \/ Leads(rules, j, c.OutboundPortsInclude, OutboundExcluded(c),
             "OUTPUT", "APISIX_REDIRECT")
    \/ Returns(rules, j, c.OutboundPortsInclude, OutboundExcluded(c))

RuleAt(rules, c, j) ==
    \/ /\ rules[j].chain = "PREROUTING"
       /\ rules[j].rule = Jump
       /\ c.InboundPortsInclude # <<>>
    \/ /\ rules[j].chain = "APISIX_INBOUND"
       /\ c.InboundPortsInclude # <<>>
       /\ InboundRuleAt(rules, c, j)
    \/ rules[j].chain = "OUTPUT" /\ OutboundRuleAt(rules, c, j)

OneJump(rules) ==
    \A i, j \in DOMAIN rules :
        rules[i].chain = "PREROUTING" /\ rules[j].chain = "PREROUTING" => i = j

\* What the rules of c are.
AreRules(rules, c) ==
    /\ rules \in Seq(ChainRule)
    /\ Begins(rules)
    /\ \A j \in 5..Len(rules) : RuleAt(rules, c, j)
    /\ OneJump(rules)
    /\ c.InboundPortsInclude # <<>> =>
        /\ \E j \in DOMAIN rules : rules[j] = [chain |-> "PREROUTING", rule |-> Jump]
        /\ Provides(rules, c.InboundPortsInclude, "APISIX_INBOUND", "APISIX_INBOUND_REDIRECT")
    /\ Provides(rules, c.OutboundPortsInclude, "OUTPUT", "APISIX_REDIRECT")

\* What a part of the rules provides, the whole does.
LEMMA ProvidesMore ==
    ASSUME NEW s, NEW t, NEW n \in Nat, NEW include, NEW chain, NEW to,
           Provides(s, include, chain, to),
           \A j \in DOMAIN s : j + n \in DOMAIN t /\ t[j + n] = s[j]
    PROVE  Provides(t, include, chain, to)
BY DEF Provides

\* Where a part of the rules leads, it leads as part of the whole.
LEMMA LeadsMore ==
    ASSUME NEW s, NEW t, NEW n \in Nat, NEW j \in Nat, NEW include, NEW excluded,
           NEW chain, NEW to, DOMAIN s = 1..Len(s), Len(s) \in Nat, j \in DOMAIN s,
           \A i \in DOMAIN s : t[i + n] = s[i]
    PROVE  /\ Leads(s, j, include, excluded, chain, to) =>
                Leads(t, j + n, include, excluded, chain, to)
           /\ Returns(s, j, include, excluded) => Returns(t, j + n, include, excluded)
<1>1. ASSUME Returns(s, j, include, excluded) PROVE Returns(t, j + n, include, excluded)
  BY <1>1 DEF Returns
<1>2. ASSUME Leads(s, j, include, excluded, chain, to), include # <<"*">>
      PROVE  Leads(t, j + n, include, excluded, chain, to)
  BY <1>2 DEF Leads
<1>3. ASSUME Leads(s, j, include, excluded, chain, to), include = <<"*">>
      PROVE  Leads(t, j + n, include, excluded, chain, to)
  <2>1. ASSUME NEW e \in excluded
        PROVE  \E k \in 1..((j + n) - 1) :
                 t[k] = [chain |-> chain, rule |-> Rule("tcp", e, "any", "RETURN")]
    <3>1. PICK k \in 1..(j - 1) :
            s[k] = [chain |-> chain, rule |-> Rule("tcp", e, "any", "RETURN")]
      BY <1>3 DEF Leads
    <3>2. k \in DOMAIN s /\ k + n \in 1..((j + n) - 1)
      OBVIOUS
    <3> QED
      BY <3>1, <3>2
  <2>2. t[j + n].rule = Rule("tcp", "any", "any", to)
    BY <1>3 DEF Leads
  <2> QED
    BY <1>3, <2>1, <2>2 DEF Leads
<1> QED
  BY <1>1, <1>2, <1>3

\* s stands in t after the first n.
PartOf(s, t, n) ==
    \A i \in DOMAIN s : i + n \in DOMAIN t /\ t[i + n] = s[i]

LEMMA PartsOfConcat ==
    ASSUME NEW X, NEW a \in Seq(X), NEW b \in Seq(X)
    PROVE  /\ a \o b \in Seq(X)
           /\ Len(a \o b) = Len(a) + Len(b)
           /\ PartOf(a, a \o b, 0)
           /\ PartOf(b, a \o b, Len(a))
BY DEF PartOf

LEMMA PartTrans ==
    ASSUME NEW X, NEW a, NEW b, NEW c, NEW m \in Nat, NEW n \in Nat,
           DOMAIN a \subseteq Nat, PartOf(a, b, m), PartOf(b, c, n)
    PROVE  PartOf(a, c, m + n)
BY DEF PartOf

\* The rules for the inbound ports, if there are any.
LEMMA InboundFacts ==
    ASSUME NEW c \in Configs
    PROVE  LET s == InsertInboundRules(c)
           IN  /\ s \in Seq(ChainRule)
               /\ c.InboundPortsInclude = <<>> => s = <<>>
               /\ c.InboundPortsInclude # <<>> =>
                    /\ s # <<>>
                    /\ s[1] = [chain |-> "PREROUTING", rule |-> Jump]
                    /\ \A j \in 2..Len(s) :
                        s[j].chain = "APISIX_INBOUND" /\ InboundRuleAt(s, c, j)
                    /\ Provides(s, c.InboundPortsInclude, "APISIX_INBOUND",
                                "APISIX_INBOUND_REDIRECT")
<1> DEFINE s == InsertInboundRules(c)
           jump == [chain |-> "PREROUTING", rule |-> Jump]
           ssh == <<"22">> \o c.InboundPortsExclude
           ch == ChoiceRules(c.InboundPortsInclude, ssh, "APISIX_INBOUND",
                             "APISIX_INBOUND_REDIRECT")
<1>1. CASE c.InboundPortsInclude = <<>>
  BY <1>1 DEF InsertInboundRules
<1>2. CASE c.InboundPortsInclude # <<>>
  <2>1. s = <<jump>> \o ch
    BY <1>2 DEF InsertInboundRules, ChoiceRules, Jump
  <2>2. /\ ch \in Seq(ChainRule)
        /\ Chooses(ch, c.InboundPortsInclude, InboundExcluded(c), "APISIX_INBOUND",
                   "APISIX_INBOUND_REDIRECT")
    <3>1. "22" \in Name /\ "APISIX_INBOUND" \in Name /\ "APISIX_INBOUND_REDIRECT" \in Name
      BY DEF Name, AgentChain
    <3>2. ssh \in Seq(Name)
      BY <3>1, FlagFacts
    <3>3. InboundExcluded(c) = ToSet(ssh) \ {NoPort}
      BY DEF InboundExcluded
    <3>4. c.InboundPortsInclude \in Seq(Name)
      BY FlagFacts
    <3> HIDE DEF ssh
    <3>5. /\ ch \in Seq(ChainRule)
          /\ Chooses(ch, c.InboundPortsInclude, ToSet(ssh) \ {NoPort}, "APISIX_INBOUND",
                     "APISIX_INBOUND_REDIRECT")
      BY <3>1, <3>2, <3>4, ChoiceFacts
    <3> HIDE DEF ch
    <3> QED
      BY <3>3, <3>5
  <2>3. jump \in ChainRule
    BY DEF ChainRule, AnyRule, Rule, Name, Jump, BuiltinChain, AgentChain
  <2> HIDE DEF ch, jump
  <2>4. <<jump>> \in Seq(ChainRule) /\ Len(<<jump>>) = 1
    BY <2>3
  <2>5. /\ s \in Seq(ChainRule)
        /\ Len(s) = 1 + Len(ch)
        /\ PartOf(ch, s, 1)
    BY <2>1, <2>2, <2>4, PartsOfConcat
  <2>6. s[1] = jump
    BY <2>1, <2>2, <2>3
  <2> HIDE DEF s
  <2>7. ASSUME NEW j \in 2..Len(s)
        PROVE  s[j].chain = "APISIX_INBOUND" /\ InboundRuleAt(s, c, j)
    <3> DEFINE i == j - 1
    <3>1. i \in DOMAIN ch /\ i \in Nat /\ j = i + 1
      BY <2>2, <2>5
    <3> HIDE DEF i
    <3>2. s[j] = ch[i]
      BY <2>5, <3>1 DEF PartOf
    <3>3. /\ ch[i].chain = "APISIX_INBOUND"
          /\ InboundRuleAt(ch, c, i)
      BY <2>2, <3>1 DEF Chooses, InboundRuleAt
    <3>4. DOMAIN ch = 1..Len(ch) /\ Len(ch) \in Nat /\ \A k \in DOMAIN ch : s[k + 1] = ch[k]
      BY <2>2, <2>5 DEF PartOf
    <3>5. InboundRuleAt(s, c, i + 1)
      <4>1. /\ Leads(ch, i, c.InboundPortsInclude, InboundExcluded(c),
                     "APISIX_INBOUND", "APISIX_INBOUND_REDIRECT") =>
                Leads(s, i + 1, c.InboundPortsInclude, InboundExcluded(c),
                     "APISIX_INBOUND", "APISIX_INBOUND_REDIRECT")
            /\ Returns(ch, i, c.InboundPortsInclude, InboundExcluded(c)) =>
                Returns(s, i + 1, c.InboundPortsInclude, InboundExcluded(c))
        BY <3>1, <3>4, LeadsMore
      <4> QED
        BY <3>3, <4>1 DEF InboundRuleAt
    <3> QED
      BY <3>1, <3>2, <3>3, <3>5
  <2>8. Provides(s, c.InboundPortsInclude, "APISIX_INBOUND", "APISIX_INBOUND_REDIRECT")
    <3>1. Provides(ch, c.InboundPortsInclude, "APISIX_INBOUND", "APISIX_INBOUND_REDIRECT")
      BY <2>2 DEF Chooses
    <3>2. \A k \in DOMAIN ch : k + 1 \in DOMAIN s /\ s[k + 1] = ch[k]
      BY <2>5 DEF PartOf
    <3> QED
      BY <3>1, <3>2, ProvidesMore
  <2>9. s # <<>>
    BY <2>2, <2>5
  <2> QED
    BY <1>2, <2>5, <2>6, <2>7, <2>8, <2>9 DEF s, jump
<1> QED
  BY <1>1, <1>2

\* The rules for the outbound ports.
LEMMA OutboundFacts ==
    ASSUME NEW c \in Configs
    PROVE  LET s == InsertOutboundRules(c)
           IN  /\ s \in Seq(ChainRule)
               /\ \A j \in DOMAIN s : s[j].chain = "OUTPUT" /\ OutboundRuleAt(s, c, j)
               /\ Provides(s, c.OutboundPortsInclude, "OUTPUT", "APISIX_REDIRECT")
<1> DEFINE ch == ChoiceRules(c.OutboundPortsInclude, c.OutboundPortsExclude, "OUTPUT",
                             "APISIX_REDIRECT")
<1>1. InsertOutboundRules(c) = ch
  BY DEF InsertOutboundRules, ChoiceRules
<1>2. "OUTPUT" \in Name /\ "APISIX_REDIRECT" \in Name
  BY DEF Name, BuiltinChain, AgentChain
<1>3. c.OutboundPortsInclude \in Seq(Name) /\ c.OutboundPortsExclude \in Seq(Name)
  BY FlagFacts
<1>4. /\ ch \in Seq(ChainRule)
      /\ Chooses(ch, c.OutboundPortsInclude, OutboundExcluded(c), "OUTPUT", "APISIX_REDIRECT")
  BY <1>2, <1>3, ChoiceFacts DEF OutboundExcluded
<1> HIDE DEF ch
<1> QED
  BY <1>1, <1>4 DEF Chooses, OutboundRuleAt

\* What Rules makes of the flags.
LEMMA RulesAre ==
    ASSUME NEW c \in Configs
    PROVE  AreRules(Rules(c), c)
<1> DEFINE a == RedirectRules \o InsertSkipRules
           in == InsertInboundRules(c)
           out == InsertOutboundRules(c)
           b == a \o in
           s == b \o out
<1>1. Rules(c) = s
  BY DEF Rules
<1>2. /\ a \in Seq(ChainRule)
      /\ Len(a) = 4
      /\ Begins(a)
  <2> DEFINE r1 == [chain |-> "APISIX_REDIRECT",
                    rule |-> Rule("tcp", "any", "any", "ProxyPort")]
             r2 == [chain |-> "APISIX_INBOUND_REDIRECT",
                    rule |-> Rule("tcp", "any", "any", "InboundCapturePort")]
             r3 == [chain |-> "OUTPUT", rule |-> Rule("any", "any", "uid_over_lo", "RETURN")]
             r4 == [chain |-> "OUTPUT", rule |-> Rule("any", "any", "gid", "RETURN")]
  <2>1. r1 \in ChainRule /\ r2 \in ChainRule /\ r3 \in ChainRule /\ r4 \in ChainRule
    BY DEF ChainRule, AnyRule, Rule, Name, BuiltinChain, AgentChain
  <2>2. a = <<r1, r2>> \o <<r3, r4>>
    BY DEF RedirectRules, InsertSkipRules
  <2>3. Begins(a) <=> /\ Len(a) \in Nat /\ Len(a) >= 4
                      /\ a[1] = r1 /\ a[2] = r2 /\ a[3] = r3 /\ a[4] = r4
    BY DEF Begins
  <2> HIDE DEF a, r1, r2, r3, r4
  <2>4. <<r1, r2>> \in Seq(ChainRule) /\ <<r3, r4>> \in Seq(ChainRule)
    BY <2>1
  <2> DEFINE x == <<r1, r2>>
             y == <<r3, r4>>
  <2>5. x[1] = r1 /\ x[2] = r2 /\ y[1] = r3 /\ y[2] = r4 /\ Len(x) = 2 /\ Len(y) = 2
    OBVIOUS
  <2>6. a = x \o y /\ x \in Seq(ChainRule) /\ y \in Seq(ChainRule)
    BY <2>2, <2>4
  <2> HIDE DEF x, y
  <2>7. /\ a \in Seq(ChainRule) /\ Len(a) = 4
        /\ a[1] = x[1] /\ a[2] = x[2] /\ a[3] = y[1] /\ a[4] = y[2]
    <3>1. /\ a \in Seq(ChainRule) /\ Len(a) = 4
          /\ PartOf(x, a, 0) /\ PartOf(y, a, 2)
      <4>1. /\ x \o y \in Seq(ChainRule) /\ Len(x \o y) = Len(x) + Len(y)
            /\ PartOf(x, x \o y, 0) /\ PartOf(y, x \o y, Len(x))
        BY <2>6, PartsOfConcat
      <4>2. Len(x) + Len(y) = 4
        BY <2>5
      <4>3. PartOf(y, a, Len(x)) <=> PartOf(y, a, 2)
        BY <2>5
      <4> QED
        BY <2>6, <4>1, <4>2, <4>3
    <3>2. 1 \in DOMAIN x /\ 2 \in DOMAIN x /\ 1 \in DOMAIN y /\ 2 \in DOMAIN y
      BY <2>5, <2>6
    <3>3. a[1 + 0] = x[1] /\ a[2 + 0] = x[2] /\ a[1 + 2] = y[1] /\ a[2 + 2] = y[2]
      BY <3>1, <3>2 DEF PartOf
    <3> QED
      BY <3>1, <3>3
  <2> QED
    BY <2>3, <2>5, <2>7
<1>3. in \in Seq(ChainRule)
  BY InboundFacts
<1>4. out \in Seq(ChainRule)
  BY OutboundFacts
<1> HIDE DEF a, in, out
<1>5. b \in Seq(ChainRule) /\ Len(b) = 4 + Len(in) /\ PartOf(a, b, 0) /\ PartOf(in, b, 4)
  BY <1>2, <1>3, PartsOfConcat
<1> HIDE DEF b
<1>6. /\ s \in Seq(ChainRule)
      /\ Len(s) = Len(b) + Len(out)
      /\ PartOf(b, s, 0)
      /\ PartOf(out, s, Len(b))
  BY <1>4, <1>5, PartsOfConcat
<1> HIDE DEF s
<1> DEFINE n == Len(in)
<1>7. n \in Nat /\ Len(b) = 4 + n /\ Len(s) = (4 + n) + Len(out) /\ Len(out) \in Nat
  BY <1>3, <1>4, <1>5, <1>6
<1> HIDE DEF n
<1>8. /\ \A i \in 1..4 : s[i] = a[i]
      /\ \A i \in 1..n : i + 4 \in DOMAIN s /\ s[i + 4] = in[i]
      /\ \A i \in 1..Len(out) : i + (4 + n) \in DOMAIN s /\ s[i + (4 + n)] = out[i]
  <2>1. DOMAIN a = 1..4 /\ DOMAIN in = 1..n /\ DOMAIN out = 1..Len(out) /\ DOMAIN b = 1..(4 + n)
    BY <1>2, <1>3, <1>4, <1>5, <1>7 DEF n
  <2> QED
    <3>1. /\ \A i \in 1..4 : b[i + 0] = a[i]
          /\ \A i \in 1..n : i + 4 \in 1..(4 + n) /\ b[i + 4] = in[i]
          /\ \A i \in 1..(4 + n) : i + 0 \in DOMAIN s /\ s[i + 0] = b[i]
          /\ \A i \in 1..Len(out) : i + Len(b) \in DOMAIN s /\ s[i + Len(b)] = out[i]
      BY <2>1, <1>5, <1>6 DEF PartOf
    <3>2. \A i \in 1..(4 + n) : i \in DOMAIN s /\ s[i] = b[i]
      BY <3>1, <1>7
    <3>3. \A i \in 1..4 : i \in 1..(4 + n) /\ b[i] = a[i]
      BY <3>1, <1>7
    <3>4. \A i \in 1..4 : s[i] = a[i]
      BY <3>2, <3>3
    <3>5. \A i \in 1..n : i + 4 \in DOMAIN s /\ s[i + 4] = in[i]
      BY <3>1, <3>2
    <3> QED
      BY <3>1, <3>4, <3>5, <1>7
<1>9. Begins(s)
  <2>1. s[1] = a[1] /\ s[2] = a[2] /\ s[3] = a[3] /\ s[4] = a[4]
    BY <1>8
  <2>2. Len(s) \in Nat /\ Len(s) >= 4
    BY <1>7
  <2> QED
    BY <1>2, <2>1, <2>2 DEF Begins
<1>10. ASSUME NEW j \in 5..(4 + n)
       PROVE  /\ RuleAt(s, c, j)
              /\ s[j].chain = (IF j = 5 THEN "PREROUTING" ELSE "APISIX_INBOUND")
  <2> DEFINE i == j - 4
  <2>1. i \in Nat /\ i \in 1..n /\ j = i + 4 /\ in # <<>>
    BY <1>3, <1>7 DEF n
  <2> HIDE DEF i
  <2>2. s[j] = in[i]
    BY <1>8, <2>1
  <2>3. c.InboundPortsInclude # <<>>
    BY <2>1, InboundFacts DEF in
  <2>4. CASE j = 5
    <3>1. in[1] = [chain |-> "PREROUTING", rule |-> Jump]
      BY <2>3, InboundFacts DEF in
    <3>2. s[j] = [chain |-> "PREROUTING", rule |-> Jump]
      BY <2>1, <2>2, <2>4, <3>1
    <3> QED
      BY <2>3, <2>4, <3>2 DEF RuleAt
  <2>5. CASE j # 5
    <3>1. i \in 2..Len(in)
      BY <2>1, <2>5 DEF n
    <3>2. in[i].chain = "APISIX_INBOUND" /\ InboundRuleAt(in, c, i)
      BY <2>3, <3>1, InboundFacts DEF in
    <3>3. DOMAIN in = 1..Len(in) /\ Len(in) \in Nat /\ \A k \in DOMAIN in : s[k + 4] = in[k]
      BY <1>3, <1>8 DEF n
    <3>4. i \in DOMAIN in
      BY <3>1, <3>3
    <3>5. /\ Leads(in, i, c.InboundPortsInclude, InboundExcluded(c),
                   "APISIX_INBOUND", "APISIX_INBOUND_REDIRECT") =>
              Leads(s, i + 4, c.InboundPortsInclude, InboundExcluded(c),
                   "APISIX_INBOUND", "APISIX_INBOUND_REDIRECT")
          /\ Returns(in, i, c.InboundPortsInclude, InboundExcluded(c)) =>
              Returns(s, i + 4, c.InboundPortsInclude, InboundExcluded(c))
      BY <2>1, <3>3, <3>4, LeadsMore
    <3>6. InboundRuleAt(s, c, j)
      BY <2>1, <3>2, <3>5 DEF InboundRuleAt
    <3>7. s[j].chain = "APISIX_INBOUND"
      BY <2>2, <3>2
    <3> QED
      BY <2>3, <2>5, <3>6, <3>7 DEF RuleAt
  <2> QED
    BY <2>4, <2>5
<1>11. ASSUME NEW j \in (5 + n)..Len(s)
       PROVE  RuleAt(s, c, j) /\ s[j].chain = "OUTPUT"
  <2> DEFINE i == j - (4 + n)
  <2>1. i \in Nat /\ i \in 1..Len(out) /\ j = i + (4 + n) /\ i \in DOMAIN out
    BY <1>4, <1>7
  <2> HIDE DEF i
  <2>2. s[j] = out[i]
    BY <1>8, <2>1
  <2>3. out[i].chain = "OUTPUT" /\ OutboundRuleAt(out, c, i)
    BY <2>1, OutboundFacts DEF out
  <2>4. /\ DOMAIN out = 1..Len(out) /\ Len(out) \in Nat /\ 4 + n \in Nat
        /\ \A k \in DOMAIN out : s[k + (4 + n)] = out[k]
    <3>1. DOMAIN out = 1..Len(out)
      BY <1>4
    <3> QED
      BY <3>1, <1>7, <1>8
  <2> DEFINE m == 4 + n
  <2>5. m \in Nat /\ (\A k \in DOMAIN out : s[k + m] = out[k]) /\ j = i + m
    BY <2>1, <2>4
  <2> HIDE DEF m
  <2>6. /\ Leads(out, i, c.OutboundPortsInclude, OutboundExcluded(c),
                 "OUTPUT", "APISIX_REDIRECT") =>
            Leads(s, i + m, c.OutboundPortsInclude, OutboundExcluded(c),
                 "OUTPUT", "APISIX_REDIRECT")
        /\ Returns(out, i, c.OutboundPortsInclude, OutboundExcluded(c)) =>
            Returns(s, i + m, c.OutboundPortsInclude, OutboundExcluded(c))
    BY <2>1, <2>4, <2>5, LeadsMore
  <2>7. OutboundRuleAt(s, c, j)
    BY <2>3, <2>5, <2>6 DEF OutboundRuleAt
  <2>8. s[j].chain = "OUTPUT"
    BY <2>2, <2>3
  <2> QED
    BY <2>7, <2>8 DEF RuleAt
<1>12. \A j \in 5..Len(s) : RuleAt(s, c, j)
  <2>1. \A j \in 5..Len(s) : j \in 5..(4 + n) \/ j \in (5 + n)..Len(s)
    BY <1>7
  <2> QED
    BY <2>1, <1>10, <1>11
<1>13. OneJump(s)
  <2>1. ASSUME NEW j \in DOMAIN s, s[j].chain = "PREROUTING" PROVE j = 5
    <3>1. j \in 1..4 \/ j \in 5..(4 + n) \/ j \in (5 + n)..Len(s)
      BY <1>6, <1>7
    <3>2. j \notin 1..4
      <4>1. /\ s[1].chain # "PREROUTING" /\ s[2].chain # "PREROUTING"
            /\ s[3].chain # "PREROUTING" /\ s[4].chain # "PREROUTING"
        BY <1>9, BeginsChains
      <4>2. ASSUME j \in 1..4 PROVE j = 1 \/ j = 2 \/ j = 3 \/ j = 4
        BY <4>2
      <4> QED
        BY <2>1, <4>1, <4>2
    <3>3. j \notin (5 + n)..Len(s)
      BY <1>11, <2>1
    <3> QED
      BY <2>1, <3>1, <3>2, <3>3, <1>10
  <2> QED
    BY <2>1 DEF OneJump
<1>14. ASSUME c.InboundPortsInclude # <<>>
       PROVE  /\ \E j \in DOMAIN s : s[j] = [chain |-> "PREROUTING", rule |-> Jump]
              /\ Provides(s, c.InboundPortsInclude, "APISIX_INBOUND", "APISIX_INBOUND_REDIRECT")
  <2>1. /\ in # <<>>
        /\ in[1] = [chain |-> "PREROUTING", rule |-> Jump]
        /\ Provides(in, c.InboundPortsInclude, "APISIX_INBOUND", "APISIX_INBOUND_REDIRECT")
    BY <1>14, InboundFacts DEF in
  <2>2. DOMAIN in = 1..n /\ 1 \in 1..n
    BY <1>3, <2>1 DEF n
  <2>3. 1 + 4 \in DOMAIN s /\ s[1 + 4] = in[1]
    BY <1>8, <2>2
  <2>4. \A k \in DOMAIN in : k + 4 \in DOMAIN s /\ s[k + 4] = in[k]
    BY <1>8, <2>2
  <2>5. Provides(s, c.InboundPortsInclude, "APISIX_INBOUND", "APISIX_INBOUND_REDIRECT")
    BY <2>1, <2>4, ProvidesMore
  <2> QED
    BY <2>1, <2>3, <2>5
<1>15. Provides(s, c.OutboundPortsInclude, "OUTPUT", "APISIX_REDIRECT")
  <2> DEFINE m == 4 + n
  <2>1. m \in Nat /\ \A k \in DOMAIN out : k + m \in DOMAIN s /\ s[k + m] = out[k]
    BY <1>4, <1>7, <1>8
  <2>2. Provides(out, c.OutboundPortsInclude, "OUTPUT", "APISIX_REDIRECT")
    BY OutboundFacts DEF out
  <2> HIDE DEF m
  <2> QED
    BY <2>1, <2>2, ProvidesMore
<1> QED
  BY <1>1, <1>6, <1>9, <1>12, <1>13, <1>14, <1>15 DEF AreRules

\* What BuildV4 makes of rules: first it makes chains that they name, and the chain of
\* the first rule before all others; then it appends them.
IsBuild(all, rules) ==
    /\ all \in Seq(Change)
    /\ Len(all) - Len(rules) \in Nat
    /\ Len(all) - Len(rules) >= 1
    /\ all[1] = [op |-> "-N", chain |-> "APISIX_REDIRECT"]
    /\ \A i \in 1..(Len(all) - Len(rules)) : \E j \in DOMAIN rules :
        rules[j].chain \notin BuiltinChain /\ all[i] = [op |-> "-N", chain |-> rules[j].chain]
    /\ \A j \in 1..Len(rules) :
        all[j + (Len(all) - Len(rules))] =
            [op |-> "-A", chain |-> rules[j].chain, rule |-> rules[j].rule]

LEMMA BuildFacts ==
    ASSUME NEW rules \in Seq(ChainRule), Begins(rules)
    PROVE  IsBuild(BuildV4(rules), rules)
<1> DEFINE first == {i \in DOMAIN rules :
                       /\ rules[i].chain \notin BuiltinChain
                       /\ \A j \in 1..(i - 1) : rules[j].chain # rules[i].chain}
           idx == [i \in DOMAIN rules |-> i]
           firsts == Keep(idx, first)
           a == [i \in DOMAIN firsts |-> [op |-> "-N", chain |-> rules[firsts[i]].chain]]
           b == [i \in DOMAIN rules |->
                   [op |-> "-A", chain |-> rules[i].chain, rule |-> rules[i].rule]]
<1>1. BuildV4(rules) = a \o b
  BY DEF BuildV4
<1>2. /\ DOMAIN rules = 1..Len(rules) /\ Len(rules) \in Nat
      /\ \A i \in DOMAIN rules : rules[i].chain \in Name /\ rules[i].rule \in AnyRule
  <2>1. DOMAIN rules = 1..Len(rules) /\ Len(rules) \in Nat
    OBVIOUS
  <2>2. \A i \in DOMAIN rules : rules[i] \in ChainRule
    OBVIOUS
  <2>3. \A r \in ChainRule : r.chain \in Name /\ r.rule \in AnyRule
    BY DEF ChainRule
  <2> QED
    BY <2>1, <2>2, <2>3
<1>3. idx \in Seq(Nat) /\ Len(idx) = Len(rules) /\ \A i \in 1..Len(rules) : idx[i] = i
  BY <1>2
<1>4. 1 \in first /\ first \subseteq 1..Len(rules)
  <2>1. rules[1].chain = "APISIX_REDIRECT" /\ Len(rules) >= 4
    BY BeginsChains DEF Begins
  <2>2. 1 \in DOMAIN rules
    BY <2>1, <1>2
  <2>3. rules[1].chain \notin BuiltinChain
    BY <2>1 DEF BuiltinChain
  <2> QED
    BY <1>2, <2>2, <2>3
<1>5. \A i \in first : rules[i].chain \notin BuiltinChain
  OBVIOUS
<1> HIDE DEF idx, first
<1>6. firsts \in Seq(Nat)
  BY <1>3, KeepPicks
<1>7. PICK h : Picks(idx, first, Len(idx), firsts, h)
  BY <1>3, KeepPicks
<1> HIDE DEF firsts
<1>8. /\ Len(firsts) \in Nat /\ DOMAIN firsts = 1..Len(firsts)
      /\ h \in [1..Len(firsts) -> 1..Len(rules)]
      /\ \A k \in 1..Len(firsts) : firsts[k] = h[k] /\ h[k] \in first
      /\ \A k, l \in 1..Len(firsts) : k < l => h[k] < h[l]
      /\ \A j \in 1..Len(rules) : j \in first => \E k \in 1..Len(firsts) : h[k] = j
  <2>1. \A k \in 1..Len(firsts) : h[k] \in 1..Len(rules)
    BY <1>3, <1>7 DEF Picks
  <2>2. \A k \in 1..Len(firsts) : idx[h[k]] = h[k]
    BY <1>3, <2>1
  <2>3. Len(firsts) \in Nat /\ DOMAIN firsts = 1..Len(firsts)
    BY <1>6
  <2>4. h \in [1..Len(firsts) -> 1..Len(rules)]
    BY <1>3, <1>7 DEF Picks
  <2>5. \A k \in 1..Len(firsts) : firsts[k] = h[k] /\ h[k] \in first
    BY <1>7, <2>2 DEF Picks
  <2>6. \A k, l \in 1..Len(firsts) : k < l => h[k] < h[l]
    BY <1>7 DEF Picks
  <2>7. \A j \in 1..Len(rules) : j \in first => \E k \in 1..Len(firsts) : h[k] = j
    BY <1>3, <1>7 DEF Picks
  <2> QED
    BY <2>3, <2>4, <2>5, <2>6, <2>7
<1>9. Len(firsts) >= 1 /\ firsts[1] = 1
  <2>1. PICK k \in 1..Len(firsts) : h[k] = 1
    BY <1>4, <1>8
  <2>2. h[1] \in 1..Len(rules) /\ 1 \in 1..Len(firsts)
    BY <1>8
  <2>3. k = 1
    BY <1>8, <2>1, <2>2
  <2> QED
    BY <1>8, <2>1, <2>3
<1>10. \A k \in 1..Len(firsts) :
         /\ firsts[k] \in DOMAIN rules
         /\ rules[firsts[k]].chain \in Name
         /\ rules[firsts[k]].chain \notin BuiltinChain
  BY <1>2, <1>5, <1>8
<1>11. a \in Seq(Change) /\ Len(a) = Len(firsts)
  <2>1. a \in [1..Len(firsts) -> Change]
    BY <1>8, <1>10 DEF Change
  <2> QED
    BY <1>8, <2>1
<1>12. b \in Seq(Change) /\ Len(b) = Len(rules)
  <2>1. b \in [1..Len(rules) -> Change]
    BY <1>2 DEF Change
  <2> QED
    BY <1>2, <2>1
<1>13. /\ \A i \in 1..Len(firsts) : a[i] = [op |-> "-N", chain |-> rules[firsts[i]].chain]
       /\ \A i \in 1..Len(rules) :
            b[i] = [op |-> "-A", chain |-> rules[i].chain, rule |-> rules[i].rule]
  BY <1>2, <1>8
<1>14. a[1] = [op |-> "-N", chain |-> "APISIX_REDIRECT"]
  BY <1>8, <1>9, <1>13, BeginsChains
<1> HIDE DEF a, b
<1> DEFINE s == a \o b
<1>15. s \in Seq(Change) /\ Len(s) = Len(a) + Len(b) /\ PartOf(a, s, 0) /\ PartOf(b, s, Len(a))
  BY <1>11, <1>12, PartsOfConcat
<1> HIDE DEF s
<1> DEFINE m == Len(s) - Len(rules)
<1>16. m = Len(firsts) /\ m \in Nat /\ m >= 1
  BY <1>8, <1>9, <1>11, <1>12, <1>15, <1>2
<1>17. DOMAIN a = 1..m /\ DOMAIN b = 1..Len(rules)
  BY <1>11, <1>12, <1>16
<1>18. \A i \in 1..m : s[i] = a[i]
  <2>1. \A i \in 1..m : s[i + 0] = a[i]
    BY <1>15, <1>17 DEF PartOf
  <2> QED
    BY <2>1, <1>16
<1>19. \A i \in 1..Len(rules) : s[i + m] = b[i]
  BY <1>11, <1>15, <1>16, <1>17 DEF PartOf
<1> HIDE DEF m
<1>20. \A i \in 1..m : \E j \in DOMAIN rules :
        rules[j].chain \notin BuiltinChain /\ s[i] = [op |-> "-N", chain |-> rules[j].chain]
  BY <1>10, <1>13, <1>16, <1>18
<1>21. s[1] = [op |-> "-N", chain |-> "APISIX_REDIRECT"]
  BY <1>14, <1>16, <1>18
<1>22. BuildV4(rules) = s
  BY <1>1 DEF s
<1> QED
  BY <1>13, <1>15, <1>16, <1>19, <1>20, <1>21, <1>22 DEF IsBuild, m

\* Which chain may lead where.
Targets(rules) ==
    \A j \in DOMAIN rules :
        /\ rules[j].chain \in BuiltinChain \cup AgentChain
        /\ rules[j].rule \in AnyRule
        /\ rules[j].rule.to \notin BuiltinChain
        /\ rules[j].rule.to = "APISIX_INBOUND" => rules[j].chain = "PREROUTING"
        /\ rules[j].rule.to = "APISIX_REDIRECT" => rules[j].chain = "OUTPUT"
        /\ rules[j].rule.to = "APISIX_INBOUND_REDIRECT" => rules[j].chain = "APISIX_INBOUND"
        /\ rules[j].chain = "PREROUTING" => rules[j].rule = Jump
        /\ rules[j].chain = "APISIX_INBOUND_REDIRECT" => j = 2

\* Where the rules of a choice go.
LEMMA ChoiceTo ==
    ASSUME NEW s, NEW j, NEW include, NEW excluded, NEW chain, NEW to,
           Leads(s, j, include, excluded, chain, to) \/ Returns(s, j, include, excluded)
    PROVE  s[j].rule.to = to \/ s[j].rule.to = "RETURN"
<1>1. \/ \E e : s[j].rule = Rule("tcp", e, "any", to)
      \/ \E e : s[j].rule = Rule("tcp", e, "any", "RETURN")
  BY DEF Leads, Returns
<1>2. \A e : Rule("tcp", e, "any", to).to = to /\ Rule("tcp", e, "any", "RETURN").to = "RETURN"
  BY DEF Rule
<1> QED
  BY <1>1, <1>2

LEMMA RulesTargets ==
    ASSUME NEW c, NEW rules, AreRules(rules, c)
    PROVE  Targets(rules)
<1> SUFFICES ASSUME NEW j \in DOMAIN rules
             PROVE  /\ rules[j].chain \in BuiltinChain \cup AgentChain
                    /\ rules[j].rule \in AnyRule
                    /\ rules[j].rule.to \notin BuiltinChain
                    /\ rules[j].rule.to = "APISIX_INBOUND" => rules[j].chain = "PREROUTING"
                    /\ rules[j].rule.to = "APISIX_REDIRECT" => rules[j].chain = "OUTPUT"
                    /\ rules[j].rule.to = "APISIX_INBOUND_REDIRECT" =>
                            rules[j].chain = "APISIX_INBOUND"
                    /\ rules[j].chain = "PREROUTING" => rules[j].rule = Jump
                    /\ rules[j].chain = "APISIX_INBOUND_REDIRECT" => j = 2
  BY DEF Targets
<1>1. rules \in Seq(ChainRule) /\ Begins(rules)
  BY DEF AreRules
<1>2. rules[j].rule \in AnyRule
  <2>1. rules[j] \in ChainRule
    BY <1>1
  <2> QED
    BY <2>1 DEF ChainRule
<1>3. j \in 1..4 \/ j \in 5..Len(rules)
  <2>1. DOMAIN rules = 1..Len(rules) /\ Len(rules) \in Nat
    BY <1>1
  <2> QED
    BY <2>1
<1>4. CASE j \in 1..4
  <2>1. j = 1 \/ j = 2 \/ j = 3 \/ j = 4
    BY <1>4
  <2>2. /\ j = 1 => rules[j].chain = "APISIX_REDIRECT" /\ rules[j].rule.to = "ProxyPort"
        /\ j = 2 => /\ rules[j].chain = "APISIX_INBOUND_REDIRECT"
                    /\ rules[j].rule.to = "InboundCapturePort"
        /\ j = 3 => rules[j].chain = "OUTPUT" /\ rules[j].rule.to = "RETURN"
        /\ j = 4 => rules[j].chain = "OUTPUT" /\ rules[j].rule.to = "RETURN"
    BY <1>1, BeginsChains DEF Rule
  <2> QED
    BY <1>2, <2>1, <2>2 DEF BuiltinChain, AgentChain
<1>5. CASE j \in 5..Len(rules)
  <2>1. RuleAt(rules, c, j)
    BY <1>5 DEF AreRules
  <2>2. CASE rules[j].chain = "PREROUTING" /\ rules[j].rule = Jump
    <3>1. Jump.to = "APISIX_INBOUND"
      BY DEF Jump, Rule
    <3> QED
      BY <1>2, <2>2, <3>1 DEF BuiltinChain, AgentChain
  <2>3. CASE rules[j].chain = "APISIX_INBOUND" /\ InboundRuleAt(rules, c, j)
    <3>1. rules[j].rule.to = "APISIX_INBOUND_REDIRECT" \/ rules[j].rule.to = "RETURN"
      BY <2>3, ChoiceTo DEF InboundRuleAt
    <3> QED
      BY <1>2, <2>3, <3>1 DEF BuiltinChain, AgentChain
  <2>4. CASE rules[j].chain = "OUTPUT" /\ OutboundRuleAt(rules, c, j)
    <3>1. rules[j].rule.to = "APISIX_REDIRECT" \/ rules[j].rule.to = "RETURN"
      BY <2>4, ChoiceTo DEF OutboundRuleAt
    <3> QED
      BY <1>2, <2>4, <3>1 DEF BuiltinChain, AgentChain
  <2> QED
    BY <2>1, <2>2, <2>3, <2>4 DEF RuleAt
<1> QED
  BY <1>3, <1>4, <1>5
-----------------------------------------------------------------------------
(* The changes of a table.                                                 *)

\* A table that has become less: some chains have lost rules at their end, and some are gone.
LEMMA ShapeLess ==
    ASSUME NEW tbl, NEW new, NEW rules,
           Shape(tbl, rules), IsTable(new), Closed(new),
           DOMAIN new \subseteq DOMAIN tbl,
           \A chain \in DOMAIN new : \A i \in DOMAIN new[chain] :
                i \in DOMAIN tbl[chain] /\ \A m \in 1..i : new[chain][m] = tbl[chain][m],
           new["PREROUTING"] = <<Foreign>> \/ new["PREROUTING"] = <<Foreign, Jump>>
    PROVE  Shape(new, rules)
<1>1. \A chain \in DOMAIN new : new[chain] \in Seq(AnyRule)
  BY DEF IsTable
<1>2. ASSUME NEW chain \in DOMAIN new, NEW i \in DOMAIN new[chain], new[chain][i] # Foreign
      PROVE  \E j \in DOMAIN rules : FollowsAt(new[chain], i, rules, j, chain)
  <2>1. i \in Nat /\ i >= 1
    BY <1>1
  <2>2. new[chain][i] = tbl[chain][i] /\ i \in DOMAIN tbl[chain] /\ chain \in DOMAIN tbl
    BY <2>1
  <2>3. PICK j \in DOMAIN rules : FollowsAt(tbl[chain], i, rules, j, chain)
    BY <1>2, <2>2 DEF Shape, Follows
  <2>4. \A m \in 1..(i - 1) : new[chain][m] = tbl[chain][m]
    BY <2>1
  <2>5. FollowsAt(new[chain], i, rules, j, chain)
    BY <2>2, <2>3, <2>4 DEF FollowsAt
  <2> QED
    BY <2>5
<1>3. Follows(new, rules)
  BY <1>2 DEF Follows
<1> QED
  BY <1>3 DEF Shape

\* A chain is flushed.
LEMMA ShapeFlushed ==
    ASSUME NEW tbl, NEW rules, Shape(tbl, rules), NEW chain \in DOMAIN tbl,
           chain # "PREROUTING",
           NEW new, DOMAIN new = DOMAIN tbl, new[chain] = <<>>,
           \A d \in DOMAIN tbl : d # chain => new[d] = tbl[d]
    PROVE  Shape(new, rules)
<1>1. /\ DOMAIN new = DOMAIN tbl
      /\ new[chain] = <<>>
      /\ \A d \in DOMAIN tbl : d # chain => new[d] = tbl[d]
  OBVIOUS
<1>2. IsTable(new)
  <2>1. <<>> \in Seq(AnyRule)
    OBVIOUS
  <2> QED
    BY <2>1 DEF Shape, IsTable
<1>3. DOMAIN (<<>>) = {}
  OBVIOUS
<1>4. \A d \in DOMAIN new : \A i \in DOMAIN new[d] :
        i \in DOMAIN tbl[d] /\ \A m \in 1..i : new[d][m] = tbl[d][m]
  BY <1>1, <1>3
<1>5. \A d \in DOMAIN new : \A i \in DOMAIN new[d] : new[d][i] = tbl[d][i] /\ i \in DOMAIN tbl[d]
  BY <1>1, <1>3
<1>6. Closed(new)
  BY <1>1, <1>5 DEF Closed, Shape
<1>7. new["PREROUTING"] = tbl["PREROUTING"]
  BY <1>1 DEF Shape, IsTable, BuiltinChain
<1> QED
  BY <1>1, <1>2, <1>4, <1>6, <1>7, ShapeLess DEF Shape

\* A chain that nothing refers to is deleted.
LEMMA ShapeDeleted ==
    ASSUME NEW tbl, NEW rules, Shape(tbl, rules), NEW chain \in DOMAIN tbl,
           chain \notin BuiltinChain, ~Refers(tbl, chain),
           NEW new, DOMAIN new = DOMAIN tbl \ {chain}, \A d \in DOMAIN new : new[d] = tbl[d]
    PROVE  Shape(new, rules)
<1>1. DOMAIN new = DOMAIN tbl \ {chain} /\ \A d \in DOMAIN new : new[d] = tbl[d]
  OBVIOUS
<1>2. IsTable(new)
  BY DEF Shape, IsTable
<1>3. \A d \in DOMAIN new : \A i \in DOMAIN new[d] :
        i \in DOMAIN tbl[d] /\ \A m \in 1..i : new[d][m] = tbl[d][m]
  BY <1>1
<1>4. Closed(new)
  BY <1>1 DEF Closed, Shape, Refers
<1>5. new["PREROUTING"] = tbl["PREROUTING"]
  BY <1>1 DEF Shape, IsTable, BuiltinChain
<1> QED
  BY <1>1, <1>2, <1>3, <1>4, <1>5, ShapeLess DEF Shape

\* The jump to the inbound chain is taken out.
LEMMA RemoveJump ==
    RemoveFirst(<<Foreign, Jump>>, Jump) = <<Foreign>>
<1> DEFINE s == <<Foreign, Jump>>
           I == {i \in 1..Len(s) : s[i] = Jump}
<1>1. Foreign # Jump
  BY DEF Foreign, Jump, Rule
<1> HIDE DEF Foreign, Jump
<1>2. s[1] = Foreign /\ s[2] = Jump /\ Len(s) = 2
  OBVIOUS
<1>3. I = {2}
  BY <1>1, <1>2
<1>4. Min(I) = 2
  BY <1>3 DEF Min
<1>5. SelectInSeq(s, LAMBDA v : v = Jump) = 2
  BY <1>3, <1>4 DEF SelectInSeq
<1>6. RemoveFirst(s, Jump) = RemoveAt(s, 2)
  BY <1>2, <1>5 DEF RemoveFirst
<1>7. RemoveAt(s, 2) = SubSeq(s, 1, 1) \o SubSeq(s, 3, 2)
  BY <1>2 DEF RemoveAt
<1>8. SubSeq(s, 1, 1) = <<Foreign>> /\ SubSeq(s, 3, 2) = <<>>
  <2> DEFINE X == {Foreign, Jump}
             t == SubSeq(s, 1, 1)
  <2>1. s \in Seq(X)
    OBVIOUS
  <2> HIDE DEF s, X
  <2>2. t \in Seq(X) /\ Len(t) = 1 /\ t[1] = s[1]
    BY <1>2, <2>1
  <2> HIDE DEF t
  <2>3. t = <<Foreign>>
    BY <1>2, <2>2
  <2>4. SubSeq(s, 3, 2) = <<>>
    BY <1>2, <2>1, SubSeqEmpty
  <2> QED
    BY <2>3, <2>4 DEF t
<1> QED
  BY <1>6, <1>7, <1>8

LEMMA ShapeUnjumped ==
    ASSUME NEW tbl, NEW rules, Shape(tbl, rules), tbl["PREROUTING"] = <<Foreign, Jump>>,
           NEW new, DOMAIN new = DOMAIN tbl, new["PREROUTING"] = <<Foreign>>,
           \A d \in DOMAIN tbl : d # "PREROUTING" => new[d] = tbl[d]
    PROVE  Shape(new, rules)
<1>1. Foreign \in AnyRule
  BY DEF AnyRule, Foreign, Rule, Name
<1>2. "PREROUTING" \in DOMAIN tbl
  BY DEF Shape, IsTable, BuiltinChain
<1>3. Foreign.to \notin AgentChain
  BY DEF Foreign, Rule, AgentChain
<1> HIDE DEF Foreign, Jump
<1>4. /\ DOMAIN new = DOMAIN tbl
      /\ new["PREROUTING"] = <<Foreign>>
      /\ \A d \in DOMAIN tbl : d # "PREROUTING" => new[d] = tbl[d]
  BY <1>2
<1>5. IsTable(new)
  <2>1. <<Foreign>> \in Seq(AnyRule)
    BY <1>1
  <2> QED
    BY <1>4, <2>1 DEF Shape, IsTable
<1>6. DOMAIN new["PREROUTING"] = {1} /\ new["PREROUTING"][1] = Foreign
  BY <1>4
<1>7. 1 \in DOMAIN tbl["PREROUTING"] /\ tbl["PREROUTING"][1] = Foreign
  OBVIOUS
<1>8. \A d \in DOMAIN new : \A i \in DOMAIN new[d] :
        i \in DOMAIN tbl[d] /\ \A m \in 1..i : new[d][m] = tbl[d][m]
  BY <1>4, <1>6, <1>7
<1>9. Closed(new)
  BY <1>3, <1>4, <1>6 DEF Closed, Shape
<1> QED
  BY <1>4, <1>5, <1>8, <1>9, ShapeLess

\* A chain is made for a rule.
LEMMA ShapeMade ==
    ASSUME NEW tbl, NEW rules, Shape(tbl, rules), NEW chain \in AgentChain,
           chain \notin DOMAIN tbl, \E j \in DOMAIN rules : rules[j].chain = chain,
           NEW new, DOMAIN new = DOMAIN tbl \cup {chain}, new[chain] = <<>>,
           \A d \in DOMAIN tbl : new[d] = tbl[d]
    PROVE  Shape(new, rules) /\ \A n \in Int : Added(tbl, rules, n) => Added(new, rules, n)
<1>1. /\ DOMAIN new = DOMAIN tbl \cup {chain}
      /\ new[chain] = <<>>
      /\ \A d \in DOMAIN tbl : new[d] = tbl[d]
  OBVIOUS
<1>2. IsTable(new)
  <2>1. <<>> \in Seq(AnyRule)
    OBVIOUS
  <2> QED
    BY <1>1, <2>1 DEF Shape, IsTable
<1>3. DOMAIN (<<>>) = {}
  OBVIOUS
<1>4. \A d \in DOMAIN new : \A i \in DOMAIN new[d] : d \in DOMAIN tbl /\ new[d] = tbl[d]
  BY <1>1, <1>3
<1>5. Follows(new, rules)
  BY <1>4 DEF Follows, Shape
<1>6. Closed(new)
  BY <1>1, <1>4 DEF Closed, Shape
<1>7. new["PREROUTING"] = tbl["PREROUTING"]
  BY <1>1 DEF Shape, IsTable, BuiltinChain
<1>8. Shape(new, rules)
  BY <1>2, <1>5, <1>6, <1>7 DEF Shape
<1>9. ASSUME NEW n \in Int, Added(tbl, rules, n) PROVE Added(new, rules, n)
  BY <1>1, <1>9 DEF Added
<1> QED
  BY <1>8, <1>9

LEMMA AppendToOne ==
    ASSUME NEW x, NEW y
    PROVE  Append(<<x>>, y) = <<x, y>>
<1> DEFINE X == {x, y}
           a == <<x>>
           t == Append(a, y)
<1>0. a \in Seq(X) /\ y \in X
  OBVIOUS
<1>1. Len(a) = 1 /\ a[1] = x
  OBVIOUS
<1> HIDE DEF X, a
<1>2. t \in Seq(X) /\ Len(t) = 2 /\ t[1] = x /\ t[2] = y
  <2>1. /\ t \in Seq(X) /\ Len(t) = Len(a) + 1
        /\ \A i \in 1..Len(a) : t[i] = a[i]
        /\ t[Len(a) + 1] = y
    BY <1>0, AppendProperties
  <2> HIDE DEF t
  <2> QED
    BY <1>1, <2>1
<1> HIDE DEF t
<1>3. t = <<x, y>>
  BY <1>2
<1> QED
  BY <1>3 DEF t, a

\* Rule n is appended, as it can be.
Appends(tbl, new, rules, n) ==
    /\ rules[n].chain \in DOMAIN tbl
    /\ rules[n].rule.to \in AgentChain => rules[n].rule.to \in DOMAIN tbl
    /\ rules[n].chain = "PREROUTING" => tbl["PREROUTING"] = <<Foreign>>
    /\ DOMAIN new = DOMAIN tbl
    /\ new[rules[n].chain] = Append(tbl[rules[n].chain], rules[n].rule)
    /\ \A d \in DOMAIN tbl : d # rules[n].chain => new[d] = tbl[d]

\* The next rule is appended.
LEMMA ShapeAppended ==
    ASSUME NEW tbl, NEW rules, Shape(tbl, rules), Targets(rules),
           rules \in Seq(ChainRule), NEW n \in DOMAIN rules, Added(tbl, rules, n - 1),
           NEW new, Appends(tbl, new, rules, n)
    PROVE  /\ Shape(new, rules)
           /\ Added(new, rules, n)
           /\ DOMAIN new = DOMAIN tbl
           /\ rules[n].chain # "PREROUTING" => new["PREROUTING"] = tbl["PREROUTING"]
<1> DEFINE chain == rules[n].chain
           r == rules[n].rule
           s == tbl[chain]
<1>1. n \in Nat /\ n >= 1
  OBVIOUS
<1>2. r \in AnyRule /\ s \in Seq(AnyRule) /\ chain \in DOMAIN tbl
  BY DEF Targets, Shape, IsTable, Appends
<1>3. /\ DOMAIN new = DOMAIN tbl
      /\ new[chain] = Append(s, r)
      /\ \A d \in DOMAIN tbl : d # chain => new[d] = tbl[d]
  BY DEF Appends
<1> HIDE DEF r, chain
<1>4. IsTable(new)
  <2>1. Append(s, r) \in Seq(AnyRule)
    BY <1>2
  <2> QED
    BY <1>3, <2>1 DEF Shape, IsTable
<1> HIDE DEF s
<1> DEFINE t == new[chain]
<1>5. /\ Len(s) \in Nat /\ DOMAIN s = 1..Len(s)
      /\ DOMAIN t = 1..(Len(s) + 1)
      /\ \A i \in 1..Len(s) : t[i] = s[i]
      /\ t[Len(s) + 1] = r
  BY <1>2, <1>3
<1> HIDE DEF t
<1>6. ASSUME NEW i \in 1..Len(s), s[i] # Foreign
      PROVE  \E j \in DOMAIN rules : FollowsAt(t, i, rules, j, chain)
  <2>1. PICK j \in DOMAIN rules : FollowsAt(s, i, rules, j, chain)
    BY <1>2, <1>5, <1>6 DEF Shape, Follows, s
  <2>2. t[i] = s[i] /\ \A m \in 1..(i - 1) : t[m] = s[m]
    BY <1>5
  <2>3. FollowsAt(t, i, rules, j, chain)
    BY <2>1, <2>2, Zenon DEF FollowsAt
  <2> QED
    BY <2>3
<1>7. FollowsAt(t, Len(s) + 1, rules, n, chain)
  <2>1. ASSUME NEW k \in 1..(n - 1), rules[k].chain = chain
        PROVE  \E m \in 1..((Len(s) + 1) - 1) : t[m] = rules[k].rule
    <3>1. PICK m \in DOMAIN s : s[m] = rules[k].rule
      BY <2>1 DEF Added, s
    <3>2. m \in 1..((Len(s) + 1) - 1) /\ t[m] = s[m]
      BY <1>5
    <3> QED
      BY <3>1, <3>2
  <2> QED
    BY <1>5, <2>1 DEF FollowsAt, r, chain
<1>8. Follows(new, rules)
  <2>1. ASSUME NEW d \in DOMAIN new, NEW i \in DOMAIN new[d], new[d][i] # Foreign, d = chain
        PROVE  \E j \in DOMAIN rules : FollowsAt(new[d], i, rules, j, d)
    <3>1. i \in 1..Len(s) \/ i = Len(s) + 1
      BY <1>5, <2>1 DEF t
    <3>2. CASE i \in 1..Len(s)
      BY <1>5, <1>6, <2>1, <3>2 DEF t
    <3>3. CASE i = Len(s) + 1
      BY <1>7, <2>1, <3>3 DEF t
    <3> QED
      BY <3>1, <3>2, <3>3
  <2>2. ASSUME NEW d \in DOMAIN new, NEW i \in DOMAIN new[d], new[d][i] # Foreign, d # chain
        PROVE  \E j \in DOMAIN rules : FollowsAt(new[d], i, rules, j, d)
    BY <1>3, <2>2 DEF Shape, Follows
  <2> QED
    BY <2>1, <2>2 DEF Follows
<1>9. Closed(new)
  <2>1. ASSUME NEW d \in DOMAIN new, NEW i \in DOMAIN new[d], new[d][i].to \in AgentChain
        PROVE  new[d][i].to \in DOMAIN new
    <3>1. CASE d # chain
      BY <1>3, <2>1, <3>1 DEF Shape, Closed
    <3>2. CASE d = chain /\ i \in 1..Len(s)
      <4>1. new[d][i] = s[i]
        BY <1>5, <3>2 DEF t
      <4> QED
        BY <1>2, <1>3, <1>5, <2>1, <3>2, <4>1 DEF Shape, Closed, s
    <3>3. CASE d = chain /\ i = Len(s) + 1
      BY <1>3, <1>5, <2>1, <3>3 DEF t, r, Appends
    <3> QED
      BY <1>5, <3>1, <3>2, <3>3 DEF t
  <2> QED
    BY <2>1 DEF Closed
<1>10. "PREROUTING" \in DOMAIN tbl
  BY DEF Shape, IsTable, BuiltinChain
<1>11. new["PREROUTING"] = <<Foreign>> \/ new["PREROUTING"] = <<Foreign, Jump>>
  <2>1. CASE chain # "PREROUTING"
    BY <1>3, <1>10, <2>1 DEF Shape
  <2>2. CASE chain = "PREROUTING"
    <3>1. r = Jump
      BY <2>2 DEF Targets, r, chain
    <3>2. s = <<Foreign>>
      BY <2>2 DEF s, chain, Appends
    <3>3. Append(<<Foreign>>, Jump) = <<Foreign, Jump>>
      BY AppendToOne
    <3> QED
      BY <1>3, <2>2, <3>1, <3>2, <3>3
  <2> QED
    BY <2>1, <2>2
<1>12. Shape(new, rules)
  BY <1>4, <1>8, <1>9, <1>11 DEF Shape
<1>13. Added(new, rules, n)
  <2>1. ASSUME NEW j \in 1..n
        PROVE  /\ rules[j].chain \in DOMAIN new
               /\ \E i \in DOMAIN new[rules[j].chain] :
                        new[rules[j].chain][i] = rules[j].rule
    <3>1. CASE j = n
      <4>1. Len(s) + 1 \in DOMAIN new[chain] /\ new[chain][Len(s) + 1] = r
        BY <1>5 DEF t
      <4> QED
        BY <1>2, <1>3, <3>1, <4>1 DEF chain, r
    <3>2. CASE j # n
      <4>1. j \in 1..(n - 1)
        BY <1>1, <3>2
      <4>2. PICK i \in DOMAIN tbl[rules[j].chain] : tbl[rules[j].chain][i] = rules[j].rule
        BY <4>1 DEF Added
      <4>3. rules[j].chain \in DOMAIN new
        BY <1>3, <4>1 DEF Added
      <4>4. CASE rules[j].chain = chain
        <5>1. i \in 1..Len(s) /\ s[i] = rules[j].rule
          BY <1>5, <4>2, <4>4 DEF s
        <5>2. i \in DOMAIN t /\ t[i] = rules[j].rule
          BY <1>5, <5>1
        <5> QED
          BY <4>3, <4>4, <5>2 DEF t
      <4>5. CASE rules[j].chain # chain
        BY <1>3, <4>2, <4>3, <4>5
      <4> QED
        BY <4>4, <4>5
    <3> QED
      BY <3>1, <3>2
  <2> QED
    BY <2>1 DEF Added
<1>14. chain # "PREROUTING" => new["PREROUTING"] = tbl["PREROUTING"]
  BY <1>3, <1>10
<1> QED
  BY <1>3, <1>12, <1>13, <1>14 DEF chain, r

\* When the first chain is not there, the table is as good for any other set-up.
LEMMA ShapeOther ==
    ASSUME NEW tbl, NEW old, NEW rules, Shape(tbl, old), Bare(tbl),
           "APISIX_REDIRECT" \notin DOMAIN tbl, Targets(old), Begins(old), Begins(rules),
           DOMAIN old = 1..Len(old), DOMAIN rules = 1..Len(rules)
    PROVE  Shape(tbl, rules)
<1>1. ASSUME NEW d \in DOMAIN tbl, NEW i \in DOMAIN tbl[d], tbl[d][i] # Foreign
      PROVE  \E j \in DOMAIN rules : FollowsAt(tbl[d], i, rules, j, d)
  <2>1. d # "PREROUTING" /\ d # "OUTPUT"
    BY <1>1 DEF Bare
  <2>2. d = "APISIX_INBOUND_REDIRECT"
    BY <2>1 DEF Bare, Shape, IsTable, BuiltinChain, AgentChain
  <2>3. PICK j \in DOMAIN old : FollowsAt(tbl[d], i, old, j, d)
    BY <1>1 DEF Shape, Follows
  <2>4. j = 2 /\ old[2].rule = tbl[d][i]
    BY <2>2, <2>3 DEF FollowsAt, Targets
  <2>5. /\ rules[2].rule = tbl[d][i]
        /\ rules[2].chain = d
        /\ rules[1].chain # d
    BY <2>2, <2>4, BeginsChains
  <2>6. FollowsAt(tbl[d], i, rules, 2, d)
    <3>1. \A k \in 1..(2 - 1) : k = 1
      OBVIOUS
    <3> QED
      BY <2>5, <3>1 DEF FollowsAt
  <2>7. 2 \in DOMAIN rules
    BY DEF Begins
  <2> QED
    BY <2>6, <2>7
<1>2. Follows(tbl, rules)
  BY <1>1 DEF Follows
<1> QED
  BY <1>2 DEF Shape
-----------------------------------------------------------------------------
(* What iptables makes of a change.                                        *)

LEMMA OpN ==
    ASSUME NEW tbl, NEW ch, ch.op = "-N"
    PROVE  /\ Possible(tbl, ch) <=> ch.chain \notin DOMAIN tbl
           /\ DOMAIN Changed(tbl, ch) = DOMAIN tbl \cup {ch.chain}
           /\ Changed(tbl, ch)[ch.chain] = <<>>
           /\ \A d \in DOMAIN tbl : d # ch.chain => Changed(tbl, ch)[d] = tbl[d]
<1>1. Changed(tbl, ch) = [d \in DOMAIN tbl \cup {ch.chain} |->
                            IF d = ch.chain THEN <<>> ELSE tbl[d]]
  BY DEF Changed
<1>2. Possible(tbl, ch) <=> ch.chain \notin DOMAIN tbl
  BY DEF Possible
<1> QED
  BY <1>1, <1>2

LEMMA OpA ==
    ASSUME NEW tbl, NEW ch, ch.op = "-A"
    PROVE  /\ Possible(tbl, ch) <=> /\ ch.chain \in DOMAIN tbl
                                    /\ ch.rule.dport \in Ports \cup {"any"}
                                    /\ ch.rule.to \in AgentChain => ch.rule.to \in DOMAIN tbl
           /\ Changed(tbl, ch) = [tbl EXCEPT ![ch.chain] = Append(@, ch.rule)]
BY DEF Possible, Changed

LEMMA OpD ==
    ASSUME NEW tbl, NEW ch, ch.op = "-D"
    PROVE  /\ Possible(tbl, ch) <=> ch.chain \in DOMAIN tbl /\ Contains(tbl[ch.chain], ch.rule)
           /\ Changed(tbl, ch) = [tbl EXCEPT ![ch.chain] = RemoveFirst(@, ch.rule)]
BY DEF Possible, Changed

LEMMA OpF ==
    ASSUME NEW tbl, NEW ch, ch.op = "-F"
    PROVE  /\ Possible(tbl, ch) <=> ch.chain \in DOMAIN tbl
           /\ Changed(tbl, ch) = [tbl EXCEPT ![ch.chain] = <<>>]
BY DEF Possible, Changed

LEMMA OpX ==
    ASSUME NEW tbl, NEW ch, ch.op = "-X"
    PROVE  /\ Possible(tbl, ch) <=> /\ ch.chain \in DOMAIN tbl \ BuiltinChain
                                    /\ tbl[ch.chain] = <<>> /\ ~Refers(tbl, ch.chain)
           /\ DOMAIN Changed(tbl, ch) = DOMAIN tbl \ {ch.chain}
           /\ \A d \in DOMAIN tbl \ {ch.chain} : Changed(tbl, ch)[d] = tbl[d]
<1>1. Changed(tbl, ch) = [d \in DOMAIN tbl \ {ch.chain} |-> tbl[d]]
  BY DEF Changed
<1>2. Possible(tbl, ch) <=> /\ ch.chain \in DOMAIN tbl \ BuiltinChain
                            /\ tbl[ch.chain] = <<>> /\ ~Refers(tbl, ch.chain)
  BY DEF Possible
<1> QED
  BY <1>1, <1>2

\* What is left of a list of changes after the next one.
LEMMA TailRest ==
    ASSUME NEW all, NEW rest \in Seq(Change), IsRest(rest, all), Len(all) \in Nat,
           rest # <<>>
    PROVE  /\ Tail(rest) \in Seq(Change)
           /\ IsRest(Tail(rest), all)
           /\ Len(rest) >= 1
           /\ Len(Tail(rest)) = Len(rest) - 1
           /\ Head(rest) = all[(Len(all) - Len(rest)) + 1]
<1> DEFINE t == Tail(rest)
<1>1. /\ Len(rest) \in Nat /\ Len(rest) >= 1
      /\ t \in Seq(Change) /\ Len(t) = Len(rest) - 1
      /\ \A i \in 1..Len(t) : t[i] = rest[i + 1]
      /\ Head(rest) = rest[1]
  OBVIOUS
<1> HIDE DEF t
<1>2. ASSUME NEW i \in 1..Len(t) PROVE t[i] = all[(Len(all) - Len(t)) + i]
  <2>1. i + 1 \in 1..Len(rest) /\ t[i] = rest[i + 1]
    BY <1>1
  <2>2. rest[i + 1] = all[(Len(all) - Len(rest)) + (i + 1)]
    BY <2>1 DEF IsRest
  <2>3. (Len(all) - Len(rest)) + (i + 1) = (Len(all) - Len(t)) + i
    BY <1>1
  <2> QED
    BY <2>1, <2>2, <2>3
<1>3. IsRest(t, all)
  BY <1>1, <1>2 DEF IsRest
<1>4. rest[1] = all[(Len(all) - Len(rest)) + 1]
  BY <1>1 DEF IsRest
<1> QED
  BY <1>1, <1>3, <1>4 DEF t

\* The set-up in force makes its next change.
LEMMA SetUpStep ==
    ASSUME NEW c, NEW rules, NEW all, NEW tbl, NEW rest \in Seq(Change), NEW done \in Nat,
           AreRules(rules, c), IsBuild(all, rules), Shape(tbl, rules),
           UnderWay(tbl, rest, rules, all, done), rest # <<>>, Possible(tbl, Head(rest))
    PROVE  LET new == Changed(tbl, Head(rest))
           IN  /\ Shape(new, rules)
               /\ Bare(new)
               /\ UnderWay(new, Tail(rest), rules, all, done + 1)
<1> DEFINE new == Changed(tbl, Head(rest))
           m == Len(all) - Len(rules)
<1>1. rules \in Seq(ChainRule) /\ Begins(rules) /\ Targets(rules) /\ OneJump(rules)
  BY RulesTargets DEF AreRules
<1>2. /\ Len(all) \in Nat /\ Len(rules) \in Nat /\ DOMAIN rules = 1..Len(rules)
      /\ m \in Nat /\ m >= 1 /\ Len(all) = m + Len(rules)
  BY <1>1 DEF IsBuild
<1>3. /\ IsRest(Tail(rest), all)
      /\ Len(rest) >= 1
      /\ Len(Tail(rest)) = Len(rest) - 1
      /\ Head(rest) = all[done + 1]
  BY <1>2, TailRest DEF UnderWay
<1>4. done = Len(all) - Len(rest) /\ done + 1 = Len(all) - Len(Tail(rest)) /\ done < Len(all)
  <2>1. Len(rest) \in Nat
    OBVIOUS
  <2> QED
    BY <1>2, <1>3, <2>1 DEF UnderWay
<1>5. /\ Added(tbl, rules, done - m)
      /\ tbl["PREROUTING"] = <<Foreign>>
            \/ \E j \in 1..(done - m) : rules[j].chain = "PREROUTING"
      /\ done >= 1 => "APISIX_REDIRECT" \in DOMAIN tbl
  BY DEF UnderWay
<1>6. /\ \A i \in 1..m : \E j \in DOMAIN rules :
            rules[j].chain \notin BuiltinChain /\ all[i] = [op |-> "-N", chain |-> rules[j].chain]
      /\ \A j \in 1..Len(rules) : all[j + m] =
            [op |-> "-A", chain |-> rules[j].chain, rule |-> rules[j].rule]
      /\ all[1] = [op |-> "-N", chain |-> "APISIX_REDIRECT"]
  BY DEF IsBuild
<1> HIDE DEF m, new
<1>7. SUFFICES /\ Shape(new, rules)
               /\ "APISIX_REDIRECT" \in DOMAIN new
               /\ Added(new, rules, (done + 1) - m)
               /\ new["PREROUTING"] = <<Foreign>>
                    \/ \E j \in 1..((done + 1) - m) : rules[j].chain = "PREROUTING"
  <2>1. Bare(new)
    BY <1>7 DEF Bare
  <2>2. IsRest(Tail(rest), all) /\ done + 1 = Len(all) - Len(Tail(rest))
    BY <1>3, <1>4
  <2>3. UnderWay(new, Tail(rest), rules, all, done + 1)
    BY <1>7, <2>2 DEF UnderWay, m
  <2> QED
    BY <1>7, <2>1, <2>3 DEF new
<1>8. CASE done < m
  <2>1. PICK j \in DOMAIN rules : /\ rules[j].chain \notin BuiltinChain
                                  /\ all[done + 1] = [op |-> "-N", chain |-> rules[j].chain]
    <3>1. done + 1 \in 1..m
      BY <1>2, <1>8
    <3>2. \A i \in 1..m : \E j \in DOMAIN rules :
            rules[j].chain \notin BuiltinChain /\ all[i] = [op |-> "-N", chain |-> rules[j].chain]
      BY <1>6
    <3> QED
      BY <3>1, <3>2, Zenon
  <2> DEFINE x == rules[j].chain
  <2>2. x \in AgentChain
    BY <1>1, <2>1 DEF Targets
  <2>3. /\ x \notin DOMAIN tbl
        /\ DOMAIN new = DOMAIN tbl \cup {x}
        /\ new[x] = <<>>
        /\ \A d \in DOMAIN tbl : new[d] = tbl[d]
    <3>1. Head(rest).op = "-N" /\ Head(rest).chain = x
      BY <1>3, <2>1
    <3> HIDE DEF x
    <3> DEFINE h == Head(rest)
    <3> HIDE DEF h
    <3>2. x \notin DOMAIN tbl
      BY <3>1, OpN DEF h
    <3>3. /\ DOMAIN new = DOMAIN tbl \cup {x}
          /\ new[x] = <<>>
          /\ \A d \in DOMAIN tbl : d # x => new[d] = tbl[d]
      <4>1. new = Changed(tbl, h) /\ h.op = "-N" /\ h.chain = x
        BY <3>1 DEF new, h
      <4>2. /\ DOMAIN Changed(tbl, h) = DOMAIN tbl \cup {h.chain}
            /\ Changed(tbl, h)[h.chain] = <<>>
            /\ \A d \in DOMAIN tbl : d # h.chain => Changed(tbl, h)[d] = tbl[d]
        BY <4>1, OpN
      <4> QED
        BY <4>1, <4>2
    <3> QED
      BY <3>1, <3>2, <3>3 DEF h
  <2>4. \E k \in DOMAIN rules : rules[k].chain = x
    OBVIOUS
  <2>5. done = 0 => x = "APISIX_REDIRECT"
    <3>1. ASSUME done = 0
          PROVE  [op |-> "-N", chain |-> x] = [op |-> "-N", chain |-> "APISIX_REDIRECT"]
      BY <1>6, <2>1, <3>1
    <3> QED
      BY <3>1
  <2> HIDE DEF x
  <2>6. Shape(new, rules) /\ \A n \in Int : Added(tbl, rules, n) => Added(new, rules, n)
    BY <2>2, <2>3, <2>4, ShapeMade
  <2>7. DOMAIN new = DOMAIN tbl \cup {x} /\ new["PREROUTING"] = tbl["PREROUTING"]
    BY <2>2, <2>3 DEF Shape, IsTable, BuiltinChain, AgentChain
  <2>8. "APISIX_REDIRECT" \in DOMAIN new
    BY <1>5, <2>5, <2>7
  <2>9. Added(new, rules, (done + 1) - m)
    <3>1. \A k \in 1..((done + 1) - m) : FALSE
      BY <1>2, <1>8
    <3> QED
      BY <3>1 DEF Added
  <2>10. new["PREROUTING"] = <<Foreign>>
    BY <1>2, <1>5, <1>8, <2>7
  <2> QED
    BY <2>6, <2>8, <2>9, <2>10
<1>9. CASE done >= m
  <2> DEFINE n == (done + 1) - m
  <2>1. n \in DOMAIN rules /\ n \in Nat /\ n >= 1 /\ done + 1 = n + m /\ n - 1 = done - m
    BY <1>2, <1>4, <1>9
  <2> HIDE DEF n
  <2> DEFINE x == rules[n].chain
             r == rules[n].rule
  <2>2. Head(rest) = [op |-> "-A", chain |-> x, rule |-> r]
    BY <1>2, <1>3, <1>6, <2>1
  <2>3. /\ x \in DOMAIN tbl
        /\ r.to \in AgentChain => r.to \in DOMAIN tbl
        /\ DOMAIN new = DOMAIN tbl
        /\ new[x] = Append(tbl[x], r)
        /\ \A d \in DOMAIN tbl : d # x => new[d] = tbl[d]
    <3>1. Head(rest).op = "-A" /\ Head(rest).chain = x /\ Head(rest).rule = r
      BY <2>2
    <3> HIDE DEF x, r
    <3> DEFINE h == Head(rest)
    <3> HIDE DEF h
    <3>2. x \in DOMAIN tbl /\ (r.to \in AgentChain => r.to \in DOMAIN tbl)
      BY <3>1, OpA DEF h
    <3>3. new = [tbl EXCEPT ![h.chain] = Append(@, h.rule)]
      BY <3>1, OpA DEF new, h
    <3> QED
      BY <3>1, <3>2, <3>3 DEF h
  <2>4. ASSUME x = "PREROUTING" PROVE tbl["PREROUTING"] = <<Foreign>>
    <3>1. \A j \in 1..(done - m) : rules[j].chain # "PREROUTING"
      BY <1>1, <1>2, <2>1, <2>4 DEF OneJump
    <3> QED
      BY <1>5, <3>1
  <2>5. Added(tbl, rules, n - 1)
    BY <1>5, <2>1
  <2>6. /\ Shape(new, rules)
        /\ Added(new, rules, n)
        /\ DOMAIN new = DOMAIN tbl
        /\ x # "PREROUTING" => new["PREROUTING"] = tbl["PREROUTING"]
    <3>1. Appends(tbl, new, rules, n)
      BY <2>3, <2>4 DEF Appends
    <3> HIDE DEF x
    <3>2. /\ Shape(new, rules)
          /\ Added(new, rules, n)
          /\ DOMAIN new = DOMAIN tbl
          /\ rules[n].chain # "PREROUTING" => new["PREROUTING"] = tbl["PREROUTING"]
      BY <1>1, <2>1, <2>5, <3>1, ShapeAppended
    <3> QED
      BY <3>2 DEF x
  <2>7. "APISIX_REDIRECT" \in DOMAIN new
    BY <1>2, <1>5, <1>9, <2>6
  <2>8. new["PREROUTING"] = <<Foreign>> \/ \E j \in 1..n : rules[j].chain = "PREROUTING"
    <3>1. CASE x = "PREROUTING"
      BY <2>1, <3>1
    <3>2. CASE x # "PREROUTING"
      BY <1>5, <2>1, <2>6, <3>2
    <3> QED
      BY <3>1, <3>2
  <2> QED
    BY <2>6, <2>7, <2>8 DEF n
<1> QED
  BY <1>2, <1>4, <1>8, <1>9
-----------------------------------------------------------------------------
(* The clean-up.                                                           *)

LEMMA ConcatTwo ==
    ASSUME NEW X, NEW s \in Seq(X), NEW x \in X, NEW y \in X
    PROVE  /\ s \o <<x, y>> \in Seq(X)
           /\ Len(s \o <<x, y>>) = Len(s) + 2
           /\ \A i \in 1..Len(s) : (s \o <<x, y>>)[i] = s[i]
           /\ (s \o <<x, y>>)[Len(s) + 1] = x
           /\ (s \o <<x, y>>)[Len(s) + 2] = y
<1> DEFINE p == <<x, y>>
           t == s \o p
<1>1. p \in Seq(X)
  OBVIOUS
<1>2. Len(p) = 2 /\ p[1] = x /\ p[2] = y
  OBVIOUS
<1> HIDE DEF p
<1>3. t \in Seq(X) /\ Len(t) = Len(s) + Len(p) /\ PartOf(s, t, 0) /\ PartOf(p, t, Len(s))
  BY <1>1, PartsOfConcat
<1> HIDE DEF t
<1>4. /\ DOMAIN s = 1..Len(s) /\ Len(s) \in Nat /\ 1 \in DOMAIN p /\ 2 \in DOMAIN p
  BY <1>1, <1>2
<1>5. /\ \A i \in 1..Len(s) : t[i + 0] = s[i]
      /\ t[1 + Len(s)] = x /\ t[2 + Len(s)] = y
  BY <1>2, <1>3, <1>4 DEF PartOf
<1>6. /\ \A i \in 1..Len(s) : t[i] = s[i]
      /\ t[Len(s) + 1] = x /\ t[Len(s) + 2] = y
  BY <1>4, <1>5
<1>7. Len(t) = Len(s) + 2
  BY <1>2, <1>3
<1> QED
  BY <1>3, <1>6, <1>7 DEF t, p

Flush(x) == [op |-> "-F", chain |-> x]
Delete(x) == [op |-> "-X", chain |-> x]

\* The changes of a clean-up, one by one.
OldChains(all) ==
    /\ all \in Seq(Change)
    /\ Len(all) = 10
    /\ all[1] = [op |-> "-D", chain |-> "PREROUTING", rule |-> Jump]
    /\ all[2] = [op |-> "-D", chain |-> "OUTPUT", rule |-> Rule("tcp", "any", "any", "OUTPUT")]
    /\ all[3] = Flush("APISIX_INBOUND") /\ all[4] = Delete("APISIX_INBOUND")
    /\ all[5] = Flush("OUTPUT") /\ all[6] = Delete("OUTPUT")
    /\ all[7] = Flush("APISIX_REDIRECT") /\ all[8] = Delete("APISIX_REDIRECT")
    /\ all[9] = Flush("APISIX_INBOUND_REDIRECT") /\ all[10] = Delete("APISIX_INBOUND_REDIRECT")

LEMMA RemoveOldChainsAre ==
    OldChains(RemoveOldChains)
<1> DEFINE d1 == [op |-> "-D", chain |-> "PREROUTING", rule |-> Jump]
           d2 == [op |-> "-D", chain |-> "OUTPUT",
                  rule |-> Rule("tcp", "any", "any", "OUTPUT")]
           P(x) == <<Flush(x), Delete(x)>>
           s2 == <<d1, d2>>
           s4 == s2 \o P("APISIX_INBOUND")
           s6 == s4 \o P("OUTPUT")
           s8 == s6 \o P("APISIX_REDIRECT")
           s10 == s8 \o P("APISIX_INBOUND_REDIRECT")
<1>1. RemoveOldChains = s10
  BY DEF RemoveOldChains, FlushAndDelete, Flush, Delete, Jump
<1>2. d1 \in Change /\ d2 \in Change
  BY DEF Change, AnyRule, Rule, Jump, Name, BuiltinChain, AgentChain
<1>3. ASSUME NEW x \in Name PROVE Flush(x) \in Change /\ Delete(x) \in Change
  BY DEF Change, Flush, Delete
<1>4. /\ "APISIX_INBOUND" \in Name /\ "OUTPUT" \in Name /\ "APISIX_REDIRECT" \in Name
      /\ "APISIX_INBOUND_REDIRECT" \in Name
  BY DEF Name, BuiltinChain, AgentChain
<1> HIDE DEF d1, d2
<1>5. s2 \in Seq(Change)
  BY <1>2
<1>6. Len(s2) = 2 /\ s2[1] = d1 /\ s2[2] = d2
  OBVIOUS
<1> HIDE DEF s2
<1>7. /\ s4 \in Seq(Change) /\ Len(s4) = Len(s2) + 2
      /\ \A i \in 1..Len(s2) : s4[i] = s2[i]
      /\ s4[Len(s2) + 1] = Flush("APISIX_INBOUND") /\ s4[Len(s2) + 2] = Delete("APISIX_INBOUND")
  BY <1>3, <1>4, <1>5, ConcatTwo
<1> HIDE DEF s4
<1>8. /\ s6 \in Seq(Change) /\ Len(s6) = Len(s4) + 2
      /\ \A i \in 1..Len(s4) : s6[i] = s4[i]
      /\ s6[Len(s4) + 1] = Flush("OUTPUT") /\ s6[Len(s4) + 2] = Delete("OUTPUT")
  BY <1>3, <1>4, <1>7, ConcatTwo
<1> HIDE DEF s6
<1>9. /\ s8 \in Seq(Change) /\ Len(s8) = Len(s6) + 2
      /\ \A i \in 1..Len(s6) : s8[i] = s6[i]
      /\ s8[Len(s6) + 1] = Flush("APISIX_REDIRECT") /\ s8[Len(s6) + 2] = Delete("APISIX_REDIRECT")
  BY <1>3, <1>4, <1>8, ConcatTwo
<1> HIDE DEF s8
<1>10. /\ s10 \in Seq(Change) /\ Len(s10) = Len(s8) + 2
       /\ \A i \in 1..Len(s8) : s10[i] = s8[i]
       /\ s10[Len(s8) + 1] = Flush("APISIX_INBOUND_REDIRECT")
       /\ s10[Len(s8) + 2] = Delete("APISIX_INBOUND_REDIRECT")
  BY <1>3, <1>4, <1>9, ConcatTwo
<1> HIDE DEF s10
<1>11. Len(s4) = 4 /\ Len(s6) = 6 /\ Len(s8) = 8 /\ Len(s10) = 10
  BY <1>6, <1>7, <1>8, <1>9, <1>10
<1>12. s4[1] = d1 /\ s4[2] = d2 /\ s4[3] = Flush("APISIX_INBOUND") /\ s4[4] = Delete("APISIX_INBOUND")
  BY <1>6, <1>7
<1>13. s6[5] = Flush("OUTPUT") /\ s6[6] = Delete("OUTPUT") /\ \A i \in 1..4 : s6[i] = s4[i]
  BY <1>8, <1>11
<1>14. /\ s8[7] = Flush("APISIX_REDIRECT") /\ s8[8] = Delete("APISIX_REDIRECT")
       /\ \A i \in 1..6 : s8[i] = s6[i]
  BY <1>9, <1>11
<1>15. /\ s10[9] = Flush("APISIX_INBOUND_REDIRECT") /\ s10[10] = Delete("APISIX_INBOUND_REDIRECT")
       /\ \A i \in 1..8 : s10[i] = s8[i]
  BY <1>10, <1>11
<1>16. /\ s10[1] = d1 /\ s10[2] = d2
       /\ s10[3] = Flush("APISIX_INBOUND") /\ s10[4] = Delete("APISIX_INBOUND")
       /\ s10[5] = Flush("OUTPUT") /\ s10[6] = Delete("OUTPUT")
       /\ s10[7] = Flush("APISIX_REDIRECT") /\ s10[8] = Delete("APISIX_REDIRECT")
  BY <1>12, <1>13, <1>14, <1>15
<1> QED
  BY <1>1, <1>10, <1>11, <1>15, <1>16 DEF OldChains, d1, d2

\* What a clean-up makes of the table with one change, possible or not.
Step(tbl, ch) == IF Possible(tbl, ch) THEN Changed(tbl, ch) ELSE tbl

LEMMA FlushStep ==
    ASSUME NEW tbl, NEW rules, Shape(tbl, rules), NEW x, x # "PREROUTING"
    PROVE  /\ Shape(Step(tbl, Flush(x)), rules)
           /\ DOMAIN Step(tbl, Flush(x)) = DOMAIN tbl
           /\ x \in DOMAIN tbl => Step(tbl, Flush(x))[x] = <<>>
           /\ \A d \in DOMAIN tbl : d # x => Step(tbl, Flush(x))[d] = tbl[d]
<1> DEFINE ch == Flush(x)
           new == Step(tbl, ch)
<1>1. ch.op = "-F" /\ ch.chain = x
  BY DEF Flush
<1> HIDE DEF ch
<1>2. CASE x \notin DOMAIN tbl
  <2>1. new = tbl
    BY <1>1, <1>2, OpF DEF Step
  <2> QED
    BY <1>2, <2>1 DEF ch
<1>3. CASE x \in DOMAIN tbl
  <2>1. new = [tbl EXCEPT ![ch.chain] = <<>>]
    BY <1>1, <1>3, OpF DEF Step
  <2>2. /\ DOMAIN new = DOMAIN tbl
        /\ new[x] = <<>>
        /\ \A d \in DOMAIN tbl : d # x => new[d] = tbl[d]
    BY <1>1, <1>3, <2>1
  <2> HIDE DEF new
  <2>3. Shape(new, rules)
    BY <1>3, <2>2, ShapeFlushed
  <2> QED
    BY <2>2, <2>3 DEF new, ch
<1> QED
  BY <1>2, <1>3

LEMMA DeleteStep ==
    ASSUME NEW tbl, NEW rules, Shape(tbl, rules), NEW x, x \notin BuiltinChain,
           x \in DOMAIN tbl => tbl[x] = <<>>, ~Refers(tbl, x)
    PROVE  /\ Shape(Step(tbl, Delete(x)), rules)
           /\ DOMAIN Step(tbl, Delete(x)) = DOMAIN tbl \ {x}
           /\ \A d \in DOMAIN tbl : d # x => Step(tbl, Delete(x))[d] = tbl[d]
<1> DEFINE ch == Delete(x)
           new == Step(tbl, ch)
<1>1. ch.op = "-X" /\ ch.chain = x
  BY DEF Delete
<1> HIDE DEF ch
<1>2. CASE x \notin DOMAIN tbl
  <2>1. new = tbl
    BY <1>1, <1>2, OpX DEF Step
  <2> QED
    BY <1>2, <2>1 DEF ch
<1>3. CASE x \in DOMAIN tbl
  <2>1. new = Changed(tbl, ch)
    BY <1>1, <1>3, OpX DEF Step
  <2>2. /\ DOMAIN Changed(tbl, ch) = DOMAIN tbl \ {ch.chain}
        /\ \A d \in DOMAIN tbl \ {ch.chain} : Changed(tbl, ch)[d] = tbl[d]
    BY <1>1, OpX
  <2>3. DOMAIN new = DOMAIN tbl \ {x} /\ \A d \in DOMAIN new : new[d] = tbl[d]
    BY <1>1, <2>1, <2>2
  <2> HIDE DEF new
  <2>4. Shape(new, rules)
    BY <1>3, <2>3, ShapeDeleted
  <2> QED
    BY <2>3, <2>4 DEF new, ch
<1> QED
  BY <1>2, <1>3

LEMMA UnjumpStep ==
    ASSUME NEW tbl, NEW rules, Shape(tbl, rules), NEW ch,
           ch = [op |-> "-D", chain |-> "PREROUTING", rule |-> Jump]
    PROVE  /\ Shape(Step(tbl, ch), rules)
           /\ DOMAIN Step(tbl, ch) = DOMAIN tbl
           /\ Step(tbl, ch)["PREROUTING"] = <<Foreign>>
           /\ \A d \in DOMAIN tbl : d # "PREROUTING" => Step(tbl, ch)[d] = tbl[d]
<1> DEFINE new == Step(tbl, ch)
<1>1. ch.op = "-D" /\ ch.chain = "PREROUTING" /\ ch.rule = Jump
  OBVIOUS
<1>2. Foreign # Jump
  BY DEF Foreign, Jump, Rule
<1>3. "PREROUTING" \in DOMAIN tbl
  BY DEF Shape, IsTable, BuiltinChain
<1>4. Possible(tbl, ch) <=> Contains(tbl["PREROUTING"], Jump)
  BY <1>1, <1>3, OpD
<1>5. CASE tbl["PREROUTING"] = <<Foreign>>
  <2>1. ~Contains(<<Foreign>>, Jump)
    BY <1>2 DEF Contains
  <2>2. new = tbl
    BY <1>4, <1>5, <2>1 DEF Step
  <2> QED
    BY <1>5, <2>2
<1>6. CASE tbl["PREROUTING"] = <<Foreign, Jump>>
  <2>1. Contains(<<Foreign, Jump>>, Jump)
    <3> HIDE DEF Foreign, Jump
    <3>1. 2 \in DOMAIN <<Foreign, Jump>> /\ (<<Foreign, Jump>>)[2] = Jump
      OBVIOUS
    <3> QED
      BY <3>1 DEF Contains
  <2>2. new = [tbl EXCEPT ![ch.chain] = RemoveFirst(@, ch.rule)]
    BY <1>1, <1>4, <1>6, <2>1, OpD DEF Step
  <2>3. /\ DOMAIN new = DOMAIN tbl
        /\ new["PREROUTING"] = RemoveFirst(tbl["PREROUTING"], Jump)
        /\ \A d \in DOMAIN tbl : d # "PREROUTING" => new[d] = tbl[d]
    BY <1>1, <1>3, <2>2
  <2>4. new["PREROUTING"] = <<Foreign>>
    BY <1>6, <2>3, RemoveJump
  <2> HIDE DEF new
  <2>5. Shape(new, rules)
    BY <1>6, <2>3, <2>4, ShapeUnjumped
  <2> QED
    BY <2>3, <2>4, <2>5 DEF new
<1> QED
  BY <1>5, <1>6 DEF Shape

\* No rule goes to x when those that may are in a chain that has none of the agent's rules.
LEMMA NotReferred ==
    ASSUME NEW tbl, NEW rules, Shape(tbl, rules), NEW x \in AgentChain, NEW y,
           \A j \in DOMAIN rules : rules[j].rule.to = x => rules[j].chain = y,
           y \in DOMAIN tbl => \A i \in DOMAIN tbl[y] : tbl[y][i] = Foreign
    PROVE  ~Refers(tbl, x)
<1> SUFFICES ASSUME NEW d \in DOMAIN tbl, NEW i \in DOMAIN tbl[d], tbl[d][i].to = x
             PROVE  FALSE
  BY DEF Refers
<1>1. tbl[d][i] # Foreign
  <2>1. Foreign.to = "elsewhere"
    BY DEF Foreign, Rule
  <2> QED
    BY <2>1 DEF AgentChain
<1>2. PICK j \in DOMAIN rules : FollowsAt(tbl[d], i, rules, j, d)
  BY <1>1 DEF Shape, Follows
<1>3. d = y
  BY <1>2 DEF FollowsAt
<1> QED
  BY <1>1, <1>3

\* Nothing in OUTPUT goes to OUTPUT, so that the clean-up's second change does nothing.
LEMMA NoOutputToOutput ==
    ASSUME NEW tbl, NEW rules, Shape(tbl, rules), Targets(rules), NEW ch,
           ch = [op |-> "-D", chain |-> "OUTPUT", rule |-> Rule("tcp", "any", "any", "OUTPUT")]
    PROVE  Step(tbl, ch) = tbl
<1> DEFINE r == Rule("tcp", "any", "any", "OUTPUT")
<1>1. ch.op = "-D" /\ ch.chain = "OUTPUT" /\ ch.rule = r
  OBVIOUS
<1>2. r.to = "OUTPUT" /\ Foreign.to = "elsewhere"
  BY DEF Foreign, Rule
<1> HIDE DEF r
<1>3. "OUTPUT" \in DOMAIN tbl
  BY DEF Shape, IsTable, BuiltinChain
<1>4. ASSUME NEW i \in DOMAIN tbl["OUTPUT"], tbl["OUTPUT"][i] = r PROVE FALSE
  <2>1. tbl["OUTPUT"][i] # Foreign
    BY <1>2, <1>4
  <2>2. PICK j \in DOMAIN rules : FollowsAt(tbl["OUTPUT"], i, rules, j, "OUTPUT")
    BY <1>3, <2>1 DEF Shape, Follows
  <2> QED
    BY <1>2, <1>4, <2>2 DEF FollowsAt, Targets, BuiltinChain
<1>5. ~Contains(tbl["OUTPUT"], r)
  <2>1. tbl["OUTPUT"] \in Seq(AnyRule)
    BY <1>3 DEF Shape, IsTable
  <2> QED
    BY <1>4, <2>1 DEF Contains
<1>6. ~Possible(tbl, ch)
  BY <1>1, <1>5, OpD
<1> QED
  BY <1>6 DEF Step

\* A clean-up makes its next change.
LEMMA CleanUpStep ==
    ASSUME NEW c, NEW rules, NEW tbl, NEW all, NEW k \in 0..9,
           AreRules(rules, c), OldChains(all), Shape(tbl, rules), Bare(tbl), Removed(tbl, k)
    PROVE  LET new == Step(tbl, all[k + 1])
           IN  Shape(new, rules) /\ Bare(new) /\ Removed(new, k + 1)
<1> DEFINE new == Step(tbl, all[k + 1])
<1>1. Targets(rules)
  BY RulesTargets
<1>2. "PREROUTING" \in DOMAIN tbl /\ "OUTPUT" \in DOMAIN tbl
  BY DEF Shape, IsTable, BuiltinChain
<1>3. ASSUME NEW s, s = <<Foreign>> PROVE \A i \in DOMAIN s : s[i] = Foreign
  <2> HIDE DEF Foreign
  <2> QED
    BY <1>3
<1>4. ASSUME NEW s, s = <<>> PROVE \A i \in DOMAIN s : s[i] = Foreign
  BY <1>4
<1>5. CASE k = 0
  <2>1. all[k + 1] = [op |-> "-D", chain |-> "PREROUTING", rule |-> Jump]
    BY <1>5 DEF OldChains
  <2>2. /\ Shape(new, rules)
        /\ DOMAIN new = DOMAIN tbl
        /\ new["PREROUTING"] = <<Foreign>>
        /\ \A d \in DOMAIN tbl : d # "PREROUTING" => new[d] = tbl[d]
    BY <2>1, UnjumpStep
  <2> HIDE DEF new
  <2> QED
    BY <1>2, <1>5, <2>2 DEF Removed, Bare, new
<1>6. CASE k = 1
  <2>1. all[k + 1] = [op |-> "-D", chain |-> "OUTPUT",
                      rule |-> Rule("tcp", "any", "any", "OUTPUT")]
    BY <1>6 DEF OldChains
  <2>2. new = tbl
    BY <1>1, <2>1, NoOutputToOutput
  <2> HIDE DEF new
  <2> QED
    BY <1>6, <2>2 DEF Removed, new
<1>7. CASE k = 2
  <2> DEFINE x == "APISIX_INBOUND"
  <2>1. new = Step(tbl, Flush(x))
    BY <1>7 DEF OldChains
  <2>2. /\ Shape(new, rules)
        /\ DOMAIN new = DOMAIN tbl
        /\ x \in DOMAIN tbl => new[x] = <<>>
        /\ \A d \in DOMAIN tbl : d # x => new[d] = tbl[d]
    BY <2>1, FlushStep
  <2> HIDE DEF new
  <2> QED
    BY <1>2, <1>7, <2>2 DEF Removed, Bare, new
<1>8. CASE k = 3
  <2> DEFINE x == "APISIX_INBOUND"
  <2>1. new = Step(tbl, Delete(x))
    BY <1>8 DEF OldChains
  <2>2. x \in AgentChain /\ x \notin BuiltinChain
    BY DEF AgentChain, BuiltinChain
  <2>3. \A i \in DOMAIN tbl["PREROUTING"] : tbl["PREROUTING"][i] = Foreign
    BY <1>3, <1>8 DEF Removed
  <2>4. \A j \in DOMAIN rules : rules[j].rule.to = x => rules[j].chain = "PREROUTING"
    BY <1>1 DEF Targets
  <2>5. x \in DOMAIN tbl => tbl[x] = <<>>
    BY <1>8 DEF Removed
  <2> HIDE DEF x
  <2>6. ~Refers(tbl, x)
    BY <2>2, <2>3, <2>4, NotReferred
  <2>7. /\ Shape(new, rules)
        /\ DOMAIN new = DOMAIN tbl \ {x}
        /\ \A d \in DOMAIN tbl : d # x => new[d] = tbl[d]
    <3>1. /\ Shape(Step(tbl, Delete(x)), rules)
          /\ DOMAIN Step(tbl, Delete(x)) = DOMAIN tbl \ {x}
          /\ \A d \in DOMAIN tbl : d # x => Step(tbl, Delete(x))[d] = tbl[d]
      BY <2>2, <2>5, <2>6, DeleteStep
    <3> HIDE DEF new
    <3> QED
      BY <2>1, <3>1
  <2> HIDE DEF new
  <2> QED
    BY <1>2, <1>8, <2>7 DEF Removed, Bare, new, x
<1>9. CASE k = 4
  <2> DEFINE x == "OUTPUT"
  <2>1. new = Step(tbl, Flush(x))
    BY <1>9 DEF OldChains
  <2>2. /\ Shape(new, rules)
        /\ DOMAIN new = DOMAIN tbl
        /\ x \in DOMAIN tbl => new[x] = <<>>
        /\ \A d \in DOMAIN tbl : d # x => new[d] = tbl[d]
    BY <2>1, FlushStep
  <2> HIDE DEF new
  <2> QED
    BY <1>2, <1>9, <2>2 DEF Removed, Bare, new
<1>10. CASE k = 5
  <2> DEFINE ch == Delete("OUTPUT")
  <2>1. new = Step(tbl, ch)
    BY <1>10 DEF OldChains
  <2>2. ch.op = "-X" /\ ch.chain = "OUTPUT"
    BY DEF Delete
  <2> HIDE DEF ch
  <2>3. ~Possible(tbl, ch)
    BY <2>2, OpX DEF BuiltinChain
  <2>4. new = tbl
    BY <2>1, <2>3 DEF Step
  <2> HIDE DEF new
  <2> QED
    BY <1>10, <2>4 DEF Removed, new
<1>11. CASE k = 6
  <2> DEFINE x == "APISIX_REDIRECT"
  <2>1. new = Step(tbl, Flush(x))
    BY <1>11 DEF OldChains
  <2>2. /\ Shape(new, rules)
        /\ DOMAIN new = DOMAIN tbl
        /\ x \in DOMAIN tbl => new[x] = <<>>
        /\ \A d \in DOMAIN tbl : d # x => new[d] = tbl[d]
    BY <2>1, FlushStep
  <2> HIDE DEF new
  <2> QED
    BY <1>2, <1>11, <2>2 DEF Removed, Bare, new
<1>12. CASE k = 7
  <2> DEFINE x == "APISIX_REDIRECT"
  <2>1. new = Step(tbl, Delete(x))
    BY <1>12 DEF OldChains
  <2>2. x \in AgentChain /\ x \notin BuiltinChain
    BY DEF AgentChain, BuiltinChain
  <2>3. \A i \in DOMAIN tbl["OUTPUT"] : tbl["OUTPUT"][i] = Foreign
    BY <1>4, <1>12 DEF Removed
  <2>4. \A j \in DOMAIN rules : rules[j].rule.to = x => rules[j].chain = "OUTPUT"
    BY <1>1 DEF Targets
  <2>5. x \in DOMAIN tbl => tbl[x] = <<>>
    BY <1>12 DEF Removed
  <2> HIDE DEF x
  <2>6. ~Refers(tbl, x)
    BY <2>2, <2>3, <2>4, NotReferred
  <2>7. /\ Shape(new, rules)
        /\ DOMAIN new = DOMAIN tbl \ {x}
        /\ \A d \in DOMAIN tbl : d # x => new[d] = tbl[d]
    <3>1. /\ Shape(Step(tbl, Delete(x)), rules)
          /\ DOMAIN Step(tbl, Delete(x)) = DOMAIN tbl \ {x}
          /\ \A d \in DOMAIN tbl : d # x => Step(tbl, Delete(x))[d] = tbl[d]
      BY <2>2, <2>5, <2>6, DeleteStep
    <3> HIDE DEF new
    <3> QED
      BY <2>1, <3>1
  <2> HIDE DEF new
  <2> QED
    BY <1>2, <1>12, <2>7 DEF Removed, Bare, new, x
<1>13. CASE k = 8
  <2> DEFINE x == "APISIX_INBOUND_REDIRECT"
  <2>1. new = Step(tbl, Flush(x))
    BY <1>13 DEF OldChains
  <2>2. /\ Shape(new, rules)
        /\ DOMAIN new = DOMAIN tbl
        /\ x \in DOMAIN tbl => new[x] = <<>>
        /\ \A d \in DOMAIN tbl : d # x => new[d] = tbl[d]
    BY <2>1, FlushStep
  <2> HIDE DEF new
  <2> QED
    BY <1>2, <1>13, <2>2 DEF Removed, Bare, new
<1>14. CASE k = 9
  <2> DEFINE x == "APISIX_INBOUND_REDIRECT"
  <2>1. new = Step(tbl, Delete(x))
    BY <1>14 DEF OldChains
  <2>2. x \in AgentChain /\ x \notin BuiltinChain
    BY DEF AgentChain, BuiltinChain
  <2>3. "APISIX_INBOUND" \notin DOMAIN tbl
    BY <1>14 DEF Removed
  <2>4. \A j \in DOMAIN rules : rules[j].rule.to = x => rules[j].chain = "APISIX_INBOUND"
    BY <1>1 DEF Targets
  <2>5. x \in DOMAIN tbl => tbl[x] = <<>>
    BY <1>14 DEF Removed
  <2> HIDE DEF x
  <2>6. ~Refers(tbl, x)
    BY <2>2, <2>3, <2>4, NotReferred
  <2>7. /\ Shape(new, rules)
        /\ DOMAIN new = DOMAIN tbl \ {x}
        /\ \A d \in DOMAIN tbl : d # x => new[d] = tbl[d]
    <3>1. /\ Shape(Step(tbl, Delete(x)), rules)
          /\ DOMAIN Step(tbl, Delete(x)) = DOMAIN tbl \ {x}
          /\ \A d \in DOMAIN tbl : d # x => Step(tbl, Delete(x))[d] = tbl[d]
      BY <2>2, <2>5, <2>6, DeleteStep
    <3> HIDE DEF new
    <3> QED
      BY <2>1, <3>1
  <2> HIDE DEF new
  <2> QED
    BY <1>2, <1>14, <2>7 DEF Removed, Bare, new, x
<1>15. \/ k = 0 \/ k = 1 \/ k = 2 \/ k = 3 \/ k = 4
       \/ k = 5 \/ k = 6 \/ k = 7 \/ k = 8 \/ k = 9
  OBVIOUS
<1> QED
  BY <1>5, <1>6, <1>7, <1>8, <1>9, <1>10, <1>11, <1>12, <1>13, <1>14, <1>15
-----------------------------------------------------------------------------
(* The invariant holds.                                                    *)

LEMMA InitInv ==
    ASSUME Init
    PROVE  Inv
<1>1. StateOK
  BY DEF Init, StateOK
<1>2. Foreign \in AnyRule /\ Foreign.to \notin AgentChain
  BY DEF AnyRule, Foreign, Rule, Name, AgentChain
<1> DEFINE s == <<Foreign>>
<1>3. DOMAIN table = BuiltinChain /\ \A d \in BuiltinChain : table[d] = s
  BY DEF Init
<1>4. s \in Seq(AnyRule) /\ \A i \in DOMAIN s : s[i] = Foreign
  <2> HIDE DEF Foreign
  <2> QED
    BY <1>2
<1>5. table["PREROUTING"] = <<Foreign>> /\ table["OUTPUT"] = <<Foreign>>
  BY <1>3 DEF BuiltinChain
<1> HIDE DEF s
<1>6. IsTable(table)
  BY <1>3, <1>4 DEF IsTable
<1>7. Follows(table, Rules(cfg)) /\ Closed(table)
  BY <1>2, <1>3, <1>4 DEF Follows, Closed
<1>8. "APISIX_INBOUND" \notin DOMAIN table
  BY <1>3 DEF BuiltinChain
<1>9. Shape(table, Rules(cfg)) /\ Bare(table)
  BY <1>5, <1>6, <1>7, <1>8 DEF Shape, Bare
<1>10. Running /\ Ended
  BY DEF Init, Running, Ended
<1> QED
  BY <1>1, <1>9, <1>10 DEF Inv

LEMMA SetUpInv ==
    ASSUME Inv, NEW c \in Configs, SetUp(c)
    PROVE  Inv'
<1> DEFINE rules == Rules(c)
           all == BuildV4(rules)
<1>1. AreRules(rules, c) /\ AreRules(Rules(cfg), cfg)
  BY RulesAre DEF Inv, StateOK
<1>2. IsBuild(all, rules)
  BY <1>1, BuildFacts DEF AreRules
<1>3. /\ table' = table /\ outcome' = outcome /\ todo' = all /\ command' = "iptables"
      /\ cfg' = IF "APISIX_REDIRECT" \in DOMAIN table THEN cfg ELSE c
  BY DEF SetUp
<1>4. StateOK'
  BY <1>2, <1>3 DEF Inv, StateOK, IsBuild
<1>5. Bare(table)' /\ Ended'
  BY <1>3 DEF Inv, Bare, Ended
<1>6. Len(all) \in Nat /\ Len(rules) \in Nat /\ Len(all) - Len(rules) >= 1
  <2>1. all \in Seq(Change) /\ rules \in Seq(ChainRule) /\ Len(all) - Len(rules) >= 1
    BY <1>1, <1>2 DEF IsBuild, AreRules
  <2> HIDE DEF all, rules
  <2> QED
    BY <2>1
<1>7. CASE "APISIX_REDIRECT" \in DOMAIN table
  <2>1. cfg' = cfg
    BY <1>3, <1>7
  <2>2. Shape(table, Rules(cfg))'
    BY <1>3, <2>1 DEF Inv
  <2>3. Doomed(table, todo)'
    <3>1. all # <<>>
      <4> HIDE DEF all, rules
      <4> QED
        BY <1>6
    <3> QED
      BY <1>2, <1>3, <1>7, <3>1 DEF Doomed, IsBuild
  <2>4. Running'
    BY <1>3, <2>3 DEF Running
  <2> QED
    BY <1>4, <1>5, <2>2, <2>4 DEF Inv
<1>8. CASE "APISIX_REDIRECT" \notin DOMAIN table
  <2>1. cfg' = c
    BY <1>3, <1>8
  <2>2. Targets(Rules(cfg))
    BY <1>1, RulesTargets
  <2>3. Shape(table, rules)
    <3>1. /\ Begins(rules) /\ DOMAIN rules = 1..Len(rules)
      BY <1>1 DEF AreRules
    <3>2. Begins(Rules(cfg)) /\ DOMAIN Rules(cfg) = 1..Len(Rules(cfg))
      BY <1>1 DEF AreRules
    <3>3. Shape(table, Rules(cfg)) /\ Bare(table)
      BY DEF Inv
    <3> HIDE DEF rules
    <3> QED
      BY <1>8, <2>2, <3>1, <3>2, <3>3, ShapeOther
  <2>4. Shape(table, Rules(cfg))'
    BY <1>3, <2>1, <2>3
  <2>5. UnderWay(table, all, rules, all, 0)
    <3>1. table["PREROUTING"] = <<Foreign>>
      BY <1>8 DEF Inv, Bare
    <3> HIDE DEF all, rules
    <3>2. IsRest(all, all) /\ Len(all) - Len(all) = 0
      BY <1>6 DEF IsRest
    <3>3. Added(table, rules, 0 - (Len(all) - Len(rules)))
      <4>1. \A j \in 1..(0 - (Len(all) - Len(rules))) : FALSE
        BY <1>6
      <4> QED
        BY <4>1 DEF Added
    <3> QED
      BY <3>1, <3>2, <3>3 DEF UnderWay
  <2>6. Running'
    <3>1. UnderWay(table', todo', Rules(cfg'), BuildV4(Rules(cfg')), 0)
      BY <1>3, <2>1, <2>5
    <3> HIDE DEF all, rules
    <3> QED
      BY <1>3, <3>1 DEF Running
  <2> QED
    BY <1>4, <1>5, <2>4, <2>6 DEF Inv
<1> QED
  BY <1>7, <1>8

LEMMA CleanUpInv ==
    ASSUME Inv, CleanUp
    PROVE  Inv'
<1> DEFINE all == RemoveOldChains
<1>1. /\ table' = table /\ outcome' = outcome /\ cfg' = cfg /\ todo' = all
      /\ command' = "cleanup-iptables"
  BY DEF CleanUp
<1>2. all \in Seq(Change) /\ Len(all) = 10
  BY RemoveOldChainsAre DEF OldChains
<1> HIDE DEF all
<1>3. StateOK'
  BY <1>1, <1>2 DEF Inv, StateOK
<1>4. Shape(table, Rules(cfg))' /\ Bare(table)'
  BY <1>1 DEF Inv
<1>5. IsRest(all, all)
  BY <1>2 DEF IsRest
<1>6. Removed(table, Len(all) - Len(all))
  BY <1>2 DEF Removed
<1>7. Running'
  BY <1>1, <1>5, <1>6 DEF Running, all
<1>8. Ended'
  BY <1>1 DEF Ended
<1> QED
  BY <1>3, <1>4, <1>7, <1>8 DEF Inv

\* A command that fails or is killed leaves the table as it is.
LEMMA AbortInv ==
    ASSUME Inv, table' = table, cfg' = cfg, NEW how, how # "done", EndCommand(how)
    PROVE  Inv'
<1>1. command' = "none" /\ todo' = <<>> /\ outcome'.how = how
  BY DEF EndCommand
<1>2. StateOK'
  BY <1>1 DEF Inv, StateOK
<1>3. Shape(table, Rules(cfg))' /\ Bare(table)'
  BY DEF Inv
<1>4. Running'
  BY <1>1 DEF Running
<1>5. Ended'
  BY <1>1 DEF Ended
<1> QED
  BY <1>2, <1>3, <1>4, <1>5 DEF Inv

LEMMA FinishInv ==
    ASSUME Inv, Finish
    PROVE  Inv'
<1>1. /\ command # "none" /\ todo = <<>> /\ table' = table /\ cfg' = cfg
      /\ command' = "none" /\ todo' = <<>>
      /\ outcome' = [command |-> command, how |-> "done"]
  BY DEF Finish, EndCommand
<1>2. StateOK'
  BY <1>1 DEF Inv, StateOK
<1>3. Shape(table, Rules(cfg))' /\ Bare(table)'
  BY <1>1 DEF Inv
<1>4. Running'
  BY <1>1 DEF Running
<1>5. ASSUME command = "iptables"
      PROVE  Added(table, Rules(cfg), Len(Rules(cfg)))
  <2> DEFINE rules == Rules(cfg)
             all == BuildV4(rules)
  <2>1. PICK done \in Nat : UnderWay(table, todo, rules, all, done)
    BY <1>1, <1>5 DEF Inv, Running, Doomed
  <2>2. rules \in Seq(ChainRule) /\ IsBuild(all, rules)
    BY RulesAre, BuildFacts DEF Inv, StateOK, AreRules
  <2> HIDE DEF rules, all
  <2>3. Len(todo) = 0
    BY <1>1
  <2>4. done - (Len(all) - Len(rules)) = Len(rules)
    BY <2>1, <2>2, <2>3 DEF UnderWay, IsBuild
  <2>5. Added(table, rules, Len(rules))
    BY <2>1, <2>4 DEF UnderWay
  <2> QED
    BY <2>5 DEF rules
<1>6. ASSUME command = "cleanup-iptables" PROVE Removed(table, 10)
  <2>1. Len(RemoveOldChains) - Len(todo) = 10
    BY <1>1, RemoveOldChainsAre DEF OldChains
  <2>2. Removed(table, Len(RemoveOldChains) - Len(todo))
    BY <1>6 DEF Inv, Running
  <2> QED
    BY <2>1, <2>2
<1>7. Ended'
  BY <1>1, <1>5, <1>6 DEF Ended
<1> QED
  BY <1>2, <1>3, <1>4, <1>7 DEF Inv

\* The set-up that cannot make its first chain makes no change.
LEMMA DoomedStops ==
    ASSUME NEW tbl, NEW rest \in Seq(Change), Doomed(tbl, rest)
    PROVE  ~Possible(tbl, Head(rest))
<1>1. Head(rest) = rest[1]
  BY DEF Doomed
<1> DEFINE h == Head(rest)
<1>2. h.op = "-N" /\ h.chain = "APISIX_REDIRECT"
  BY <1>1 DEF Doomed
<1> HIDE DEF h
<1>3. Possible(tbl, h) <=> h.chain \notin DOMAIN tbl
  BY <1>2, OpN
<1>4. ~Possible(tbl, h)
  BY <1>2, <1>3 DEF Doomed
<1> QED
  BY <1>4 DEF h

LEMMA ExecuteInv ==
    ASSUME Inv, Execute
    PROVE  Inv'
<1> DEFINE rules == Rules(cfg)
<1>1. todo # <<>> /\ cfg' = cfg /\ todo \in Seq(Change) /\ cfg \in Configs
  BY DEF Execute, Inv, StateOK
<1>2. command = "iptables" \/ command = "cleanup-iptables"
  BY <1>1 DEF Inv, StateOK, Running
<1>3. AreRules(rules, cfg)
  BY <1>1, RulesAre
<1>4. Shape(table, rules) /\ Bare(table)
  BY DEF Inv
<1>5. CASE command = "iptables" /\ ~Possible(table, Head(todo))
  <2>1. table' = table /\ EndCommand("failed")
    BY <1>5 DEF Execute
  <2> QED
    BY <1>1, <2>1, AbortInv
<1>6. CASE command = "iptables" /\ Possible(table, Head(todo))
  <2> DEFINE all == BuildV4(rules)
             new == Changed(table, Head(todo))
  <2>1. table' = new /\ todo' = Tail(todo) /\ command' = command /\ outcome' = outcome
    BY <1>6 DEF Execute
  <2>2. ~Doomed(table, todo)
    BY <1>1, <1>6, DoomedStops
  <2>3. PICK done \in Nat : UnderWay(table, todo, rules, all, done)
    BY <1>6, <2>2 DEF Inv, Running
  <2>4. IsBuild(all, rules)
    BY <1>3, BuildFacts DEF AreRules
  <2>5. /\ Shape(new, rules)
        /\ Bare(new)
        /\ UnderWay(new, Tail(todo), rules, all, done + 1)
    <3> HIDE DEF rules, all, new
    <3>1. /\ Shape(Changed(table, Head(todo)), rules)
          /\ Bare(Changed(table, Head(todo)))
          /\ UnderWay(Changed(table, Head(todo)), Tail(todo), rules, all, done + 1)
      BY <1>1, <1>3, <1>4, <1>6, <2>3, <2>4, SetUpStep
    <3> QED
      BY <3>1 DEF new
  <2>6. Tail(todo) \in Seq(Change)
    BY <1>1
  <2> HIDE DEF new
  <2>7. StateOK'
    BY <1>1, <2>1, <2>6 DEF Inv, StateOK
  <2>8. Shape(table, Rules(cfg))' /\ Bare(table)'
    BY <1>1, <2>1, <2>5
  <2>9. Running'
    <3>1. UnderWay(table', todo', Rules(cfg'), BuildV4(Rules(cfg')), done + 1)
      BY <1>1, <2>1, <2>5
    <3>2. done + 1 \in Nat
      OBVIOUS
    <3>3. command' = "iptables"
      BY <1>6, <2>1
    <3> HIDE DEF rules, all
    <3> QED
      BY <3>1, <3>2, <3>3 DEF Running
  <2>10. Ended'
    BY <1>6, <2>1 DEF Ended
  <2> QED
    BY <2>7, <2>8, <2>9, <2>10 DEF Inv
<1>7. CASE command = "cleanup-iptables"
  <2> DEFINE all == RemoveOldChains
             k == Len(all) - Len(todo)
             new == Step(table, Head(todo))
  <2>1. table' = new /\ todo' = Tail(todo) /\ command' = command /\ outcome' = outcome
    BY <1>7 DEF Execute, Step
  <2>2. IsRest(todo, all) /\ Removed(table, k)
    BY <1>7 DEF Inv, Running
  <2>3. OldChains(all) /\ Len(all) = 10
    BY RemoveOldChainsAre DEF OldChains
  <2> HIDE DEF all, new
  <2>4. /\ Tail(todo) \in Seq(Change)
        /\ IsRest(Tail(todo), all)
        /\ Len(todo) >= 1
        /\ Len(Tail(todo)) = Len(todo) - 1
        /\ Head(todo) = all[k + 1]
    <3>1. Len(all) \in Nat
      BY <2>3
    <3> HIDE DEF k
    <3>2. /\ Tail(todo) \in Seq(Change)
          /\ IsRest(Tail(todo), all)
          /\ Len(todo) >= 1
          /\ Len(Tail(todo)) = Len(todo) - 1
          /\ Head(todo) = all[(Len(all) - Len(todo)) + 1]
      BY <1>1, <2>2, <3>1, TailRest
    <3> QED
      BY <3>2 DEF k
  <2>5. k \in 0..9 /\ k + 1 = Len(all) - Len(Tail(todo))
    <3> DEFINE l == Len(todo)
               t == Len(Tail(todo))
               n == Len(all)
    <3>1. l \in Nat /\ l <= n
      BY <1>1, <2>2 DEF IsRest
    <3>2. n = 10 /\ l >= 1 /\ t = l - 1
      BY <2>3, <2>4
    <3>3. k = n - l
      OBVIOUS
    <3> HIDE DEF k, l, t, n
    <3>4. k \in 0..9 /\ k + 1 = n - t
      BY <3>1, <3>2, <3>3
    <3> QED
      BY <3>4 DEF n, t
  <2> HIDE DEF k, rules
  <2>6. Shape(new, rules) /\ Bare(new) /\ Removed(new, k + 1)
    <3>1. /\ Shape(Step(table, all[k + 1]), rules)
          /\ Bare(Step(table, all[k + 1]))
          /\ Removed(Step(table, all[k + 1]), k + 1)
      BY <1>3, <1>4, <2>2, <2>3, <2>5, CleanUpStep
    <3> QED
      BY <2>4, <3>1 DEF new
  <2>7. StateOK'
    BY <1>1, <2>1, <2>4 DEF Inv, StateOK
  <2>8. Shape(table, Rules(cfg))' /\ Bare(table)'
    BY <1>1, <2>1, <2>6 DEF rules
  <2>9. Running'
    BY <1>7, <2>1, <2>4, <2>5, <2>6 DEF Running, all
  <2>10. Ended'
    BY <1>7, <2>1 DEF Ended
  <2> QED
    BY <2>7, <2>8, <2>9, <2>10 DEF Inv
<1> QED
  BY <1>2, <1>5, <1>6, <1>7

LEMMA NextInv ==
    ASSUME Inv, [Next]_vars
    PROVE  Inv'
<1>1. CASE \E c \in Configs : SetUp(c)
  BY <1>1, SetUpInv
<1>2. CASE CleanUp
  BY <1>2, CleanUpInv
<1>3. CASE Execute
  BY <1>3, ExecuteInv
<1>4. CASE Finish
  BY <1>4, FinishInv
<1>5. CASE Kill
  <2>1. table' = table /\ cfg' = cfg /\ EndCommand("killed")
    BY <1>5 DEF Kill
  <2> QED
    BY <2>1, AbortInv
<1>6. CASE UNCHANGED vars
  BY <1>6 DEF vars, Inv, StateOK, Shape, Bare, Running, Ended
<1> QED
  BY <1>1, <1>2, <1>3, <1>4, <1>5, <1>6 DEF Next

\* The table always shows the set-up in force, up to where it has been built or removed.
THEOREM InvHolds == Spec => []Inv
<1>1. Init => Inv
  BY InitInv
<1>2. Inv /\ [Next]_vars => Inv'
  BY NextInv
<1> QED
  BY <1>1, <1>2, PTL DEF Spec
-----------------------------------------------------------------------------
(* What becomes of a packet.                                               *)

\* What the rule that decides makes of a packet.
Verdict(to, after) ==
    IF to = "RETURN" THEN "passed" ELSE IF to \in DOMAIN table THEN after[to] ELSE to

FirstHit(p, chain, after, i) ==
    /\ i \in Hits(p, chain, after)
    /\ \A j \in Hits(p, chain, after) : i <= j

\* A chain lets a packet pass, or its first rule that decides does.
LEMMA WalkFacts ==
    ASSUME NEW p, NEW after, NEW chain \in DOMAIN table, table[chain] \in Seq(AnyRule)
    PROVE  \/ Hits(p, chain, after) = {} /\ Walk(p, after)[chain] = "passed"
           \/ \E i \in DOMAIN table[chain] :
                /\ FirstHit(p, chain, after, i)
                /\ Walk(p, after)[chain] = Verdict(table[chain][i].to, after)
<1> DEFINE hits == Hits(p, chain, after)
           first == CHOOSE i \in hits : \A j \in hits : i <= j
           w == Walk(p, after)[chain]
<1>1. w = IF hits = {} \/ table[chain][first].to = "RETURN" THEN "passed"
          ELSE IF table[chain][first].to \in DOMAIN table THEN after[table[chain][first].to]
               ELSE table[chain][first].to
  BY DEF Walk
<1>2. hits \subseteq DOMAIN table[chain] /\ hits \subseteq Nat
  BY DEF Hits
<1> HIDE DEF hits
<1>3. CASE hits = {}
  BY <1>1, <1>3 DEF hits
<1>4. CASE hits # {}
  <2>1. \E i \in hits : \A j \in hits : i <= j
    BY <1>2, <1>4, Smallest
  <2>2. first \in hits /\ \A j \in hits : first <= j
    BY <2>1
  <2> HIDE DEF first, w
  <2>3. w = Verdict(table[chain][first].to, after)
    BY <1>1, <1>4 DEF Verdict
  <2>4. first \in DOMAIN table[chain]
    BY <1>2, <2>2
  <2>5. FirstHit(p, chain, after, first)
    BY <2>2 DEF FirstHit, hits
  <2> QED
    BY <2>3, <2>4, <2>5 DEF w
<1> QED
  BY <1>3, <1>4

LEMMA WalkDomain == \A p, after : DOMAIN Walk(p, after) = DOMAIN table
BY DEF Walk

\* A packet meets no rule of others.
LEMMA NoForeign ==
    ASSUME NEW p \in Packet
    PROVE  ~Matches(Foreign, p)
<1>1. p.dport \in Ports
  BY DEF Packet
<1>2. "foreign" \notin Ports
  BY IptablesAssumption
<1> QED
  BY <1>1, <1>2 DEF Matches, Foreign, Rule

\* What a rule that decides is.
LEMMA HitFacts ==
    ASSUME NEW p \in Packet, NEW rules, Shape(table, rules), NEW chain \in DOMAIN table,
           NEW after, NEW i \in Hits(p, chain, after)
    PROVE  /\ i \in DOMAIN table[chain]
           /\ Matches(table[chain][i], p)
           /\ \E j \in DOMAIN rules : FollowsAt(table[chain], i, rules, j, chain)
<1>1. i \in DOMAIN table[chain] /\ Matches(table[chain][i], p)
  BY DEF Hits
<1>2. table[chain][i] # Foreign
  BY <1>1, NoForeign
<1> QED
  BY <1>1, <1>2 DEF Shape, Follows

\* What the rules of a chain are.
LEMMA RulesOfChain ==
    ASSUME NEW rules, NEW c, AreRules(rules, c), NEW j \in DOMAIN rules
    PROVE  /\ rules[j].chain = "APISIX_REDIRECT" =>
                rules[j].rule = Rule("tcp", "any", "any", "ProxyPort")
           /\ rules[j].chain = "APISIX_INBOUND_REDIRECT" =>
                rules[j].rule = Rule("tcp", "any", "any", "InboundCapturePort")
           /\ rules[j].chain = "APISIX_INBOUND" =>
                c.InboundPortsInclude # <<>> /\ InboundRuleAt(rules, c, j)
           /\ rules[j].chain = "PREROUTING" =>
                c.InboundPortsInclude # <<>> /\ rules[j].rule = Jump
           /\ rules[j].chain = "OUTPUT" =>
                \/ rules[j].rule = Rule("any", "any", "uid_over_lo", "RETURN")
                \/ rules[j].rule = Rule("any", "any", "gid", "RETURN")
                \/ j >= 5 /\ OutboundRuleAt(rules, c, j)
<1>1. /\ Len(rules) \in Nat /\ DOMAIN rules = 1..Len(rules) /\ Begins(rules)
      /\ \A k \in 5..Len(rules) : RuleAt(rules, c, k)
  BY DEF AreRules
<1>2. j = 1 \/ j = 2 \/ j = 3 \/ j = 4 \/ j \in 5..Len(rules)
  BY <1>1
<1>3. CASE j \in 5..Len(rules)
  <2>1. RuleAt(rules, c, j) /\ j >= 5
    BY <1>1, <1>3
  <2> QED
    BY <2>1 DEF RuleAt
<1>4. CASE j \in {1, 2, 3, 4}
  BY <1>1, <1>4, BeginsChains
<1> QED
  BY <1>2, <1>3, <1>4

LEMMA RuleFields ==
    \A proto, dport, owner, to :
        /\ Rule(proto, dport, owner, to).proto = proto
        /\ Rule(proto, dport, owner, to).dport = dport
        /\ Rule(proto, dport, owner, to).owner = owner
        /\ Rule(proto, dport, owner, to).to = to
BY DEF Rule

\* A chain that only redirects, to port.
LEMMA RedirectWalk ==
    ASSUME NEW p \in Packet, NEW rules, Shape(table, rules), NEW after,
           NEW chain \in DOMAIN table, NEW port,
           port \notin {"RETURN"} \cup BuiltinChain \cup AgentChain,
           \A j \in DOMAIN rules : rules[j].chain = chain =>
                rules[j].rule = Rule("tcp", "any", "any", port)
    PROVE  /\ Walk(p, after)[chain] \in {"passed", port}
           /\ \A i \in DOMAIN table[chain] :
                p.proto = "tcp" /\ table[chain][i] = Rule("tcp", "any", "any", port) =>
                    Walk(p, after)[chain] = port
<1> DEFINE w == Walk(p, after)[chain]
           hits == Hits(p, chain, after)
<1>1. port \notin DOMAIN table /\ table[chain] \in Seq(AnyRule)
  BY DEF Shape, IsTable
<1>2. \A i \in hits : table[chain][i].to = port
  <2> TAKE i \in hits
  <2>1. PICK j \in DOMAIN rules : FollowsAt(table[chain], i, rules, j, chain)
    BY HitFacts
  <2>2. table[chain][i] = Rule("tcp", "any", "any", port)
    BY <2>1 DEF FollowsAt
  <2> QED
    BY <2>2, RuleFields
<1>3. (hits = {} /\ w = "passed") \/ (hits # {} /\ w = port)
  <2>1. \/ hits = {} /\ w = "passed"
        \/ \E i \in DOMAIN table[chain] :
                FirstHit(p, chain, after, i) /\ w = Verdict(table[chain][i].to, after)
    BY <1>1, WalkFacts
  <2> HIDE DEF w
  <2>2. ASSUME NEW i \in DOMAIN table[chain], FirstHit(p, chain, after, i),
               w = Verdict(table[chain][i].to, after)
        PROVE  hits # {} /\ w = port
    BY <1>1, <1>2, <2>2 DEF FirstHit, Verdict
  <2> QED
    BY <2>1, <2>2
<1>4. ASSUME p.proto = "tcp", NEW i \in DOMAIN table[chain],
             table[chain][i] = Rule("tcp", "any", "any", port)
      PROVE  i \in hits
  BY <1>1, <1>4, RuleFields DEF Hits, Matches
<1> HIDE DEF hits
<1> QED
  BY <1>3, <1>4

\* What the flags choose, as the rules tell it.
Selected(include, excluded, dport) ==
    IF include = <<"*">> THEN dport \notin excluded ELSE dport \in ToSet(include)

\* A packet that a rule lets go to a redirecting chain is one the flags choose: with all
\* ports, the rules for the excluded ones come before.
LEMMA LeadsSelected ==
    ASSUME NEW p \in Packet, NEW rules, NEW chain \in DOMAIN table, NEW after,
           table[chain] \in Seq(AnyRule), "RETURN" \notin DOMAIN table,
           NEW i \in DOMAIN table[chain], FirstHit(p, chain, after, i),
           NEW j \in Nat, FollowsAt(table[chain], i, rules, j, chain),
           NEW include, NEW excluded, NEW to,
           Leads(rules, j, include, excluded, chain, to), "any" \notin ToSet(include)
    PROVE  /\ p.proto = "tcp"
           /\ Selected(include, excluded, p.dport)
           /\ table[chain][i].to = to
<1>1. /\ table[chain][i] = rules[j].rule
      /\ Matches(table[chain][i], p)
      /\ p.proto # "any"
  BY DEF FollowsAt, FirstHit, Hits, Packet
<1>2. CASE include = <<"*">>
  <2>1. rules[j].rule = Rule("tcp", "any", "any", to)
    BY <1>2 DEF Leads
  <2>2. p.proto = "tcp" /\ table[chain][i].to = to
    BY <1>1, <2>1, RuleFields DEF Matches, Packet
  <2>3. ASSUME p.dport \in excluded PROVE FALSE
    <3> DEFINE r == Rule("tcp", p.dport, "any", "RETURN")
    <3>1. PICK k \in 1..(j - 1) : rules[k] = [chain |-> chain, rule |-> r]
      BY <1>2, <2>3 DEF Leads
    <3>2. rules[k].chain = chain /\ rules[k].rule = r
      BY <3>1
    <3>3. PICK m \in 1..(i - 1) : table[chain][m] = r
      BY <3>2 DEF FollowsAt
    <3>4. r.to = "RETURN" /\ Matches(r, p)
      BY <2>2, RuleFields DEF Matches
    <3> HIDE DEF r
    <3>5. i \in Nat /\ m \in DOMAIN table[chain] /\ m < i
      OBVIOUS
    <3>6. m \in Hits(p, chain, after)
      BY <3>3, <3>4, <3>5 DEF Hits
    <3> QED
      BY <3>5, <3>6 DEF FirstHit
  <2> QED
    BY <1>2, <2>2, <2>3 DEF Selected
<1>3. CASE include # <<"*">>
  <2>1. PICK e \in ToSet(include) \ {NoPort} : rules[j].rule = Rule("tcp", e, "any", to)
    BY <1>3 DEF Leads
  <2>2. p.proto = "tcp" /\ table[chain][i].to = to /\ e = p.dport
    BY <1>1, <2>1, RuleFields DEF Matches, Packet
  <2> QED
    BY <1>3, <2>1, <2>2 DEF Selected
<1> QED
  BY <1>2, <1>3

\* A packet that a rule for an excluded port lets return is none they choose.
LEMMA ReturnsSelected ==
    ASSUME NEW p \in Packet, NEW rules, NEW j, NEW include, NEW excluded, NEW r,
           r = rules[j].rule, Matches(r, p), Returns(rules, j, include, excluded),
           "any" \notin excluded
    PROVE  r.to = "RETURN" /\ ~Selected(include, excluded, p.dport)
<1>1. PICK e \in excluded : r = Rule("tcp", e, "any", "RETURN")
  BY DEF Returns
<1>2. r.to = "RETURN" /\ e = p.dport
  BY <1>1, RuleFields DEF Matches
<1> QED
  BY <1>2 DEF Returns, Selected

\* A rule that lets return what APISIX itself sends.
Skips(r) == r.to = "RETURN" /\ r.owner \in {"uid_over_lo", "gid"}

\* Every rule of a chain is one that chooses, or skips.
ChoosesAt(rules, chain, include, excluded, to) ==
    \A j \in DOMAIN rules : rules[j].chain = chain =>
        \/ Leads(rules, j, include, excluded, chain, to)
        \/ Returns(rules, j, include, excluded)
        \/ Skips(rules[j].rule)

\* The rule that redirects p.
LedBy(p, rules, chain, after, include, excluded, to, i, j) ==
    /\ FirstHit(p, chain, after, i)
    /\ FollowsAt(table[chain], i, rules, j, chain)
    /\ Leads(rules, j, include, excluded, chain, to)

\* What a chain that chooses makes of p: it lets p pass, or redirects it to port, by a
\* rule, if p is chosen; and it does if there is a rule for it.
GoesOn(p, rules, chain, after, include, excluded, to, port) ==
    /\ \/ Walk(p, after)[chain] = "passed"
       \/ /\ Walk(p, after)[chain] = port
          /\ p.proto = "tcp"
          /\ Selected(include, excluded, p.dport)
          /\ \E i \in DOMAIN table[chain], j \in DOMAIN rules :
                LedBy(p, rules, chain, after, include, excluded, to, i, j)
    /\ \A i \in DOMAIN table[chain] :
        /\ Selected(include, excluded, p.dport)
        /\ p.owner = "app"
        /\ table[chain][i].to = to
        /\ Matches(table[chain][i], p)
        /\ to \in DOMAIN table => after[to] = port
        => Walk(p, after)[chain] = port

\* A chain that chooses lets pass, or redirects what is chosen: to where the chain it
\* goes on to redirects it.
LEMMA ChoiceWalk ==
    ASSUME NEW p \in Packet, NEW rules \in Seq(ChainRule), Shape(table, rules),
           NEW chain \in DOMAIN table,
           NEW after, NEW include, NEW excluded, NEW to \in AgentChain, NEW port,
           "any" \notin ToSet(include), "any" \notin excluded, port # "passed",
           to \in DOMAIN table => after[to] \in {"passed", port},
           ChoosesAt(rules, chain, include, excluded, to)
    PROVE  GoesOn(p, rules, chain, after, include, excluded, to, port)
<1> DEFINE w == Walk(p, after)[chain]
           hits == Hits(p, chain, after)
           led(i) == \E j \in DOMAIN rules :
                        LedBy(p, rules, chain, after, include, excluded, to, i, j)
<1>1. /\ "RETURN" \notin DOMAIN table
      /\ table[chain] \in Seq(AnyRule)
      /\ DOMAIN rules \subseteq Nat
  <2>1. /\ DOMAIN table \subseteq BuiltinChain \cup AgentChain
        /\ table[chain] \in Seq(AnyRule)
    BY DEF Shape, IsTable
  <2>2. "RETURN" \notin BuiltinChain \cup AgentChain
    BY DEF BuiltinChain, AgentChain
  <2>3. DOMAIN rules \subseteq Nat
    OBVIOUS
  <2> QED
    BY <2>1, <2>2, <2>3, Zenon
<1>2. ASSUME NEW i \in DOMAIN table[chain], FirstHit(p, chain, after, i)
      PROVE  \/ /\ led(i)
                /\ table[chain][i].to = to
                /\ to \in DOMAIN table
                /\ p.proto = "tcp"
                /\ Selected(include, excluded, p.dport)
             \/ /\ table[chain][i].to = "RETURN"
                /\ ~Selected(include, excluded, p.dport) \/ p.owner # "app"
  <2>1. i \in Hits(p, chain, after)
    BY <1>2 DEF FirstHit
  <2>2. PICK j \in DOMAIN rules : FollowsAt(table[chain], i, rules, j, chain)
    BY <2>1, HitFacts
  <2>3. Matches(table[chain][i], p)
    BY <2>1, HitFacts
  <2>4. rules[j].chain = chain /\ table[chain][i] = rules[j].rule /\ j \in Nat
    BY <1>1, <2>2 DEF FollowsAt
  <2>5. CASE Leads(rules, j, include, excluded, chain, to)
    <3>1. /\ p.proto = "tcp"
          /\ Selected(include, excluded, p.dport)
          /\ table[chain][i].to = to
      BY <1>1, <1>2, <2>2, <2>4, <2>5, LeadsSelected
    <3>2. LedBy(p, rules, chain, after, include, excluded, to, i, j)
      BY <1>2, <2>2, <2>5 DEF LedBy
    <3>3. to \in DOMAIN table
      BY <3>1 DEF Shape, Closed
    <3> QED
      BY <3>1, <3>2, <3>3
  <2>6. CASE Returns(rules, j, include, excluded)
    <3> DEFINE r == table[chain][i]
    <3>1. r = rules[j].rule /\ Matches(r, p)
      BY <2>3, <2>4
    <3> HIDE DEF r
    <3>2. r.to = "RETURN" /\ ~Selected(include, excluded, p.dport)
      BY <2>6, <3>1, ReturnsSelected
    <3> QED
      BY <3>2 DEF r
  <2>7. CASE Skips(rules[j].rule)
    BY <2>3, <2>4, <2>7 DEF Skips, Matches
  <2> QED
    BY <2>4, <2>5, <2>6, <2>7 DEF ChoosesAt
<1>3. \/ hits = {} /\ w = "passed"
      \/ \E i \in DOMAIN table[chain] :
            FirstHit(p, chain, after, i) /\ w = Verdict(table[chain][i].to, after)
  BY <1>1, WalkFacts
<1>4. to # "RETURN"
  BY DEF AgentChain
<1> HIDE DEF w, hits, led
<1>5. \A i \in DOMAIN table[chain] :
        FirstHit(p, chain, after, i) /\ w = Verdict(table[chain][i].to, after) =>
            \/ /\ w = after[to] /\ to \in DOMAIN table
               /\ led(i) /\ p.proto = "tcp" /\ Selected(include, excluded, p.dport)
            \/ /\ w = "passed"
               /\ ~Selected(include, excluded, p.dport) \/ p.owner # "app"
  BY <1>2, <1>4 DEF Verdict
<1>6. \/ w = "passed"
      \/ /\ w = port /\ p.proto = "tcp" /\ Selected(include, excluded, p.dport)
         /\ \E i \in DOMAIN table[chain] : led(i)
  BY <1>3, <1>5
<1>7. ASSUME NEW i \in DOMAIN table[chain], Selected(include, excluded, p.dport),
             p.owner = "app", table[chain][i].to = to, Matches(table[chain][i], p),
             to \in DOMAIN table => after[to] = port
      PROVE  w = port
  <2>1. i \in hits
    BY <1>7 DEF hits, Hits
  <2> QED
    BY <1>3, <1>5, <1>7, <2>1
<1> QED
  BY <1>6, <1>7 DEF GoesOn, w, led

LEMMA ChainsChoose ==
    ASSUME NEW c, NEW rules, AreRules(rules, c)
    PROVE  /\ ChoosesAt(rules, "APISIX_INBOUND", c.InboundPortsInclude, InboundExcluded(c),
                        "APISIX_INBOUND_REDIRECT")
           /\ ChoosesAt(rules, "OUTPUT", c.OutboundPortsInclude, OutboundExcluded(c),
                        "APISIX_REDIRECT")
<1>1. ASSUME NEW j \in DOMAIN rules, rules[j].chain = "APISIX_INBOUND"
      PROVE  InboundRuleAt(rules, c, j)
  BY <1>1, RulesOfChain
<1>2. ASSUME NEW j \in DOMAIN rules, rules[j].chain = "OUTPUT"
      PROVE  OutboundRuleAt(rules, c, j) \/ Skips(rules[j].rule)
  <2>1. \/ rules[j].rule = Rule("any", "any", "uid_over_lo", "RETURN")
        \/ rules[j].rule = Rule("any", "any", "gid", "RETURN")
        \/ OutboundRuleAt(rules, c, j)
    BY <1>2, RulesOfChain
  <2> QED
    BY <2>1, RuleFields DEF Skips
<1> QED
  BY <1>1, <1>2 DEF ChoosesAt, InboundRuleAt, OutboundRuleAt

\* The members of two lists.
LEMMA InConcat ==
    ASSUME NEW S, NEW s \in Seq(S), NEW t \in Seq(S), NEW e
    PROVE  e \in ToSet(s \o t) <=> e \in ToSet(s) \/ e \in ToSet(t)
<1> DEFINE u == s \o t
<1>1. /\ Len(s) \in Nat /\ Len(t) \in Nat
      /\ DOMAIN s = 1..Len(s) /\ DOMAIN t = 1..Len(t)
      /\ DOMAIN u = 1..(Len(s) + Len(t))
      /\ \A i \in 1..Len(s) : u[i] = s[i]
      /\ \A i \in 1..Len(t) : u[Len(s) + i] = t[i]
  OBVIOUS
<1> HIDE DEF u
<1>2. ASSUME NEW i \in DOMAIN u PROVE u[i] \in ToSet(s) \/ u[i] \in ToSet(t)
  <2>1. CASE i \in 1..Len(s)
    BY <1>1, <2>1 DEF ToSet
  <2>2. CASE i \notin 1..Len(s)
    <3>1. i - Len(s) \in 1..Len(t) /\ i = Len(s) + (i - Len(s))
      BY <1>1, <2>2
    <3>2. u[i] = t[i - Len(s)]
      BY <1>1, <3>1
    <3> QED
      BY <1>1, <3>1, <3>2 DEF ToSet
  <2> QED
    BY <2>1, <2>2
<1>3. ASSUME NEW i \in DOMAIN s PROVE s[i] \in ToSet(u)
  BY <1>1 DEF ToSet
<1>4. ASSUME NEW i \in DOMAIN t PROVE t[i] \in ToSet(u)
  <2>1. Len(s) + i \in DOMAIN u /\ u[Len(s) + i] = t[i]
    BY <1>1
  <2> QED
    BY <2>1 DEF ToSet
<1>5. e \in ToSet(u) <=> e \in ToSet(s) \/ e \in ToSet(t)
  BY <1>2, <1>3, <1>4 DEF ToSet
<1> QED
  BY <1>5 DEF u

LEMMA ContainsIn ==
    ASSUME NEW S, NEW s \in Seq(S), NEW e
    PROVE  Contains(s, e) <=> e \in ToSet(s)
BY DEF Contains, ToSet

\* The ports the rules choose are those the help text of the flags names.
LEMMA SelectedIsChosen ==
    ASSUME NEW c \in Configs, NEW dport \in Ports
    PROVE  /\ Selected(c.InboundPortsInclude, InboundExcluded(c), dport)
                <=> Chosen(c.InboundPortsInclude, c.InboundPortsExclude \o <<"22">>, dport)
           /\ Selected(c.OutboundPortsInclude, OutboundExcluded(c), dport)
                <=> Chosen(c.OutboundPortsInclude, c.OutboundPortsExclude, dport)
           /\ "any" \notin InboundExcluded(c)
           /\ "any" \notin OutboundExcluded(c)
<1> DEFINE ii == c.InboundPortsInclude
           ie == c.InboundPortsExclude
           oi == c.OutboundPortsInclude
           oe == c.OutboundPortsExclude
           ssh == <<"22">>
<1>1. /\ ii \in Seq(Name) /\ ie \in Seq(Name) /\ oi \in Seq(Name) /\ oe \in Seq(Name)
      /\ "any" \notin ToSet(ie) /\ "any" \notin ToSet(oe)
  BY FlagFacts
<1>2. dport # NoPort
  BY IptablesAssumption
<1>3. ssh \in Seq(Name) /\ \A e : e \in ToSet(ssh) <=> e = "22"
  BY DEF ToSet, Name
<1> HIDE DEF ii, ie, oi, oe, ssh
<1>4. ie \o ssh \in Seq(Name)
  BY <1>1, <1>3
<1>5. /\ \A e : e \in ToSet(ssh \o ie) <=> e = "22" \/ e \in ToSet(ie)
      /\ \A e : e \in ToSet(ie \o ssh) <=> e = "22" \/ e \in ToSet(ie)
  BY <1>1, <1>3, InConcat
<1>6. /\ Contains(ie \o ssh, dport) <=> dport \in ToSet(ie \o ssh)
      /\ Contains(ii, dport) <=> dport \in ToSet(ii)
      /\ Contains(oi, dport) <=> dport \in ToSet(oi)
      /\ Contains(oe, dport) <=> dport \in ToSet(oe)
  BY <1>1, <1>4, ContainsIn
<1>7. InboundExcluded(c) = ToSet(ssh \o ie) \ {NoPort}
  BY DEF InboundExcluded, ssh, ie
<1>8. OutboundExcluded(c) = ToSet(oe) \ {NoPort}
  BY DEF OutboundExcluded, oe
<1>9. Selected(ii, InboundExcluded(c), dport) <=> Chosen(ii, ie \o ssh, dport)
  BY <1>2, <1>5, <1>6, <1>7 DEF Selected, Chosen
<1>10. Selected(oi, OutboundExcluded(c), dport) <=> Chosen(oi, oe, dport)
  BY <1>2, <1>6, <1>8 DEF Selected, Chosen
<1>11. "any" \notin InboundExcluded(c) /\ "any" \notin OutboundExcluded(c)
  BY <1>1, <1>5, <1>7, <1>8
<1> QED
  BY <1>9, <1>10, <1>11 DEF ii, ie, oi, oe, ssh

\* The rules for what APISIX sends come before those that redirect.
LEMMA OwnPacketsSkipped ==
    ASSUME NEW p \in Packet, NEW c, NEW rules, AreRules(rules, c), Shape(table, rules),
           NEW after, NEW include, NEW excluded, NEW i \in DOMAIN table["OUTPUT"],
           NEW j \in DOMAIN rules,
           LedBy(p, rules, "OUTPUT", after, include, excluded, "APISIX_REDIRECT", i, j)
    PROVE  p.owner = "app"
<1> DEFINE s == table["OUTPUT"]
<1>1. /\ s \in Seq(AnyRule) /\ "OUTPUT" \in DOMAIN table
      /\ "RETURN" \notin DOMAIN table
  BY DEF Shape, IsTable, BuiltinChain, AgentChain
<1>2. FirstHit(p, "OUTPUT", after, i) /\ FollowsAt(s, i, rules, j, "OUTPUT")
  BY DEF LedBy
<1>3. rules[j].rule.to = "APISIX_REDIRECT"
  BY RuleFields DEF LedBy, Leads
<1>4. j \in Nat /\ j >= 5
  <2>1. rules[j].chain = "OUTPUT" /\ j \in Nat
    BY <1>2 DEF FollowsAt, AreRules
  <2>2. \/ rules[j].rule = Rule("any", "any", "uid_over_lo", "RETURN")
        \/ rules[j].rule = Rule("any", "any", "gid", "RETURN")
        \/ j >= 5
    BY <2>1, RulesOfChain
  <2> QED
    BY <1>3, <2>1, <2>2, RuleFields
<1>5. ASSUME NEW k \in {3, 4}, NEW o, rules[k].chain = "OUTPUT",
             rules[k].rule = Rule("any", "any", o, "RETURN"), p.owner = o
      PROVE  FALSE
  <2>1. k \in 1..(j - 1)
    BY <1>4
  <2>2. PICK m \in 1..(i - 1) : s[m] = rules[k].rule
    BY <1>2, <1>5, <2>1 DEF FollowsAt
  <2>3. s[m].to = "RETURN" /\ Matches(s[m], p)
    BY <1>5, <2>2, RuleFields DEF Matches
  <2>4. i \in Nat /\ m \in DOMAIN s /\ m < i
    BY <1>1
  <2>5. m \in Hits(p, "OUTPUT", after)
    BY <1>1, <2>3, <2>4 DEF Hits
  <2> QED
    BY <1>2, <2>4, <2>5 DEF FirstHit
<1>6. /\ rules[3].chain = "OUTPUT" /\ rules[3].rule = Rule("any", "any", "uid_over_lo", "RETURN")
      /\ rules[4].chain = "OUTPUT" /\ rules[4].rule = Rule("any", "any", "gid", "RETURN")
  BY BeginsChains DEF AreRules
<1>7. p.owner # "uid_over_lo" /\ p.owner # "gid"
  BY <1>5, <1>6
<1> QED
  BY <1>7 DEF Packet

\* What the flags c choose for a packet that may be redirected.
SelectedFor(p, c) ==
    /\ p.proto = "tcp"
    /\ p.owner = "app"
    /\ p.hook = "PREROUTING" =>
        Selected(c.InboundPortsInclude, InboundExcluded(c), p.dport)
    /\ p.hook = "OUTPUT" =>
        Selected(c.OutboundPortsInclude, OutboundExcluded(c), p.dport)

PortFor(p) == IF p.hook = "PREROUTING" THEN "InboundCapturePort" ELSE "ProxyPort"

LEMMA WantedFacts ==
    ASSUME NEW p \in Packet, cfg \in Configs
    PROVE  Wanted(p) = IF SelectedFor(p, cfg) THEN PortFor(p) ELSE "passed"
<1>1. p.dport \in Ports /\ (p.hook = "PREROUTING" \/ p.hook = "OUTPUT")
  BY DEF Packet, BuiltinChain
<1>2. /\ Selected(cfg.InboundPortsInclude, InboundExcluded(cfg), p.dport)
            <=> Chosen(cfg.InboundPortsInclude, cfg.InboundPortsExclude \o <<"22">>, p.dport)
      /\ Selected(cfg.OutboundPortsInclude, OutboundExcluded(cfg), p.dport)
            <=> Chosen(cfg.OutboundPortsInclude, cfg.OutboundPortsExclude, p.dport)
  BY <1>1, SelectedIsChosen
<1>3. SelectedFor(p, cfg) <=>
        /\ p.proto = "tcp" /\ p.owner = "app"
        /\ IF p.hook = "PREROUTING"
           THEN Chosen(cfg.InboundPortsInclude, cfg.InboundPortsExclude \o <<"22">>, p.dport)
           ELSE Chosen(cfg.OutboundPortsInclude, cfg.OutboundPortsExclude, p.dport)
  BY <1>1, <1>2 DEF SelectedFor
<1> QED
  BY <1>3 DEF Wanted, PortFor

\* What enters at OUTPUT.
LEMMA OutputWalk ==
    ASSUME NEW p \in Packet, p.hook = "OUTPUT", NEW c \in Configs, NEW rules,
           AreRules(rules, c), Shape(table, rules), NEW after, NEW before,
           after = Walk(p, before)
    PROVE  /\ \/ Walk(p, after)["OUTPUT"] = "passed"
              \/ Walk(p, after)["OUTPUT"] = "ProxyPort" /\ SelectedFor(p, c)
           /\ Added(table, rules, Len(rules)) /\ SelectedFor(p, c) =>
                Walk(p, after)["OUTPUT"] = "ProxyPort"
<1> DEFINE include == c.OutboundPortsInclude
           excluded == OutboundExcluded(c)
           w == Walk(p, after)["OUTPUT"]
           rd == "APISIX_REDIRECT"
<1>1. "OUTPUT" \in DOMAIN table /\ rules \in Seq(ChainRule) /\ rd \in AgentChain
  BY DEF Shape, IsTable, BuiltinChain, AreRules, AgentChain
<1>2. \A j \in DOMAIN rules : rules[j].chain = rd =>
            rules[j].rule = Rule("tcp", "any", "any", "ProxyPort")
  BY RulesOfChain
<1>3. "ProxyPort" \notin {"RETURN"} \cup BuiltinChain \cup AgentChain
  BY DEF BuiltinChain, AgentChain
<1>4. ASSUME rd \in DOMAIN table
      PROVE  /\ after[rd] \in {"passed", "ProxyPort"}
             /\ \A i \in DOMAIN table[rd] :
                    p.proto = "tcp" /\ table[rd][i] = Rule("tcp", "any", "any", "ProxyPort") =>
                        after[rd] = "ProxyPort"
  BY <1>2, <1>3, <1>4, RedirectWalk
<1>5. "any" \notin ToSet(include) /\ "any" \notin excluded
  <2>1. p.dport \in Ports
    BY DEF Packet
  <2> QED
    BY <2>1, FlagFacts, SelectedIsChosen
<1>6. ChoosesAt(rules, "OUTPUT", include, excluded, rd)
  BY ChainsChoose
<1> HIDE DEF include, excluded, rd
<1>7. /\ \/ w = "passed"
         \/ /\ w = "ProxyPort"
            /\ p.proto = "tcp"
            /\ Selected(include, excluded, p.dport)
            /\ \E i \in DOMAIN table["OUTPUT"], j \in DOMAIN rules :
                    LedBy(p, rules, "OUTPUT", after, include, excluded, rd, i, j)
      /\ \A i \in DOMAIN table["OUTPUT"] :
            /\ Selected(include, excluded, p.dport)
            /\ p.owner = "app"
            /\ table["OUTPUT"][i].to = rd
            /\ Matches(table["OUTPUT"][i], p)
            /\ rd \in DOMAIN table => after[rd] = "ProxyPort"
            => w = "ProxyPort"
  <2>1. rd \in DOMAIN table => after[rd] \in {"passed", "ProxyPort"}
    BY <1>4
  <2>2. GoesOn(p, rules, "OUTPUT", after, include, excluded, rd, "ProxyPort")
    BY <1>1, <1>5, <1>6, <2>1, ChoiceWalk
  <2> QED
    BY <2>2 DEF GoesOn
<1> HIDE DEF w
<1>8. w = "passed" \/ (w = "ProxyPort" /\ SelectedFor(p, c))
  <2>1. ASSUME w # "passed" PROVE p.owner = "app"
    <3>1. PICK i \in DOMAIN table["OUTPUT"], j \in DOMAIN rules :
                LedBy(p, rules, "OUTPUT", after, include, excluded, rd, i, j)
      BY <1>7, <2>1
    <3> QED
      BY <3>1, OwnPacketsSkipped DEF rd
  <2> QED
    BY <1>7, <2>1 DEF SelectedFor, include, excluded
<1>9. ASSUME Added(table, rules, Len(rules)), SelectedFor(p, c)
      PROVE  w = "ProxyPort"
  <2>1. /\ p.proto = "tcp" /\ p.owner = "app"
        /\ Selected(include, excluded, p.dport)
    BY <1>9 DEF SelectedFor, include, excluded
  <2>2. DOMAIN rules = 1..Len(rules) /\ 1 \in DOMAIN rules
    BY DEF AreRules, Begins
  <2>3. rd \in DOMAIN table /\ \E i \in DOMAIN table[rd] :
            table[rd][i] = Rule("tcp", "any", "any", "ProxyPort")
    <3>1. rules[1].chain = rd /\ rules[1].rule = Rule("tcp", "any", "any", "ProxyPort")
      BY BeginsChains DEF AreRules, rd
    <3> QED
      BY <1>9, <2>2, <3>1 DEF Added
  <2>4. after[rd] = "ProxyPort"
    BY <1>4, <2>1, <2>3
  <2>5. \E j \in DOMAIN rules, e \in {"any", p.dport} :
            rules[j] = [chain |-> "OUTPUT", rule |-> Rule("tcp", e, "any", rd)]
    <3>1. Provides(rules, include, "OUTPUT", rd)
      BY DEF AreRules, include, rd
    <3>2. p.dport # NoPort
      BY IptablesAssumption DEF Packet
    <3> QED
      BY <2>1, <3>1, <3>2 DEF Provides, Selected
  <2>6. PICK j \in DOMAIN rules, e \in {"any", p.dport} :
            rules[j] = [chain |-> "OUTPUT", rule |-> Rule("tcp", e, "any", rd)]
    BY <2>5
  <2>7. rules[j].chain = "OUTPUT" /\ rules[j].rule = Rule("tcp", e, "any", rd)
    BY <2>6
  <2>8. PICK i \in DOMAIN table["OUTPUT"] : table["OUTPUT"][i] = Rule("tcp", e, "any", rd)
    BY <1>9, <2>2, <2>7 DEF Added
  <2>9. table["OUTPUT"][i].to = rd /\ Matches(table["OUTPUT"][i], p)
    BY <2>1, <2>8, RuleFields DEF Matches
  <2> QED
    BY <1>7, <2>1, <2>4, <2>9
<1> QED
  BY <1>8, <1>9 DEF w

\* What PREROUTING sends to the inbound chain.
LEMMA InboundWalk ==
    ASSUME NEW p \in Packet, p.hook = "PREROUTING", NEW c \in Configs, NEW rules,
           AreRules(rules, c), Shape(table, rules), NEW after, NEW before,
           after = Walk(p, before), "APISIX_INBOUND" \in DOMAIN table
    PROVE  /\ \/ Walk(p, after)["APISIX_INBOUND"] = "passed"
              \/ Walk(p, after)["APISIX_INBOUND"] = "InboundCapturePort" /\ SelectedFor(p, c)
           /\ Added(table, rules, Len(rules)) /\ SelectedFor(p, c) =>
                Walk(p, after)["APISIX_INBOUND"] = "InboundCapturePort"
<1> DEFINE include == c.InboundPortsInclude
           excluded == InboundExcluded(c)
           in == "APISIX_INBOUND"
           w == Walk(p, after)[in]
           rd == "APISIX_INBOUND_REDIRECT"
<1>1. in \in DOMAIN table /\ rules \in Seq(ChainRule) /\ rd \in AgentChain
  BY DEF AreRules, AgentChain
<1>2. \A j \in DOMAIN rules : rules[j].chain = rd =>
            rules[j].rule = Rule("tcp", "any", "any", "InboundCapturePort")
  BY RulesOfChain
<1>3. "InboundCapturePort" \notin {"RETURN"} \cup BuiltinChain \cup AgentChain
  BY DEF BuiltinChain, AgentChain
<1>4. ASSUME rd \in DOMAIN table
      PROVE  /\ after[rd] \in {"passed", "InboundCapturePort"}
             /\ \A i \in DOMAIN table[rd] :
                    p.proto = "tcp"
                        /\ table[rd][i] = Rule("tcp", "any", "any", "InboundCapturePort") =>
                            after[rd] = "InboundCapturePort"
  BY <1>2, <1>3, <1>4, RedirectWalk
<1>5. "any" \notin ToSet(include) /\ "any" \notin excluded /\ p.owner = "app"
  <2>1. p.dport \in Ports /\ p.owner = "app"
    BY DEF Packet
  <2> QED
    BY <2>1, FlagFacts, SelectedIsChosen
<1>6. ChoosesAt(rules, in, include, excluded, rd)
  BY ChainsChoose
<1> HIDE DEF include, excluded, rd, in
<1>7. GoesOn(p, rules, in, after, include, excluded, rd, "InboundCapturePort")
  <2>1. rd \in DOMAIN table => after[rd] \in {"passed", "InboundCapturePort"}
    BY <1>4
  <2> QED
    BY <1>1, <1>5, <1>6, <2>1, ChoiceWalk
<1>8. w = "passed" \/ (w = "InboundCapturePort" /\ SelectedFor(p, c))
  BY <1>5, <1>7 DEF GoesOn, SelectedFor, include, excluded
<1>9. ASSUME Added(table, rules, Len(rules)), SelectedFor(p, c)
      PROVE  w = "InboundCapturePort"
  <2>1. p.proto = "tcp" /\ Selected(include, excluded, p.dport)
    BY <1>9 DEF SelectedFor, include, excluded
  <2>2. DOMAIN rules = 1..Len(rules) /\ 2 \in DOMAIN rules
    BY DEF AreRules, Begins
  <2>3. rd \in DOMAIN table /\ \E i \in DOMAIN table[rd] :
            table[rd][i] = Rule("tcp", "any", "any", "InboundCapturePort")
    <3>1. /\ rules[2].chain = rd
          /\ rules[2].rule = Rule("tcp", "any", "any", "InboundCapturePort")
      BY BeginsChains DEF AreRules, rd
    <3> QED
      BY <1>9, <2>2, <3>1 DEF Added
  <2>4. after[rd] = "InboundCapturePort"
    BY <1>4, <2>1, <2>3
  <2>5. \E j \in DOMAIN rules, e \in {"any", p.dport} :
            rules[j] = [chain |-> in, rule |-> Rule("tcp", e, "any", rd)]
    <3>1. include # <<>>
      <4>1. ASSUME include = <<>> PROVE include # <<"*">> /\ ToSet(include) = {}
        BY <4>1 DEF ToSet
      <4> QED
        BY <2>1, <4>1 DEF Selected
    <3>2. Provides(rules, include, in, rd)
      BY <3>1 DEF AreRules, include, in, rd
    <3>3. p.dport # NoPort
      BY IptablesAssumption DEF Packet
    <3> QED
      BY <2>1, <3>2, <3>3 DEF Provides, Selected
  <2>6. PICK j \in DOMAIN rules, e \in {"any", p.dport} :
            rules[j] = [chain |-> in, rule |-> Rule("tcp", e, "any", rd)]
    BY <2>5
  <2>7. rules[j].chain = in /\ rules[j].rule = Rule("tcp", e, "any", rd)
    BY <2>6
  <2>8. PICK i \in DOMAIN table[in] : table[in][i] = Rule("tcp", e, "any", rd)
    BY <1>9, <2>2, <2>7 DEF Added
  <2>9. table[in][i].to = rd /\ Matches(table[in][i], p)
    BY <2>1, <2>8, RuleFields DEF Matches
  <2> QED
    BY <1>5, <1>7, <2>1, <2>4, <2>9 DEF GoesOn
<1> QED
  BY <1>8, <1>9 DEF w, in

\* A set-up with inbound ports has the rule that leads to the inbound chain.
LEMMA JumpAdded ==
    ASSUME NEW c, NEW rules, AreRules(rules, c), Added(table, rules, Len(rules)),
           Shape(table, rules), c.InboundPortsInclude # <<>>
    PROVE  /\ \E i \in DOMAIN table["PREROUTING"] : table["PREROUTING"][i] = Jump
           /\ "APISIX_INBOUND" \in DOMAIN table
<1>1. PICK j \in DOMAIN rules : rules[j] = [chain |-> "PREROUTING", rule |-> Jump]
  BY DEF AreRules
<1>2. j \in 1..Len(rules) /\ rules[j].chain = "PREROUTING" /\ rules[j].rule = Jump
  BY <1>1 DEF AreRules
<1>3. PICK i \in DOMAIN table["PREROUTING"] : table["PREROUTING"][i] = Jump
  BY <1>2 DEF Added
<1>4. "APISIX_INBOUND" \in DOMAIN table
  <2>1. Jump.to = "APISIX_INBOUND" /\ "APISIX_INBOUND" \in AgentChain
    BY RuleFields DEF Jump, AgentChain
  <2>2. "PREROUTING" \in DOMAIN table
    BY DEF Shape, IsTable, BuiltinChain
  <2> QED
    BY <1>3, <2>1, <2>2 DEF Shape, Closed
<1> QED
  BY <1>3, <1>4

\* What enters at PREROUTING.
LEMMA PreroutingWalk ==
    ASSUME NEW p \in Packet, p.hook = "PREROUTING", NEW c \in Configs, NEW rules,
           AreRules(rules, c), Shape(table, rules), NEW after, NEW before, NEW start,
           after = Walk(p, before), before = Walk(p, start)
    PROVE  /\ \/ Walk(p, after)["PREROUTING"] = "passed"
              \/ Walk(p, after)["PREROUTING"] = "InboundCapturePort" /\ SelectedFor(p, c)
           /\ Added(table, rules, Len(rules)) /\ SelectedFor(p, c) =>
                Walk(p, after)["PREROUTING"] = "InboundCapturePort"
<1> DEFINE pre == "PREROUTING"
           in == "APISIX_INBOUND"
           w == Walk(p, after)[pre]
           hits == Hits(p, pre, after)
<1>1. pre \in DOMAIN table /\ table[pre] \in Seq(AnyRule)
  BY DEF Shape, IsTable, BuiltinChain
<1>2. Jump.to = in /\ in # "RETURN"
  BY RuleFields DEF Jump
<1>3. in \in DOMAIN table =>
        /\ after[in] = "passed" \/ (after[in] = "InboundCapturePort" /\ SelectedFor(p, c))
        /\ Added(table, rules, Len(rules)) /\ SelectedFor(p, c) =>
                after[in] = "InboundCapturePort"
  BY InboundWalk
<1>4. \A i \in hits : table[pre][i] = Jump
  <2> TAKE i \in hits
  <2>1. PICK j \in DOMAIN rules : FollowsAt(table[pre], i, rules, j, pre)
    BY <1>1, HitFacts
  <2> QED
    BY <2>1, RulesOfChain DEF FollowsAt
<1>5. \/ hits = {} /\ w = "passed"
      \/ \E i \in DOMAIN table[pre] :
            FirstHit(p, pre, after, i) /\ w = Verdict(table[pre][i].to, after)
  BY <1>1, WalkFacts
<1>6. \/ hits = {} /\ w = "passed"
      \/ in \in DOMAIN table /\ w = after[in]
  <2> HIDE DEF w, in
  <2>1. ASSUME NEW i \in DOMAIN table[pre], FirstHit(p, pre, after, i),
               w = Verdict(table[pre][i].to, after)
        PROVE  in \in DOMAIN table /\ w = after[in]
    <3>1. table[pre][i].to = in
      BY <1>2, <1>4, <2>1 DEF FirstHit
    <3>2. in \in DOMAIN table
      BY <1>1, <3>1 DEF Shape, Closed, in, AgentChain
    <3> QED
      BY <1>2, <2>1, <3>1, <3>2 DEF Verdict
  <2> QED
    BY <1>5, <2>1
<1>7. w = "passed" \/ (w = "InboundCapturePort" /\ SelectedFor(p, c))
  BY <1>3, <1>6
<1>8. ASSUME Added(table, rules, Len(rules)), SelectedFor(p, c)
      PROVE  w = "InboundCapturePort"
  <2>1. c.InboundPortsInclude # <<>>
    <3> DEFINE include == c.InboundPortsInclude
    <3>1. Selected(include, InboundExcluded(c), p.dport)
      BY <1>8 DEF SelectedFor
    <3> HIDE DEF include
    <3>2. ASSUME include = <<>> PROVE include # <<"*">> /\ ToSet(include) = {}
      BY <3>2 DEF ToSet
    <3> QED
      BY <3>1, <3>2 DEF Selected, include
  <2>2. PICK i \in DOMAIN table[pre] : table[pre][i] = Jump
    BY <1>8, <2>1, JumpAdded
  <2>3. in \in DOMAIN table
    BY <1>8, <2>1, JumpAdded
  <2>4. after[in] = "InboundCapturePort"
    BY <1>3, <1>8, <2>3
  <2>5. Matches(Jump, p)
    BY <1>8, RuleFields DEF Jump, Matches, SelectedFor
  <2>6. i \in hits
    BY <1>2, <2>2, <2>4, <2>5 DEF Hits
  <2> QED
    BY <1>6, <2>4, <2>6
<1> QED
  BY <1>7, <1>8

\* What becomes of a packet, from the table alone.
LEMMA FateFacts ==
    ASSUME NEW p \in Packet, Inv
    PROVE  /\ \/ Fate(p) = "passed"
              \/ Fate(p) = PortFor(p) /\ SelectedFor(p, cfg)
           /\ Added(table, Rules(cfg), Len(Rules(cfg))) /\ SelectedFor(p, cfg) =>
                Fate(p) = PortFor(p)
<1> DEFINE rules == Rules(cfg)
           w0 == [chain \in DOMAIN table |-> "passed"]
           w1 == Walk(p, w0)
           w2 == Walk(p, w1)
<1>1. Fate(p) = Walk(p, w2)[p.hook]
  BY DEF Fate
<1>2. cfg \in Configs /\ Shape(table, rules)
  BY DEF Inv, StateOK
<1>3. AreRules(rules, cfg)
  BY <1>2, RulesAre
<1>4. p.hook = "PREROUTING" \/ p.hook = "OUTPUT"
  BY DEF Packet, BuiltinChain
<1>5. w1 = Walk(p, w0) /\ w2 = Walk(p, w1)
  OBVIOUS
<1> HIDE DEF rules, w0, w1, w2
<1>6. CASE p.hook = "PREROUTING"
  <2>1. /\ \/ Walk(p, w2)["PREROUTING"] = "passed"
           \/ Walk(p, w2)["PREROUTING"] = "InboundCapturePort" /\ SelectedFor(p, cfg)
        /\ Added(table, rules, Len(rules)) /\ SelectedFor(p, cfg) =>
                Walk(p, w2)["PREROUTING"] = "InboundCapturePort"
    BY <1>2, <1>3, <1>5, <1>6, PreroutingWalk
  <2> QED
    BY <1>1, <1>6, <2>1 DEF PortFor, rules
<1>7. CASE p.hook = "OUTPUT"
  <2>1. /\ \/ Walk(p, w2)["OUTPUT"] = "passed"
           \/ Walk(p, w2)["OUTPUT"] = "ProxyPort" /\ SelectedFor(p, cfg)
        /\ Added(table, rules, Len(rules)) /\ SelectedFor(p, cfg) =>
                Walk(p, w2)["OUTPUT"] = "ProxyPort"
    BY <1>2, <1>3, <1>5, <1>7, OutputWalk
  <2> QED
    BY <1>1, <1>7, <2>1 DEF PortFor, rules
<1> QED
  BY <1>4, <1>6, <1>7

\* Whatever set-ups and clean-ups have failed or been killed at whatever change, and for
\* any flags and any packet: it passes, or is redirected where the set-up in force says
\* (iptables.go puts the skipping rules first, and excluded ports before the catch-all).
THEOREM NeverMisledHolds == Spec => []NeverMisled
<1>1. Inv => NeverMisled
  <2> SUFFICES ASSUME Inv, NEW p \in Packet
               PROVE  Fate(p) \in {"passed", Wanted(p)}
    BY DEF NeverMisled
  <2>1. cfg \in Configs
    BY DEF Inv, StateOK
  <2>2. Wanted(p) = IF SelectedFor(p, cfg) THEN PortFor(p) ELSE "passed"
    BY <2>1, WantedFacts
  <2>3. \/ Fate(p) = "passed"
        \/ Fate(p) = PortFor(p) /\ SelectedFor(p, cfg)
    BY FateFacts
  <2> QED
    BY <2>2, <2>3
<1> QED
  BY <1>1, InvHolds, PTL

\* For any flags, and whatever half-made tables came before: a set-up that has got to the
\* end of executeCommand redirects exactly the packets that its flags choose, to the port
\* their descriptions name.
THEOREM SetUpWorksHolds == Spec => []SetUpWorks
<1>1. Inv => SetUpWorks
  <2> DEFINE rules == Rules(cfg)
  <2> SUFFICES ASSUME Inv, SetUpDone, NEW p \in Packet
               PROVE  Fate(p) = Wanted(p)
    BY DEF SetUpWorks
  <2>1. Added(table, rules, Len(rules))
    BY DEF Inv, Ended, SetUpDone
  <2>2. cfg \in Configs
    BY DEF Inv, StateOK
  <2>3. Wanted(p) = IF SelectedFor(p, cfg) THEN PortFor(p) ELSE "passed"
    BY <2>2, WantedFacts
  <2>4. /\ \/ Fate(p) = "passed"
           \/ Fate(p) = PortFor(p) /\ SelectedFor(p, cfg)
        /\ SelectedFor(p, cfg) => Fate(p) = PortFor(p)
    BY <2>1, FateFacts
  <2> QED
    BY <2>3, <2>4
<1> QED
  BY <1>1, InvHolds, PTL

\* Whatever commands have failed or been killed: as long as any inbound packet is
\* redirected, precheck (check of precheck.go) finds all four chains it looks for.  The
\* chain that a set-up makes first is not gone before those that packets come through.
THEOREM NoFalseAlarmHolds == Spec => []NoFalseAlarm
<1>1. Inv => NoFalseAlarm
  <2> SUFFICES ASSUME Inv, ~Check("file", "directory"),
                      NEW p \in Packet, p.hook = "PREROUTING"
               PROVE  Fate(p) = "passed"
    BY DEF NoFalseAlarm
  <2>1. Shape(table, Rules(cfg)) /\ Bare(table)
    BY DEF Inv
  <2>2. "PREROUTING" \in DOMAIN table /\ "OUTPUT" \in DOMAIN table
    BY <2>1 DEF Shape, IsTable, BuiltinChain
  <2>3. "APISIX_INBOUND" \notin DOMAIN table
    <3>1. "APISIX_INBOUND" \notin DOMAIN table \/ "APISIX_REDIRECT" \notin DOMAIN table
      BY <2>2 DEF Check
    <3> QED
      BY <2>1, <3>1 DEF Bare
  <2>4. table["PREROUTING"] = <<Foreign>>
    <3>1. ASSUME table["PREROUTING"] = <<Foreign, Jump>> PROVE FALSE
      <4>1. 2 \in DOMAIN table["PREROUTING"] /\ table["PREROUTING"][2] = Jump
        BY <3>1
      <4>2. Jump.to = "APISIX_INBOUND" /\ Jump.to \in AgentChain
        BY DEF Jump, Rule, AgentChain
      <4> QED
        BY <2>1, <2>2, <2>3, <4>1, <4>2 DEF Shape, Closed
    <3> QED
      BY <2>1, <3>1 DEF Shape
  <2> DEFINE w0 == [chain \in DOMAIN table |-> "passed"]
             w2 == Walk(p, Walk(p, w0))
  <2>5. Fate(p) = Walk(p, w2)["PREROUTING"]
    BY DEF Fate
  <2> HIDE DEF w2
  <2>6. Hits(p, "PREROUTING", w2) = {}
    <3>1. \A i \in DOMAIN table["PREROUTING"] : table["PREROUTING"][i] = Foreign
      BY <2>4
    <3> QED
      BY <3>1, NoForeign DEF Hits
  <2>7. table["PREROUTING"] \in Seq(AnyRule)
    BY <2>1, <2>2 DEF Shape, IsTable
  <2>8. Walk(p, w2)["PREROUTING"] = "passed"
    BY <2>2, <2>6, <2>7, WalkFacts DEF FirstHit
  <2> QED
    BY <2>5, <2>8
<1> QED
  BY <1>1, InvHolds, PTL

\* After any history, one clean-up (removeOldChains, which ignores what fails) that has
\* tried its last change leaves no chain of the agent, no rule that goes to one, and in
\* PREROUTING what others have put there.
THEOREM CleanUpRestoresHolds == Spec => []CleanUpRestores
<1>1. Inv => CleanUpRestores
  <2> SUFFICES ASSUME Inv, command = "none",
                      outcome = [command |-> "cleanup-iptables", how |-> "done"]
               PROVE  /\ DOMAIN table = BuiltinChain
                      /\ table["PREROUTING"] = <<Foreign>>
                      /\ \A p \in Packet : Fate(p) = "passed"
    BY DEF CleanUpRestores
  <2>1. Removed(table, 10)
    BY DEF Inv, Ended
  <2>2. cfg \in Configs /\ Shape(table, Rules(cfg))
    BY DEF Inv, StateOK
  <2>3. DOMAIN table = BuiltinChain
    <3>1. /\ "APISIX_INBOUND" \notin DOMAIN table
          /\ "APISIX_REDIRECT" \notin DOMAIN table
          /\ "APISIX_INBOUND_REDIRECT" \notin DOMAIN table
      BY <2>1 DEF Removed
    <3>2. BuiltinChain \subseteq DOMAIN table /\ DOMAIN table \subseteq BuiltinChain \cup AgentChain
      BY <2>2 DEF Shape, IsTable
    <3> DEFINE D == DOMAIN table
    <3> HIDE DEF D
    <3>3. \A x \in AgentChain : x \notin D
      BY <3>1 DEF AgentChain, D
    <3> QED
      BY <3>2, <3>3 DEF D
  <2>4. table["PREROUTING"] = <<Foreign>> /\ table["OUTPUT"] = <<>>
    BY <2>1 DEF Removed
  <2>5. ASSUME NEW p \in Packet PROVE Fate(p) = "passed"
    <3> DEFINE w0 == [chain \in DOMAIN table |-> "passed"]
               w2 == Walk(p, Walk(p, w0))
    <3>1. Fate(p) = Walk(p, w2)[p.hook]
      BY DEF Fate
    <3>2. p.hook \in BuiltinChain /\ (p.hook = "PREROUTING" \/ p.hook = "OUTPUT")
      BY DEF Packet, BuiltinChain
    <3> HIDE DEF w2
    <3>3. \A i \in DOMAIN table[p.hook] : table[p.hook][i] = Foreign
      <4>1. CASE p.hook = "PREROUTING"
        BY <2>4, <4>1
      <4>2. CASE p.hook = "OUTPUT"
        BY <2>4, <4>2
      <4> QED
        BY <3>2, <4>1, <4>2
    <3>4. Hits(p, p.hook, w2) = {}
      BY <3>3, NoForeign DEF Hits
    <3>5. table[p.hook] \in Seq(AnyRule) /\ p.hook \in DOMAIN table
      BY <2>2, <2>3, <3>2 DEF Shape, IsTable
    <3>6. Walk(p, w2)[p.hook] = "passed"
      BY <3>4, <3>5, WalkFacts DEF FirstHit
    <3> QED
      BY <3>1, <3>6
  <2> QED
    BY <2>3, <2>4, <2>5
<1> QED
  BY <1>1, InvHolds, PTL
=============================================================================
