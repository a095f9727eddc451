----------------------------- MODULE MCManifest -----------------------------
(***************************************************************************)
(* Checks the translation of module Adaptor and the events of module       *)
(* Manifest against what they are for.  The states that module Follower    *)
(* moves between are plain lists of objects, where an id may occur twice,  *)
(* and translations of xDS resources, and APISIX serves requests from the  *)
(* memory.  The resources vary one part at a time from a plain base.       *)
(***************************************************************************)
EXTENDS Follower, Adaptor

CONSTANTS
    RouteIds,       \* ids of routes
    UpstreamIds,    \* ids of upstreams
    Vals,           \* contents an object may have
    MaxRoutes,      \* bound: routes in a state
    MaxUpstreams    \* bound: upstreams in a state

VARIABLE source     \* the xDS resources that current is translated from, or NoSource

vars == <<source, current, memory>>

Objects(ids, n) == UNION {[1..i -> [id : ids, val : [content : Vals]]] : i \in 0..n}

Lists == [routes : Objects(RouteIds, MaxRoutes),
          upstreams : Objects(UpstreamIds, MaxUpstreams)]

-----------------------------------------------------------------------------
(* The xDS resources.                                                      *)

Texts == {<<"a">>, <<"a", "b">>, <<"A">>, <<"a", ".">>}

Headers ==
    [name : {<<"X", "-", "a">>}, invert : BOOLEAN, text : Texts,
     kind : {"exact", "prefix", "suffix", "contains", "regex", "present"}]

Params ==
    [name : {<<"p">>}, ignoreCase : BOOLEAN, text : Texts,
     kind : {"exact", "prefix", "suffix", "contains", "regex", "present"}]

Method == [name |-> <<":method">>, invert |-> FALSE, text |-> <<"a">>, kind |-> "exact"]
Unknown == [name |-> <<"X", "-", "a">>, invert |-> FALSE, text |-> <<"a">>, kind |-> "other"]

BaseRoute ==
    [name |-> <<"r">>, insensitive |-> FALSE, action |-> "cluster", cluster |-> <<"c">>,
     path |-> [kind |-> "prefix", text |-> <<"/", "a">>], headers |-> <<>>, params |-> <<>>]

RouteLists ==
    {<<[BaseRoute EXCEPT !.headers = <<h>>]>> : h \in Headers \cup {Unknown}}
    \cup {<<[BaseRoute EXCEPT !.headers = <<h, Method>>]>> :
            h \in {g \in Headers : g.text = <<"a">>}}
    \cup {<<[BaseRoute EXCEPT !.params = <<p>>]>> : p \in Params}
    \cup {<<[BaseRoute EXCEPT !.path = p]>> :
            p \in [kind : {"path", "regex"}, text : {<<"/", "a">>}]}
    \cup {<<[BaseRoute EXCEPT !.insensitive = TRUE]>>,
          <<[BaseRoute EXCEPT !.action = "redirect"], BaseRoute>>,
          <<[BaseRoute EXCEPT !.name = <<>>],
            [BaseRoute EXCEPT !.name = <<>>, !.cluster = <<"d">>]>>,
          <<BaseRoute, [BaseRoute EXCEPT !.name = <<"allow_any">>, !.cluster = <<"d">>]>>}

DomainLists ==
    {<<<<"h1">>>>, <<<<"*">>>>, <<<<"h1">>, <<"h2">>>>, <<<<"h2">>, <<"h1">>>>,
     <<<<"h2">>, <<"h1", ":80">>, <<"h1">>>>, <<<<"h1">>, <<"*">>, <<"h2">>>>}

Conf(name, domains, routes) ==
    [name |-> name,
     vhosts |-> <<[name |-> <<"v", ".svc.cluster.local">>, domains |-> domains,
                   routes |-> routes]>>]

Listener(ip, port, kind) ==
    [address |-> <<ip, ":">> \o port, filters |-> <<[kind |-> kind, conf |-> <<"web">>]>>]

P80 == <<"8", "0">>
P81 == <<"8", "1">>
P180 == <<"1", "8", "0">>

ListenerLists ==
    {<<Listener("0.0.0.0", P80, "rds")>>,
     <<Listener("10.0.0.1", P80, "rds")>>,
     <<Listener("0.0.0.0", P80, "rds"), Listener("10.0.0.1", P81, "rds")>>,
     <<Listener("10.0.0.1", P81, "static"), Listener("0.0.0.0", P81, "other")>>,
     <<[address |-> <<>>, filters |-> <<[kind |-> "rds", conf |-> <<"web">>]>>]>>,
     <<Listener("0.0.0.0", P80, "rds"), Listener("0.0.0.0", P81, "broken")>>}

Endpoint(host, weight, address, named) ==
    [host |-> host, port |-> 80, weight |-> weight, address |-> address, namedPort |-> named]

BaseCluster ==
    [name |-> <<"c">>, lb |-> "ROUND_ROBIN", connectTimeout |-> Unset, custom |-> FALSE,
     type |-> "STATIC", la |-> <<>>]

Weights == {Unset, 1, 101, 2^(WeightBits - 1) - 1, 2^(WeightBits - 1)}

Clusters ==
    {[BaseCluster EXCEPT !.la = <<[weight |-> l, endpoints |->
        <<Endpoint("e1", w, "tcp", FALSE), Endpoint("e2", w, "udp", FALSE),
          Endpoint("e3", w, "tcp", TRUE), Endpoint("e4", 2, "tcp", FALSE)>>]>>] :
        l \in {Unset, 3}, w \in Weights}
    \cup {[BaseCluster EXCEPT !.lb = "MAGLEV"], [BaseCluster EXCEPT !.custom = TRUE],
          [BaseCluster EXCEPT !.type = "EDS", !.lb = "LEAST_REQUEST"],
          [BaseCluster EXCEPT !.connectTimeout = 5]}

Resources ==
    LET base == <<Conf(<<"web">>, <<<<"h1">>>>, <<BaseRoute>>)>>
    IN  {[listeners |-> <<>>, clusters |-> <<>>,
          confs |-> <<Conf(<<"web">>, <<<<"h1">>>>, rs)>>] : rs \in RouteLists}
        \cup {[listeners |-> <<>>, clusters |-> <<>>,
               confs |-> <<Conf(<<>>, ds, <<BaseRoute>>)>>] : ds \in DomainLists}
        \cup {[listeners |-> ls, clusters |-> <<>>, confs |-> base] : ls \in ListenerLists}
        \cup {[listeners |-> <<>>, clusters |-> <<c>>, confs |-> <<>>] : c \in Clusters}

Translated == [res \in {r \in Resources : Translatable(r)} |-> Translate(res)]

MCWorlds == Lists \cup {Translated[res] : res \in DOMAIN Translated}

-----------------------------------------------------------------------------

NoSource == [listeners |-> <<>>, clusters |-> <<>>, confs |-> <<>>]

Init == source = NoSource /\ FollowInit

FromList ==
    \E world \in Lists :
        /\ source' = NoSource
        /\ Replace(world)

FromResources ==
    \E res \in DOMAIN Translated :
        /\ source' = res
        /\ Replace(Translated[res])

Next == FromList \/ FromResources

Spec == Init /\ [][Next]_vars

-----------------------------------------------------------------------------
(* Requests, and who accepts them.  The value of a header and of a         *)
(* parameter is there and is not empty.                                    *)

Values == {<<"a">>, <<"b">>, <<"A">>, <<"a", "b">>, <<"b", "a">>, <<"a", "b", "a">>}

Requests ==
    [host : {"h1", "h2"}, path : {<<"/", "a">>, <<"/", "a", "b">>, <<"/", "b">>},
     method : {<<"a">>, <<"b">>}, header : Values, param : Values,
     dst : {<<"10.0.0.1", ":">> \o P80, <<"10.0.0.1", ":">> \o P81,
            <<"10.0.0.2", ":">> \o P80, <<"10.0.0.1", ":">> \o P180}]

\* The text occurs in v from position i on; a dot stands for any character.
OccursAt(text, v, i, fold) ==
    /\ i + Len(text) <= Len(v)
    /\ \A j \in DOMAIN text :
        \/ text[j] \in {".", v[i + j]}
        \/ fold /\ ToLower(<<text[j]>>) = ToLower(<<v[i + j]>>)

\* A regular expression, which may be anchored, is found in v.
Found(regex, v, fold) ==
    LET anchored == regex # <<>> /\ regex[1] = "^"
        ended == regex # <<>> /\ regex[Len(regex)] = "$"
        text == SelectSeq(regex, LAMBDA c : c \notin {"^", "$"})
    IN  \E i \in 0..Len(v) :
            /\ OccursAt(text, v, i, fold)
            /\ anchored => i = 0
            /\ ended => i + Len(text) = Len(v)

ValueOf(name, q) ==
    CASE name = <<"request_method">>          -> q.method
      [] name = <<"http_", "x", "_", "a">>    -> q.header
      [] name = <<"arg_", "p">>               -> q.param
      [] name = <<"connection_original_dst">> -> q.dst

\* APISIX: the route r serves the request q.
Serves(r, q) ==
    /\ r.hosts = <<>> \/ q.host \in ToSet(r.hosts)
    /\ IF r.uri[Len(r.uri)] = "*"
       THEN IsPrefix(SubSeq(r.uri, 1, Len(r.uri) - 1), q.path) ELSE r.uri = q.path
    /\ \A i \in DOMAIN r.vars :
        LET var == r.vars[i]
            v == ValueOf(var.name, q)
        IN  IF var.op = "==" THEN v = var.value
            ELSE Found(var.value, v, var.op = "~*") # var.neg

\* xDS: the matcher m accepts the value v.  A regular expression matches all of it.
Accepts(m, v, fold) ==
    LET at(i) == OccursAt(m.text, v, i, fold)
        literal(i) == at(i) /\ \A j \in DOMAIN m.text : m.text[j] = "." => v[i + j] = "."
    IN  CASE m.kind = "present"  -> TRUE
          [] m.kind = "exact"    -> literal(0) /\ Len(v) = Len(m.text)
          [] m.kind = "prefix"   -> literal(0)
          [] m.kind = "suffix"   -> Len(v) >= Len(m.text) /\ literal(Len(v) - Len(m.text))
          [] m.kind = "contains" -> \E i \in 0..Len(v) : literal(i)
          [] m.kind = "regex"    -> OccursAt(m.text, v, 0, FALSE) /\ Len(v) = Len(m.text)

\* xDS: the route r of the virtual host accepts the request q.
RouteAccepts(vhost, r, q) ==
    /\ \E i \in DOMAIN vhost.domains : vhost.domains[i][1] \in {"*", q.host}
    /\ IF r.path.kind = "prefix" THEN IsPrefix(r.path.text, q.path) ELSE r.path.text = q.path
    /\ \A i \in DOMAIN r.headers :
        LET h == r.headers[i]
        IN  Accepts(h, IF h = Method THEN q.method ELSE q.header, FALSE) # h.invert
    /\ \A i \in DOMAIN r.params : Accepts(r.params[i], q.param, r.params[i].ignoreCase)

\* Nothing in the matchers is taken for a regular expression that is none, or
\* matches less as one in full.
Plain(r) ==
    LET ms == ToSet([i \in DOMAIN r.headers |-> [kind |-> r.headers[i].kind,
                                                 text |-> r.headers[i].text]])
              \cup ToSet([i \in DOMAIN r.params |-> [kind |-> r.params[i].kind,
                                                     text |-> r.params[i].text]])
    IN  \A m \in ms : m.kind # "regex" /\ "." \notin ToSet(m.text)

Inverts(r) == \E i \in DOMAIN r.headers : r.headers[i].invert

Supported(r) ==
    /\ ~r.insensitive
    /\ r.action = "cluster"
    /\ r.path.kind \in {"path", "prefix"}
    /\ \A i \in DOMAIN r.headers : r.headers[i].kind # "other"

\* The routes of the resources, with all they are matched by.
SourceRoutes ==
    {[conf |-> c, vhost |-> c.vhosts[1], route |-> r] :
        <<c, r>> \in UNION {{c} \X ToSet(c.vhosts[1].routes) : c \in ToSet(source.confs)}}

InMemory(s) == memory[GenID(RouteName(s.route, s.vhost, NamedOr(s.conf.name)))]

\* The listeners on a socket that name the configuration.
ListenersOf(s) ==
    {l \in ToSet(source.listeners) :
        /\ l.address # <<>>
        /\ \E i \in DOMAIN l.filters :
            l.filters[i].kind \in {"rds", "static"} /\ l.filters[i].conf = s.conf.name}

PortOf(address) == SubSeq(address, 3, Len(address))

\* A connection to dst is one of the listener's.
Arrives(l, dst) ==
    PortOf(dst) = PortOf(l.address) /\ l.address[1] \in {"0.0.0.0", dst[1]}
-----------------------------------------------------------------------------
(* Properties.                                                             *)

\* The resources but for the order and the number of the domains.
UpToDomains(res) ==
    [res EXCEPT !.confs = [i \in DOMAIN @ |->
        [@[i] EXCEPT !.vhosts = [j \in DOMAIN @ |->
            [@[j] EXCEPT !.domains = {d[1] : d \in ToSet(@)}]]]]]

\* A control plane that lists the domains of a virtual host in another order, or one
\* of them twice, causes no events ("avoid unstable array for diff" in
\* translateVirtualHost).
DomainsStable ==
    [][source # NoSource /\ UpToDomains(source) = UpToDomains(source')
        => GenerateEvents(current', current) = <<>>]_vars

\* The route APISIX is left with serves the requests that the xDS route accepts: all
\* of them when nothing is inverted, and exactly those when no matcher holds a
\* regular expression or a character that is special in one (route.go turns every
\* matcher into a regular expression and escapes nothing).  Routes that APISIX cannot
\* express are not there.  For names that occur once, and requests that come by a
\* connection to the listener, when one listener names the configuration.
RoutesAgree ==
    \A s \in SourceRoutes :
        \/ \E t \in SourceRoutes : t # s /\ t.route.name = s.route.name
        \/ ~Supported(s.route) /\ InMemory(s) = NoObject
        \/ /\ Supported(s.route)
           /\ InMemory(s) # NoObject
           /\ \A q \in Requests :
                LET accepted == RouteAccepts(s.vhost, s.route, q)
                    served == Serves(InMemory(s), q)
                IN  (\A l \in ListenersOf(s) : Arrives(l, q.dst)) =>
                        /\ Plain(s.route) => (served <=> accepted)
                        /\ ~Inverts(s.route) /\ accepted => served

\* "to avoid the cross-listener-use of routes" (TranslateOptions): a route whose
\* configuration some listener names serves only connections to one of those that
\* do.  Except that the port of a listener on any address is compared from its end,
\* so a destination whose port ends in the same digits is let through.
ListenersApart ==
    \A s \in SourceRoutes :
        ListenersOf(s) # {} /\ InMemory(s) # NoObject =>
            \A q \in Requests :
                Serves(InMemory(s), q) =>
                    \E l \in ListenersOf(s) :
                        \/ Arrives(l, q.dst)
                        \/ /\ l.address[1] = "0.0.0.0"
                           /\ IsSuffix(PortOf(l.address), PortOf(q.dst))

\* The upstream APISIX is left with keeps the endpoints of a cluster apart as xDS
\* does: within a locality a heavier endpoint is no lighter node, and no node has a
\* weight below 1, as long as the weights fit in an int32 (uint32 weights are
\* converted without a check in TranslateClusterLoadAssignment).
NodesWeighted ==
    \A c \in ToSet(source.clusters) :
        LET ups == memory[GenID(c.name)]
            weight(host) == LET i == CHOOSE i \in DOMAIN ups.nodes : ups.nodes[i].host = host
                            IN  ups.nodes[i].weight
            hosts == {ups.nodes[i].host : i \in DOMAIN ups.nodes}
            fits(w) == 0 < w /\ w < 2^(WeightBits - 1)
        IN  ups # NoObject =>
            \A k \in DOMAIN c.la :
                \A e1, e2 \in ToSet(c.la[k].endpoints) :
                    {e1.host, e2.host} \subseteq hosts /\ fits(e1.weight) /\ fits(e2.weight) =>
                        /\ weight(e1.host) >= 1
                        /\ e1.weight > e2.weight => weight(e1.host) > weight(e2.host)
=============================================================================
