------------------------------- MODULE Adaptor -------------------------------
(***************************************************************************)
(* The translation of xDS resources into routes and upstreams              *)
(* (pkg/adaptor/xds/v3).  A text is a sequence of characters or larger     *)
(* tokens.  A translated object is a record with an id and a val, as       *)
(* module Manifest compares them.                                          *)
(***************************************************************************)
EXTENDS Integers, Sequences
LOCAL INSTANCE SequencesExt

CONSTANT WeightBits     \* width of a weight (32 in the code)

ASSUME WeightBitsAssumption == WeightBits \in Nat /\ WeightBits >= 8

\* CRC32 is taken to send different texts to different ids.
GenID(raw) == IF raw = <<>> THEN <<>> ELSE <<"crc32">> \o raw

Anon == <<"<anon>">>
NamedOr(name) == IF name = <<>> THEN Anon ELSE name

\* StringSet.OrderedStrings: one order per set, whatever order it was filled in.
OrderedStrings(S) == SetToSeq(S)

-----------------------------------------------------------------------------
(* Routes.  A matcher is a record with a kind and a text.                  *)

ToLower(text) ==
    LET lower == [c \in {"A", "B", "X"} |->
                    CASE c = "A" -> "a" [] c = "B" -> "b" [] c = "X" -> "x"]
    IN  [i \in DOMAIN text |->
            IF text[i] \in DOMAIN lower THEN lower[text[i]] ELSE text[i]]

Underscored(text) == [i \in DOMAIN text |-> IF text[i] = "-" THEN "_" ELSE text[i]]

\* Mutant: a prefix is not anchored.
getStringMatchValue_Loose(m) ==
    CASE m.kind = "exact"  -> <<"^">> \o m.text \o <<"$">>
      [] m.kind = "suffix" -> m.text \o <<"$">>
      [] OTHER             -> m.text

\* The regular expression of a matcher; nothing is escaped.  There is none for a matcher
\* without one of these patterns: the code panics.
getStringMatchValue(m) ==
    CASE m.kind = "exact"                 -> <<"^">> \o m.text \o <<"$">>
      [] m.kind = "prefix"                -> <<"^">> \o m.text
      [] m.kind = "suffix"                -> m.text \o <<"$">>
      [] m.kind \in {"contains", "regex"} -> m.text

Var(name, neg, op, value) == [name |-> name, neg |-> neg, op |-> op, value |-> value]

getParametersMatchVars(params) ==
    LET var(p) ==
          LET name == <<"arg_">> \o p.name
          IN  CASE p.kind = "present" -> Var(name, TRUE, "~~", <<"^", "$">>)
                [] p.kind = "unset"   -> Var(<<>>, FALSE, "", <<>>)
                [] OTHER -> Var(name, FALSE, IF p.ignoreCase THEN "~*" ELSE "~~",
                                getStringMatchValue(p))
    IN  [i \in DOMAIN params |-> var(params[i])]

HeaderName(name) ==
    CASE name = <<":method">>    -> <<"request_method">>
      [] name = <<":authority">> -> <<"http_host">>
      [] OTHER                   -> <<"http_">> \o Underscored(ToLower(name))

\* The vars and whether the route is skipped because of an unknown matcher.
getHeadersMatchVars(headers) ==
    LET value(h) == IF h.kind = "present" THEN <<>> ELSE getStringMatchValue(h)
    IN  IF \E i \in DOMAIN headers : headers[i].kind = "other"
        THEN [vars |-> <<>>, skip |-> TRUE]
        ELSE [vars |-> [i \in DOMAIN headers |->
                          Var(HeaderName(headers[i].name), headers[i].invert, "~~",
                              value(headers[i]))],
              skip |-> FALSE]

\* Only a route to one named cluster is translated.
SkipCluster(route) == route.action # "cluster"

SkipURL(route) == route.path.kind \notin {"path", "prefix"}

getURL(route) ==
    IF route.path.kind = "prefix" THEN route.path.text \o <<"*">> ELSE route.path.text

\* Mutant: the hosts are listed as the virtual host gives them.
Hosts_AsGiven(domains) ==
    IF \E i \in DOMAIN domains : domains[i] = <<"*">>
    THEN <<>> ELSE [i \in DOMAIN domains |-> domains[i][1]]

\* A domain is a host, or a host with a port.
Hosts(domains) ==
    IF \E i \in DOMAIN domains : domains[i] = <<"*">>
    THEN <<>> ELSE OrderedStrings({domains[i][1] : i \in DOMAIN domains})

\* The name is shortened, and is all that the id depends on.
RouteName(route, vhost, prefix) ==
    SelectSeq(NamedOr(route.name) \o <<"#">> \o vhost.name \o <<"#">> \o prefix,
              LAMBDA token : token # ".svc.cluster.local")

translateVirtualHost(confName, vhost) ==
    LET skipped(r) == \/ r.insensitive
                      \/ SkipCluster(r)
                      \/ SkipURL(r)
                      \/ getHeadersMatchVars(r.headers).skip
        kept == SelectSeq(vhost.routes, LAMBDA r : ~skipped(r))
        translated(r) ==
          [id  |-> GenID(RouteName(r, vhost, NamedOr(confName))),
           val |-> [hosts    |-> Hosts(vhost.domains),
                    priority |-> IF r.name = <<"allow_any">> THEN 0 ELSE 999,
                    uri      |-> getURL(r),
                    upstream |-> GenID(r.cluster),
                    vars     |-> getHeadersMatchVars(r.headers).vars
                                     \o getParametersMatchVars(r.params)]]
    IN  [i \in DOMAIN kept |-> translated(kept[i])]

AnyAddress == <<"0.0.0.0", ":">>

\* Mutant: routes of a listener on any address are left as they are.
patchRoutesWithOriginalDestination_OnlyExact(routes, origDst) ==
    IF IsPrefix(AnyAddress, origDst) THEN routes
    ELSE [i \in DOMAIN routes |->
            [routes[i] EXCEPT !.val.vars =
                Append(@, Var(<<"connection_original_dst">>, FALSE, "==", origDst))]]

patchRoutesWithOriginalDestination(routes, origDst) ==
    LET port == SubSeq(origDst, Len(AnyAddress) + 1, Len(origDst))
        var  == IF IsPrefix(AnyAddress, origDst)
                THEN Var(<<"connection_original_dst">>, FALSE, "~~", port \o <<"$">>)
                ELSE Var(<<"connection_original_dst">>, FALSE, "==", origDst)
    IN  [i \in DOMAIN routes |-> [routes[i] EXCEPT !.val.vars = Append(@, var)]]

\* ownership maps names of configurations to addresses of listeners.
TranslateRouteConfiguration(conf, ownership) ==
    LET routes == FlattenSeq([i \in DOMAIN conf.vhosts |->
                                translateVirtualHost(conf.name, conf.vhosts[i])])
    IN  IF conf.name \in DOMAIN ownership
        THEN patchRoutesWithOriginalDestination(routes, ownership[conf.name])
        ELSE routes

-----------------------------------------------------------------------------
(* Clusters.                                                               *)

\* A weight, a timeout or a port number that is not given.
Unset == -1

\* A conversion of uint32 to int32.
Int32(n) == IF n >= 2^(WeightBits - 1) THEN n - 2^WeightBits ELSE n

\* Mutant: the weight of the locality hides those of its endpoints.
EndpointWeight_Locality(locality, ep) ==
    IF locality.weight # Unset THEN Int32(locality.weight)
    ELSE IF ep.weight # Unset THEN Int32(ep.weight) ELSE 100

EndpointWeight(locality, ep) ==
    IF ep.weight # Unset THEN Int32(ep.weight)
    ELSE IF locality.weight # Unset THEN Int32(locality.weight) ELSE 100

\* An endpoint with another address than a TCP socket, or with a named port, is left
\* out; one with no port at all has port 0.
TranslateClusterLoadAssignment(la) ==
    LET node(locality, ep) ==
          [host |-> ep.host, weight |-> EndpointWeight(locality, ep),
           port |-> IF ep.port = Unset THEN 0 ELSE ep.port]
        kept(eps) == SelectSeq(eps, LAMBDA ep : ep.address = "tcp" /\ ~ep.namedPort)
        nodes(locality) ==
          LET eps == kept(locality.endpoints)
          IN  [i \in DOMAIN eps |-> node(locality, eps[i])]
    IN  FlattenSeq([i \in DOMAIN la |-> nodes(la[i])])

LbType(c) ==
    CASE c.lb = "ROUND_ROBIN"   -> "roundrobin"
      [] c.lb = "LEAST_REQUEST" -> "least_conn"
      [] OTHER                  -> "unsupported"

Timeout(c) ==
    IF c.connectTimeout = Unset THEN [none |-> TRUE]
    ELSE [connect |-> c.connectTimeout, read |-> 60, send |-> 60]

\* err is "none", "unsupported" or "furtherEDS"; with "unsupported" there is no ups.
TranslateCluster(c) ==
    LET ups(nodes) == [id  |-> GenID(c.name),
                       val |-> [type |-> LbType(c), timeout |-> Timeout(c),
                                nodes |-> nodes]]
    IN  CASE LbType(c) = "unsupported" \/ c.custom -> [err |-> "unsupported"]
          [] LbType(c) # "unsupported" /\ ~c.custom /\ c.type = "EDS" ->
                [err |-> "furtherEDS", ups |-> ups(<<>>)]
          [] OTHER -> [err |-> "none",
                       ups |-> ups(TranslateClusterLoadAssignment(c.la))]

-----------------------------------------------------------------------------
(* Listeners.  A filter is "rds", "static", "broken" (a connection manager *)
(* that cannot be read) or "other".                                        *)

CollectRouteNamesAndConfigs(l) ==
    LET of(kind) == SelectSeq(l.filters, LAMBDA f : f.kind = kind)
        rds == of("rds")
        static == of("static")
    IN  IF of("broken") # <<>> THEN [err |-> TRUE]
        ELSE [err |-> FALSE,
              names |-> [i \in DOMAIN rds |-> rds[i].conf],
              configs |-> [i \in DOMAIN static |-> static[i].conf]]

\* Only listeners on a socket with a port count.
OnSocket(listeners) == SelectSeq(listeners, LAMBDA l : l.address # <<>>)

\* routeOwnership: the address of the last listener that names a configuration.
RouteOwnership(listeners) ==
    LET named(l) == LET c == CollectRouteNamesAndConfigs(l)
                    IN  ToSet(c.names) \cup ToSet(c.configs)
        on == OnSocket(listeners)
        last(name) == CHOOSE i \in DOMAIN on :
                        name \in named(on[i])
                            /\ \A j \in DOMAIN on : name \in named(on[j]) => j <= i
    IN  [name \in UNION {named(on[i]) : i \in DOMAIN on} |-> on[last(name)].address]

\* A listener that cannot be read fails its whole response.
Translatable(res) ==
    \A i \in DOMAIN OnSocket(res.listeners) :
        ~CollectRouteNamesAndConfigs(OnSocket(res.listeners)[i]).err

\* What a provisioner makes of the resources it is given; clusters that are not
\* supported are left out.
Translate(res) ==
    LET ownership == RouteOwnership(res.listeners)
        supported == SelectSeq(res.clusters,
                               LAMBDA c : TranslateCluster(c).err # "unsupported")
    IN  [routes |-> FlattenSeq([i \in DOMAIN res.confs |->
                        TranslateRouteConfiguration(res.confs[i], ownership)]),
         upstreams |-> [i \in DOMAIN supported |-> TranslateCluster(supported[i]).ups]]
=============================================================================
