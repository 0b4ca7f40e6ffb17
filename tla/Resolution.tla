----------------------------- MODULE Resolution -----------------------------
(***************************************************************************)
(* From a name to a connection: a client asks the edge for a service of an *)
(* environment (internal/edge/edge.go, forwardDNS), the connector of that  *)
(* environment rewrites the query and the answer (internal/dnsproxy/       *)
(* dnsproxy.go), and the address in the answer is routed and translated    *)
(* when the client uses it (route).  Registrations, the edge's copy of     *)
(* them and sessions change meanwhile.                                     *)
(*                                                                         *)
(* All environments share one real /16; each has a virtual /16 of its own, *)
(* which a registration keeps for good (see Registry).  A name is a        *)
(* sequence of labels, an alias pair and railway.internal being one label  *)
(* each.  A message has one question and one record; flows and lost        *)
(* datagrams are in UDPFlows and Connector.  An edge without a registry    *)
(* only shakes hands here: it translates nothing and serves no names.  A   *)
(* query changes nothing but itself and its answer, so that one at a time, *)
(* until one is answered, is enough.                                       *)
(***************************************************************************)
EXTENDS Prefixes

CONSTANTS
  Envs, Aliases,
  Real,           \* the real prefix
  Virtual,        \* environment -> its virtual prefix
  Hosts,          \* bits after a /16
  ResolverHost,   \* the ones of the resolver: ::10
  Public,         \* an address outside all these prefixes
  Edges,          \* AllowedRoutes of an edge without a registry
  Destinations,   \* AllowedDestinations of its connector
  Narrow,         \* AllowedDestinations of a registered connector
  TTLs, MaxTTL,   \* of the resolver's records; 60 seconds
  Patience,       \* how long a client waits for an answer
  LastTime,
  Nothing

IPv6Prefixes == [family : {6}, bits : Seq({0, 1})]

ASSUME PrefixAssumption ==
  /\ Real \in IPv6Prefixes /\ Hosts \subseteq Seq({0, 1}) /\ ResolverHost \in Hosts
  /\ Virtual \in [Envs -> IPv6Prefixes] /\ \A e, f \in Envs : Virtual[e] = Virtual[f] => e = f
  /\ \A e \in Envs : Virtual[e] # Real /\ Len(Virtual[e].bits) = Len(Real.bits)
  /\ ~ Covers(Real, Public) /\ \A e \in Envs : ~ Covers(Virtual[e], Public)

\* Parsed prefixes of either family.
ASSUME ListsAssumption == Edges \cup Destinations \cup Narrow \subseteq Seq(Ranges)

ASSUME ResolutionAssumption ==
  /\ MaxTTL \in Nat /\ Patience \in Nat /\ LastTime \in Nat /\ TTLs \subseteq Nat
  /\ Nothing \notin Aliases /\ Nothing \notin Envs

VARIABLES
  time,
  registry,   \* the edge has a registry
  alias,      \* registrations.project_alias, environment_alias
  live,       \* environments whose registration is active
  moved,      \* when an alias was given to the environment that has it
  issued,     \* suffixes handed to connectors of an environment
  entries,    \* s.registry and s.routes: environment -> alias, for those it knows
  session,    \* the active session of an environment, or of the edge (Nothing)
  lookup,     \* the query under way
  answer      \* what the client keeps

registrations == <<registry, alias, live, moved, issued>>
resolutionVars == <<time, registrations, entries, session, lookup, answer>>

Address(prefix, host) == [family |-> prefix.family, bits |-> prefix.bits \o host]

railwaySuffix == <<"railway.internal">>
SuffixOf(a) == <<a>> \o railwaySuffix

ResolutionTypeOK ==
  /\ time \in Nat
  /\ registry \in BOOLEAN
  /\ alias \in [Envs -> Aliases \cup {Nothing}]
  /\ live \subseteq {e \in Envs : alias[e] # Nothing}
  /\ moved \in [Aliases -> Nat]
  /\ entries \in [Envs -> Aliases \cup {Nothing}]

ResolutionInit ==
  /\ time = 0
  /\ registry \in BOOLEAN
  /\ alias = [e \in Envs |-> Nothing]
  /\ live = {}
  /\ moved = [a \in Aliases |-> 0]
  /\ issued = [e \in Envs |-> {}]
  /\ entries = [e \in Envs |-> Nothing]
  /\ session = [e \in Envs \cup {Nothing} |-> Nothing]
  /\ lookup = Nothing
  /\ answer = Nothing

Tick ==
  /\ registry
  /\ time < LastTime
  /\ time' = time + 1
  /\ UNCHANGED <<registrations, entries, session, lookup, answer>>
-----------------------------------------------------------------------------
(* The registry and the edge's copy of it.                                 *)

\* Approve: the aliases are unique among all rows.  The connector of the request learns
\* its suffix from the response.
Register(e, a) ==
  /\ registry
  /\ \A f \in Envs \ {e} : alias[f] # a
  /\ alias' = [alias EXCEPT ![e] = a]
  /\ live' = live \cup {e}
  /\ moved' = [moved EXCEPT ![a] = IF alias[e] = a THEN @ ELSE time]
  /\ issued' = [issued EXCEPT ![e] = @ \cup {SuffixOf(a)}]
  /\ UNCHANGED <<time, registry, entries, session, lookup, answer>>

\* Revoke and Expire: the row keeps its alias.
Withdraw(e) ==
  /\ e \in live
  /\ live' = live \ {e}
  /\ UNCHANGED <<time, registry, alias, moved, issued, entries, session, lookup, answer>>

\* A session ends, and with it the flow of a query it carries (closeUDPSession).
CloseSessions(E) ==
  /\ session' = [e \in DOMAIN session |-> IF e \in E THEN Nothing ELSE session[e]]
  /\ lookup' = IF lookup # Nothing /\ lookup.env \in E THEN Nothing ELSE lookup

\* Sessions whose entry is gone or has changed are closed.
refreshDynamic ==
  LET current == [e \in Envs |-> IF e \in live THEN alias[e] ELSE Nothing] IN
  /\ registry
  /\ entries' = current
  /\ CloseSessions({e \in Envs : entries[e] # current[e]})
  /\ UNCHANGED <<time, registrations, answer>>

Disconnect(e) ==
  /\ session[e] # Nothing
  /\ CloseSessions({e})
  /\ UNCHANGED <<time, registrations, entries, answer>>
-----------------------------------------------------------------------------
(* The handshake (authenticate, serve): the edge answers with the routes   *)
(* it shares with the connector, which checks them.                        *)

Handshake(e, realRoutes, advertised, suffix) ==
  LET acceptedRoutes == IntersectPrefixes(realRoutes, advertised) IN
  /\ acceptedRoutes # <<>>
  /\ session' = [session EXCEPT ![e] =
       [edge |-> realRoutes, connector |-> advertised, routes |-> acceptedRoutes,
        serves |-> ValidateAcceptedRoutes(acceptedRoutes, advertised), suffix |-> suffix]]
  /\ UNCHANGED <<time, registrations, entries, lookup, answer>>

authenticate(e) ==
  /\ entries[e] # Nothing /\ session[e] = Nothing
  /\ \E advertised \in Narrow, suffix \in issued[e] :
       Handshake(e, <<Real>>, advertised, suffix)

\* registryCount == 0
authenticateSingle ==
  /\ ~ registry /\ session[Nothing] = Nothing
  /\ \E realRoutes \in Edges, advertised \in Destinations :
       Handshake(Nothing, realRoutes, advertised, <<>>)
-----------------------------------------------------------------------------
(* Routing at the edge.                                                    *)

NoRoute == [env |-> Nothing]

\* route, with a registry: the entry whose virtual prefix holds the destination.
route(destination) ==
  LET owners == {e \in Envs : entries[e] # Nothing /\ Covers(Virtual[e], destination)} IN
  IF owners = {} THEN NoRoute
  ELSE LET e == CHOOSE f \in owners : TRUE
           translated == translateAddress(destination, Virtual[e], Real)
       IN IF session[e] # Nothing /\ Allowed(session[e].routes, translated)
            THEN [env |-> e, address |-> translated]
            ELSE NoRoute

\* forwardDNS: the registration with the alias of the name is looked up in the store, and
\* the query goes to the resolver of its environment.  Other queries are answered with an error.
forwardDNS(name) ==
  /\ lookup = Nothing /\ answer = Nothing
  /\ Len(name) >= 3 /\ name[Len(name)] = railwaySuffix[Len(railwaySuffix)]
  /\ \E e \in live :
       /\ alias[e] = name[Len(name) - 1]
       /\ LET active == route(Address(Virtual[e], ResolverHost)) IN
          /\ active # NoRoute
          /\ lookup' = [at |-> "connector", name |-> name, env |-> active.env, asked |-> time,
                        alias |-> alias[e], destination |-> active.address]
  /\ UNCHANGED <<time, registrations, entries, session, answer>>
-----------------------------------------------------------------------------
(* The rewriter of the connector.                                          *)

HasSuffix(name, suffix) ==
  /\ Len(suffix) <= Len(name)
  /\ SubSeq(name, Len(name) - Len(suffix) + 1, Len(name)) = suffix

replaceSuffix(name, from, to) ==
  IF HasSuffix(name, from) THEN SubSeq(name, 1, Len(name) - Len(from)) \o to ELSE name

\* receive and Query: the resolver is asked, or the query is dropped when its destination is
\* not allowed or its name is outside the suffix of the connector.
Query ==
  LET s == session[lookup.env] IN
  /\ lookup # Nothing /\ lookup.at = "connector"
  /\ s.serves
  /\ lookup' = IF Allowed(s.routes, lookup.destination) /\ HasSuffix(lookup.name, s.suffix)
                 THEN [lookup EXCEPT !.at = "resolver",
                                     !.name = replaceSuffix(@, s.suffix, railwaySuffix)]
                 ELSE Nothing
  /\ UNCHANGED <<time, registrations, entries, session, answer>>

\* An address of the real prefix becomes the one a client can reach.
ToVirtual(e, address) ==
  IF Covers(Real, address) THEN translateAddress(address, Real, Virtual[e]) ELSE address

\* Mutated form: hints are dropped, and mandatory keys stay as they were.
rewriteSVCBKeepingMandatory(e, record) ==
  LET hints == {ToVirtual(e, x) : x \in {y \in record.addresses : Covers(Real, y)}}
      keys == record.keys \ ({"ipv4hint"} \cup IF hints = {} THEN {"ipv6hint"} ELSE {})
  IN [record EXCEPT !.addresses = hints, !.keys = keys]

\* rewriteSVCBValues: IPv4 hints go, IPv6 hints outside the real prefix go, and so do the
\* mandatory keys that are not there any more.
rewriteSVCBValues(e, record) ==
  LET hints == {ToVirtual(e, x) : x \in {y \in record.addresses : Covers(Real, y)}}
      keys == record.keys \ ({"ipv4hint"} \cup IF hints = {} THEN {"ipv6hint"} ELSE {})
  IN [record EXCEPT !.addresses = hints, !.keys = keys, !.mandatory = @ \cap keys]

\* Mutated form: hints are left as they are.
rewriteRecordOnlyAAAA(e, record) ==
  IF record.type = "SVCB" THEN record
  ELSE [record EXCEPT !.addresses = {ToVirtual(e, x) : x \in @}]

\* rewriteRecord
rewriteRecord(e, record) ==
  IF record.type = "SVCB" THEN rewriteSVCBValues(e, record)
  ELSE [record EXCEPT !.addresses = {ToVirtual(e, x) : x \in @}]

\* Mutated form: the time to live is the resolver's.
rewriteRecordsKeepingTTL(e, suffix, record) ==
  [rewriteRecord(e, record) EXCEPT
     !.name = replaceSuffix(@, railwaySuffix, suffix),
     !.target = replaceSuffix(@, railwaySuffix, suffix)]

\* rewriteRecords, for a record that stays: one that is not an A record.
rewriteRecords(e, suffix, record) ==
  [rewriteRecord(e, record) EXCEPT
     !.ttl = IF @ > MaxTTL THEN MaxTTL ELSE @,
     !.name = replaceSuffix(@, railwaySuffix, suffix),
     !.target = replaceSuffix(@, railwaySuffix, suffix)]

\* What a resolver may say about a name: an address, another name, or a service with hints.
RealAddresses == {Address(Real, h) : h \in Hosts}
Targets == {<<"web">> \o railwaySuffix, <<"web", "example.com">>}
Records(name) ==
  LET Record(type, ttls, targets, addresses, keys, mandatory) ==
        [type : {type}, name : {name}, ttl : ttls, target : targets, addresses : addresses,
         keys : keys, mandatory : mandatory]
      Service(addresses, keys) ==
        Record("SVCB", {MaxTTL}, {<<>>}, addresses, {keys}, {keys})
      hints == {{Public}, {Public} \cup RealAddresses}
  IN Record("AAAA", TTLs, {<<>>}, {{x} : x \in RealAddresses \cup {Public}}, {{}}, {{}})
       \cup Record("CNAME", {MaxTTL}, Targets, {{}}, {{}}, {{}})
       \cup Service(hints, {"ipv4hint", "ipv6hint"}) \cup Service({{}}, {"ipv4hint", "alpn"})

\* readResponses and Response: the answer goes back through the session.
Response(record) ==
  /\ lookup # Nothing /\ lookup.at = "resolver"
  /\ lookup' = [at |-> "edge", env |-> lookup.env, asked |-> lookup.asked, alias |-> lookup.alias,
                original |-> record,
                record |-> rewriteRecords(lookup.env, session[lookup.env].suffix, record)]
  /\ UNCHANGED <<time, registrations, entries, session, answer>>

\* receiveUDP hands the answer to the client, which takes it if it still waits.
Receive ==
  /\ lookup # Nothing /\ lookup.at = "edge"
  /\ lookup' = Nothing
  /\ answer' = IF time - lookup.asked <= Patience
                 THEN [env |-> lookup.env, alias |-> lookup.alias, record |-> lookup.record,
                       original |-> lookup.original, expires |-> time + lookup.record.ttl]
                 ELSE answer
  /\ UNCHANGED <<time, registrations, entries, session>>
-----------------------------------------------------------------------------
ResolutionNext ==
  \/ Tick \/ refreshDynamic \/ authenticateSingle \/ Query \/ Receive
  \/ \E e \in Envs : Withdraw(e) \/ authenticate(e) \/ \E a \in Aliases : Register(e, a)
  \/ \E e \in DOMAIN session : Disconnect(e)
  \/ \E a \in Aliases : forwardDNS(<<"db">> \o SuffixOf(a))
  \/ lookup # Nothing /\ lookup.at = "resolver" /\ \E r \in Records(lookup.name) : Response(r)

ResolutionSpec == ResolutionInit /\ [][ResolutionNext]_resolutionVars
-----------------------------------------------------------------------------
(* Properties.                                                             *)

Bits == UNION {[1..n -> {0, 1}] : n \in {Len(Real.bits) + Len(ResolverHost)}}

\* IntersectPrefixes is the intersection: the routes of a session hold exactly the addresses
\* that both sides allow, none of them lies in another, and the connector never refuses
\* what the edge has accepted.
HandshakeAgrees ==
  \A e \in DOMAIN session : session[e] # Nothing =>
    LET s == session[e] IN
    /\ s.serves
    /\ \A i, j \in DOMAIN s.routes : Covers(s.routes[i], s.routes[j]) => i = j
    /\ \A family \in {4, 6}, bits \in Bits :
         LET x == [family |-> family, bits |-> bits] IN
         Allowed(s.routes, x) <=> Allowed(s.edge, x) /\ Allowed(s.connector, x)

\* An answer leads to what was asked for, whenever it is used: no address of the shared real
\* prefix reaches a client, and an address of the answer is routed nowhere or to the
\* environment that answered, as an address its resolver gave.
AnswerReachesAsked ==
  answer # Nothing =>
    \A x \in answer.record.addresses :
      /\ ~ Covers(Real, x)
      /\ route(x) # NoRoute =>
           route(x).env = answer.env /\ route(x).address \in answer.original.addresses

\* An answer can be used as it stands: a name in it that the resolver gave under
\* railway.internal becomes that name again when the client asks for it, and a service
\* requires no parameter that was taken out.
AnswerUsable ==
  answer # Nothing =>
    LET r == answer.record
        asked(name) == replaceSuffix(name, SuffixOf(answer.alias), railwaySuffix)
    IN /\ asked(r.name) = answer.original.name /\ asked(r.target) = answer.original.target
       /\ r.mandatory \subseteq r.keys
       /\ "ipv6hint" \in r.keys <=> r.type = "SVCB" /\ r.addresses # {}

\* When an alias has moved to another environment, clients follow: an answer obtained for
\* the old one is used no longer than the capped time to live after the last query that
\* found it, whatever the resolver's time to live is.
MovedAliasFollowed ==
  answer # Nothing /\ time < answer.expires =>
    \A e \in live \ {answer.env} :
      alias[e] = answer.alias => time - moved[answer.alias] <= MaxTTL + Patience
=============================================================================
