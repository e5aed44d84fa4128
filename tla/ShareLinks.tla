----------------------------- MODULE ShareLinks -----------------------------
(***************************************************************************)
(* The share links of one access row on one node                           *)
(* (src/src/services/share_service.ts, and nodeLinks of link_service.ts     *)
(* that qualifies its inputs), and what the VLESS client that opens one     *)
(* does with it.                                                           *)
(*                                                                         *)
(* A link is the record of what its URI carries: uuid, host, port and the  *)
(* parameters of the query, a set of names paired with values.             *)
(* Order and quoting of the URI's text and the warnings are left out; a    *)
(* label is the triple it joins, before prettyTag capitalises it.  A private *)
(* key and its public half are the same number; BadKey derives none.       *)
(***************************************************************************)
EXTENDS Render

CONSTANTS
    NoAddress,   \* the empty address
    Numeric      \* an address override that is not a string

BadKey == 0

\* The strings Xray listens everywhere for; "" is NoAddress.
WildcardListens == {NoAddress, "0.0.0.0", "::"}

ResolveAddress(configured, inbound) ==
    IF configured # NoAddress THEN configured
    ELSE IF inbound.listen \in WildcardListens THEN NoAddress ELSE inbound.listen

HasUsableAddress(config, configured, overridden) ==
    \/ configured # NoAddress
    \/ \E inbound \in EntrySet(config.inbounds) :
          ResolveAddress(NoAddress, inbound) # NoAddress
    \/ \E address \in overridden : address # NoAddress

-----------------------------------------------------------------------------
(* The parameters of an inbound.                                           *)

\* The settings of each transport that are parameters under their own name.
Settings ==
    [tcp |-> {}, raw |-> {}, ws |-> {"path", "host"}, httpupgrade |-> {"path", "host"},
     xhttp |-> {"path", "host", "mode"}, grpc |-> {"serviceName"}]

Supported(network) == network \in DOMAIN Settings

\* transport is a network and the settings of it that are not empty.
TransportParams(inbound) ==
    LET network == inbound.transport.network
        settings == inbound.transport.settings
        shown == IF Supported(network) THEN Settings[network] \cap DOMAIN settings ELSE {}
    IN {<<"type", IF network = "raw" THEN "tcp" ELSE network>>}
       \cup {<<s, settings[s]>> : s \in shown}
       \cup (IF network = "grpc" /\ "multiMode" \in DOMAIN settings
             THEN {<<"mode", "multi">>} ELSE {})

First(list) == IF list = << >> THEN Absent ELSE list[1]

\* A parameter that is left out when it has no value.
Param(name, value) == IF value = Absent THEN {} ELSE {<<name, value>>}

\* The key stored for the tag, or else the one in the config.
KeyOf(inbound, keys) ==
    IF inbound.tag \in DOMAIN keys THEN keys[inbound.tag] ELSE inbound.reality.privateKey

RealityParams(inbound, keys) ==
    IF inbound.reality = Absent
    THEN {<<"fp", "chrome">>} \cup Param("pbk", IF inbound.tag \in DOMAIN keys
                                               THEN keys[inbound.tag] ELSE Absent)
    ELSE LET key == KeyOf(inbound, keys) IN
         Param("sni", First(inbound.reality.serverNames))
         \cup {<<"fp", IF inbound.reality.fingerprint = Absent THEN "chrome"
                       ELSE inbound.reality.fingerprint>>}
         \cup Param("pbk", IF key = BadKey THEN Absent ELSE key)
         \cup Param("sid", First(inbound.reality.shortIds))
         \cup Param("spx", inbound.reality.spiderX)

TlsParams(inbound) ==
    Param("sni", inbound.tls.serverName) \cup Param("alpn", inbound.tls.alpn)
    \cup Param("fp", inbound.tls.fingerprint)

SecurityParams(inbound, keys) ==
    IF inbound.security = "none" THEN {}
    ELSE {<<"security", inbound.security>>}
         \cup CASE inbound.security = "reality" -> RealityParams(inbound, keys)
                [] inbound.security = "tls" -> TlsParams(inbound)
                [] OTHER -> {}

FlowParams(inbound) ==
    IF inbound.settings = Absent THEN {} ELSE Param("flow", inbound.settings.flow)

\* No two of them give one name.
InboundParams(inbound, keys) ==
    {<<"encryption", "none">>} \cup TransportParams(inbound)
    \cup SecurityParams(inbound, keys) \cup FlowParams(inbound)

-----------------------------------------------------------------------------
(* The links.                                                              *)

\* One request for each granted exit the config declares that has a uuid.
RequestsButBlock(user, exits) ==
    {[outbound |-> o, email |-> Email(user.username, o),
      uuid |-> user.uuids[Email(user.username, o)]] :
        o \in {o \in user.allowed_outbounds \ {Block} :
                  o \in exits /\ Email(user.username, o) \in DOMAIN user.uuids}}
ExitRequests(user, exits) ==
    {[outbound |-> o, email |-> Email(user.username, o),
      uuid |-> user.uuids[Email(user.username, o)]] :
        o \in {o \in user.allowed_outbounds :
                  o \in exits /\ Email(user.username, o) \in DOMAIN user.uuids}}

Direct == [id |-> Absent, label |-> Absent, overrides |-> << >>]

ProfileVariants(inboundTag, profiles) ==
    {Direct} \cup (IF inboundTag \in DOMAIN profiles THEN profiles[inboundTag] ELSE {})

\* An empty address does not override, a port does whatever it is.
VariantAddress(variant, address) ==
    IF "address" \in DOMAIN variant.overrides /\ variant.overrides["address"] # NoAddress
    THEN variant.overrides["address"] ELSE address
VariantPort(variant, port) ==
    IF "port" \in DOMAIN variant.overrides THEN variant.overrides["port"] ELSE port

VariantParams(variant, params) ==
    {p \in params : p[1] \notin DOMAIN variant.overrides}
    \cup {<<k, variant.overrides[k]>> : k \in DOMAIN variant.overrides \ {"address", "port"}}

VariantLabel(variant, node, label, inboundTag, outboundTag) ==
    <<label, IF variant.label = Absent THEN BaseInboundTag(inboundTag, node) ELSE variant.label,
      BaseOutboundTag(outboundTag, node)>>

VariantLink(request, inbound, variant, input) ==
    [inbound |-> inbound.tag, outbound |-> request.outbound,
     email |-> request.email, uuid |-> request.uuid, profile |-> variant.id,
     host |-> VariantAddress(variant, ResolveAddress(input.address, inbound)),
     port |-> VariantPort(variant, inbound.port),
     params |-> VariantParams(variant, InboundParams(inbound, input.keys)),
     label |-> VariantLabel(variant, input.node, input.label, inbound.tag, request.outbound)]

\* An inbound without a port has no links, a variant without an address none.
LinksForInbound(request, inbound, input) ==
    IF inbound.port = Absent THEN {}
    ELSE {link \in {VariantLink(request, inbound, v, input) :
                       v \in ProfileVariants(inbound.tag, input.profiles)} :
             link.host # NoAddress}

\* The inbounds of a row that links are built for.
Reached(user, inbounds) ==
    {Tagged(inbounds, t) : t \in {t \in user.allowed_inbounds : IsVless(inbounds, t)}}

LinksForUser(user, config, input) ==
    UNION {LinksForInbound(request, inbound, input) :
              request \in ExitRequests(user, Tags(config.outbounds)),
              inbound \in Reached(user, Entries(config.inbounds))}

-----------------------------------------------------------------------------
(* What throws a TypeError: the walk over a section that is an object or a *)
(* number; join on an "alpn" that is a string in place of a list; includes *)
(* on an address override that is a number.                                *)

Text == "text"
AlpnThrows(inbound) == inbound.security = "tls" /\ inbound.tls.alpn = Text
HostThrows(host) == host = Numeric

InboundThrows(inbound, input) ==
    /\ inbound.port # Absent
    /\ \/ AlpnThrows(inbound)
       \/ \E v \in ProfileVariants(inbound.tag, input.profiles) :
             HostThrows(VariantAddress(v, ResolveAddress(input.address, inbound)))

LinksThrow(user, config, input) ==
    \/ Unusable \in {config.inbounds, config.outbounds}
    \/ /\ ExitRequests(user, Tags(config.outbounds)) # {}
       /\ \E inbound \in Reached(user, Entries(config.inbounds)) :
             InboundThrows(inbound, input)

\* hasUsableAddress walks the inbounds only for a node without an address.
AddressThrows(config, configured) == configured = NoAddress /\ config.inbounds = Unusable

\* nodeLinks: one user's links on one node from the rows it is given, or that
\* building them throws.  Bound in sets, its qualified inputs are values.
Built(user, config, input) ==
    [throws |-> LinksThrow(user, config, input), links |-> LinksForUser(user, config, input)]

NodeLinks(username, status, accessRow, node, row, keys, profiles) ==
    CHOOSE built \in
        {Built(user, config, input) :
            user \in {QualifyUser(UserShape(username, status, accessRow), node)},
            config \in {QualifyConfig(row.config, node)},
            input \in {[node |-> node, address |-> row.address, label |-> row.label,
                        keys |-> QualifyKeys(keys, node),
                        profiles |-> QualifyProfiles(profiles, node)]}} : TRUE

-----------------------------------------------------------------------------
(* The client: it opens a connection as its link says.                     *)

\* Where Xray speaks another transport or security, or a secret of the link
\* is not the inbound's, the connection fails.
Speaks(link, inbound) ==
    /\ <<"type", IF inbound.transport.network = "raw" THEN "tcp"
                  ELSE inbound.transport.network>> \in link.params
    /\ \A s \in {"path", "serviceName"} \cap DOMAIN inbound.transport.settings :
          <<s, inbound.transport.settings[s]>> \in link.params
    /\ inbound.security # "none" => <<"security", inbound.security>> \in link.params
    /\ inbound.security = "reality" =>
          /\ <<"pbk", inbound.reality.privateKey>> \in link.params
          /\ \E i \in DOMAIN inbound.reality.serverNames :
                <<"sni", inbound.reality.serverNames[i]>> \in link.params

Admits(link, inbound) == [id |-> link.uuid, email |-> link.email] \in inbound.settings.clients

\* A config that Xray starts, over transports the links know: no two inbounds of
\* one tag, no settings of another transport, and a server name for REALITY.
Startable(config) ==
    /\ \A i, j \in DOMAIN config.inbounds :
          config.inbounds[i].tag = config.inbounds[j].tag => i = j
    /\ \A e \in EntrySet(config.inbounds) : e.protocol = "vless" =>
          /\ Supported(e.transport.network)
          /\ DOMAIN e.transport.settings \cap {"path", "serviceName"}
                \subseteq Settings[e.transport.network]
          /\ e.security = "reality" =>
                /\ e.reality # Absent /\ 1 \in DOMAIN e.reality.serverNames
                /\ e.reality.serverNames[1] # Absent
=============================================================================
