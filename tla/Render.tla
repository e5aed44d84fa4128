------------------------------- MODULE Render -------------------------------
(***************************************************************************)
(* The render of one node's runtime config: the projection of access rows  *)
(* (src/src/services/render_service.ts), the clients, rules and keys filled *)
(* into the qualified config (config_service.ts, src/src/core/allocator.ts), *)
(* and how Xray, as config_service.ts describes it, routes a client.       *)
(*                                                                         *)
(* An inbound keeps what the render and the links read of it: tag,         *)
(* protocol, port, listen, transport, security, reality, tls and settings; *)
(* an outbound its tag and protocol; a key is the number of its generation. *)
(* Lists of an access row are sets: allocate emits their elements in order *)
(* and nothing depends on it.  Exits keep their order: the rules made for  *)
(* them are patterns with the tag put in as it is, so that the tag jp.1    *)
(* makes a pattern that takes the clients of jp-1 as well, and the first   *)
(* that takes a client wins.                                               *)
(***************************************************************************)
EXTENDS Qualify

CONSTANT PatternTakes(_, _)   \* the pattern .*@P$ takes the clients of exit T

\* Tags are nonempty sequences of words.
IsTag(tag) == tag \in Seq(STRING) /\ tag # << >>

Listed(section) == Len(section) \in Nat /\ DOMAIN section = 1 .. Len(section)

\* What a stored config has where the render and the links look.
WellFormed(config) ==
    /\ IsList(config.inbounds) => Listed(config.inbounds)
    /\ IsList(config.outbounds) => Listed(config.outbounds)
    /\ Listed(config.rules)
    /\ \A e \in EntrySet(config.inbounds) :
          /\ e = [tag |-> e.tag, protocol |-> e.protocol, port |-> e.port, listen |-> e.listen,
                  transport |-> e.transport, security |-> e.security, reality |-> e.reality,
                  tls |-> e.tls, settings |-> e.settings]
          /\ IsTag(e.tag)
          /\ e.settings # Absent =>
                e.settings = [clients |-> e.settings.clients, flow |-> e.settings.flow]
          /\ e.reality # Absent => {"privateKey", "serverNames"} \subseteq DOMAIN e.reality
    /\ \A e \in EntrySet(config.outbounds) :
          e = [tag |-> e.tag, protocol |-> e.protocol] /\ IsTag(e.tag)
    /\ \A i \in DOMAIN config.rules : \A ref \in config.rules[i].user :
          ref = [name |-> ref.name, tag |-> ref.tag]

\* What a rule says of the exit of a client: a name, or a pattern for every user.
Anyone == "anyone"
RefTakes(ref, tag) == IF ref.name = Anyone THEN PatternTakes(ref.tag, tag) ELSE ref.tag = tag

\* Rules in local names: each leads to an exit the config declares or to BLOCK;
\* an inbound it names is declared, or at least not a qualified one; and what it
\* says of an exit that is not declared takes no client of one that is.
RulesAreLocal(config, node) ==
    LET exits == KnownTags(config.outbounds) IN
    \A i \in DOMAIN config.rules :
        /\ config.rules[i].outboundTag \in exits \cup {Block}
        /\ \A t \in config.rules[i].inboundTag :
              t \in KnownTags(config.inbounds) \/ ~IsQualifiedInboundTag(t, node)
        /\ \A ref \in config.rules[i].user : ref.tag \in exits \/ \A o \in exits :
              ~RefTakes(ref, o) /\ ~RefTakes(ref, QualifiedOutboundTag(o, node))

\* The pattern of an exit takes, under qualified names, the exits it takes under
\* local ones.  A tag with an alternation in it has no such pattern, nor has one
\* that takes BLOCK, which stays as it is.
PatternsAreLocal(config, node) ==
    LET exits == KnownTags(config.outbounds)
        Out(tag) == QualifiedOutboundTag(tag, node)
    IN \A p, o \in exits : PatternTakes(Out(p), Out(o)) <=> PatternTakes(p, o)

UserShape(username, status, row) ==
    [username |-> username, status |-> status,
     allowed_inbounds |-> row.allowed_inbounds,
     allowed_outbounds |-> row.allowed_outbounds,
     uuids |-> [e \in {Email(username, t) : t \in DOMAIN row.uuids} |-> row.uuids[e.tag]]]

\* The access rows of a node that have a user; users and access are the
\* tables, Absent where there is no row.
NodeUsers(users, access, node) ==
    {UserShape(u, users[u].status, access[u][node]) :
        u \in {u \in DOMAIN users : users[u] # Absent /\ access[u][node] # Absent}}

Active(projected) == {user \in projected : user.status = "active"}

\* userPermissions and uuidsMap; emails of two users differ by their names.
UserPermissions(projected) ==
    {[username |-> user.username, allowed_inbounds |-> user.allowed_inbounds,
      allowed_outbounds |-> user.allowed_outbounds] : user \in Active(projected)}

UuidsMap(projected) ==
    LET maps == {user.uuids : user \in Active(projected)}
    IN [e \in UNION {DOMAIN map : map \in maps} |->
           (CHOOSE map \in maps : e \in DOMAIN map)[e]]

\* The entry a lookup by tag finds: the last one of that tag.
Tagged(section, tag) ==
    section[CHOOSE i \in DOMAIN section :
               /\ section[i].tag = tag
               /\ \A j \in DOMAIN section : section[j].tag = tag => j <= i]

Tags(section) == {entry.tag : entry \in EntrySet(section)}
Protocols(section) == [t \in Tags(section) |-> Tagged(section, t).protocol]
IsVless(section, tag) == tag \in Tags(section) /\ Protocols(section)[tag] = "vless"

NotBlock(outbound) == outbound.tag # Block
OutboundTags(outbounds) ==
    [i \in {i \in DOMAIN outbounds : NotBlock(outbounds[i])} |-> outbounds[i].tag]

\* "regexp:.*@tag$", for every user.
ExitRule(tag) == [outboundTag |-> tag, inboundTag |-> {},
                  user |-> {[name |-> Anyone, tag |-> tag]}]

\* The clients of each inbound, the rules and the warnings.
Allocate(permissions, inbounds, outboundTags, uuids) ==
    LET asked == UNION {{[email |-> Email(p.username, o), inbound |-> i] :
                            o \in p.allowed_outbounds, i \in p.allowed_inbounds} :
                               p \in permissions}
        granted == {a \in asked : a.email \in DOMAIN uuids}
        emails == UNION {{Email(p.username, o) : o \in p.allowed_outbounds} :
                            p \in permissions}
    IN [clients |-> [i \in {a.inbound : a \in granted} |->
                        IF ~IsVless(inbounds, i) THEN {}
                        ELSE {[id |-> uuids[a.email], email |-> a.email] :
                                a \in {a \in granted : a.inbound = i}}],
        rules |-> [i \in DOMAIN outboundTags |-> ExitRule(outboundTags[i])],
        warnings |->
            {[what |-> "missing uuid", about |-> e] : e \in emails \ DOMAIN uuids}
            \cup {[what |-> "non-vless", about |-> a.inbound] :
                    a \in {a \in granted : ~IsVless(inbounds, a.inbound)}}]

ClientsAndRules(projected, config) ==
    Allocate(UserPermissions(projected), config.inbounds,
             OutboundTags(config.outbounds), UuidsMap(projected))

FirstOf(places) == CHOOSE i \in places : \A j \in places : i <= j

\* The operator's own BLOCK goes first, or one the panel makes; the other
\* outbounds keep their places, all after place 0.
EnsureBlockFirst(outbounds) ==
    LET own == {i \in DOMAIN outbounds : ~NotBlock(outbounds[i])}
        block == IF own = {} THEN [tag |-> Block, protocol |-> "blackhole"]
                 ELSE outbounds[FirstOf(own)]
    IN [i \in {0} \cup (DOMAIN outbounds \ own) |-> IF i = 0 THEN block ELSE outbounds[i]]

\* What buildConfig throws a TypeError for: the catch of desiredConfig turns
\* it into a warning and no config.
Renderable(config) ==
    /\ IsList(config.inbounds) /\ config.outbounds # Unusable
    /\ \A entry \in EntrySet(config.inbounds) :
          entry.protocol = "vless" => entry.settings # Absent

Fill(inbound, clients) ==
    IF inbound.protocol # "vless" THEN inbound
    ELSE [inbound EXCEPT !.settings.clients =
             IF inbound.tag \in DOMAIN clients THEN clients[inbound.tag] ELSE {}]

\* The generated rules, exits, come after the operator's.
BuildConfig(config, projected) ==
    LET outbounds == EnsureBlockFirst(Entries(config.outbounds))
        filled == ClientsAndRules(projected, [config EXCEPT !.outbounds = outbounds])
    IN [inbounds |-> [i \in DOMAIN config.inbounds |->
                         Fill(config.inbounds[i], filled.clients)],
        outbounds |-> outbounds, rules |-> config.rules, exits |-> filled.rules]

RealityInboundTags(config) ==
    {entry.tag : entry \in {e \in EntrySet(config.inbounds) : e.reality # Absent}}

\* The stored key of a REALITY inbound; without one the config's own stays.
FillKey(inbound, keys) ==
    IF inbound.reality = Absent \/ inbound.tag \notin DOMAIN keys THEN inbound
    ELSE [inbound EXCEPT !.reality.privateKey = keys[inbound.tag]]

ApplyRealityKeys(runtime, keys) ==
    [runtime EXCEPT !.inbounds = [i \in DOMAIN @ |-> FillKey(@[i], keys)]]

\* desiredConfig once the rows are read; Absent for no config to serve.
DesiredConfig(node, config, projected, keys) ==
    IF config = Absent THEN Absent
    ELSE IF ~Renderable(config) THEN Absent
    ELSE ApplyRealityKeys(BuildConfig(QualifyConfig(config, node), QualifyUsers(projected, node)),
                          QualifyKeys(keys, node))

-----------------------------------------------------------------------------
(* Xray: the first rule that matches the client, or the first outbound.    *)

Matches(rule, inbound, email) ==
    /\ rule.inboundTag = {} \/ inbound \in rule.inboundTag
    /\ rule.user = {} \/ \E ref \in rule.user :
          ref.name \in {Anyone, email.user} /\ RefTakes(ref, email.tag)

Taking(rules, inbound, email) == {i \in DOMAIN rules : Matches(rules[i], inbound, email)}

Route(runtime, inbound, email) ==
    LET own == Taking(runtime.rules, inbound, email)
        generated == Taking(runtime.exits, inbound, email)
    IN IF own # {} THEN runtime.rules[FirstOf(own)].outboundTag
       ELSE IF generated # {} THEN runtime.exits[FirstOf(generated)].outboundTag
       ELSE runtime.outbounds[0].tag

\* The rule generated for an exit is the first that takes the exit's clients;
\* BLOCK has none, and wants none to take its clients.
OwnRuleFirst(outbounds, tag) ==
    LET tags == OutboundTags(outbounds)
        takers == {i \in DOMAIN tags : PatternTakes(tags[i], tag)}
    IN IF tag = Block THEN takers = {}
       ELSE \E i \in takers : tags[i] = tag /\ \A j \in takers : i <= j
=============================================================================
