---------------------------- MODULE Render_proofs ----------------------------
(***************************************************************************)
(* Proofs about the render, for configs, access rows and keys of any size: *)
(* what a runtime config has in common with the stored one it is made of.  *)
(***************************************************************************)
EXTENDS Render, Qualify_proofs, WellFoundedInduction

\* The parts of DesiredConfig.
Clients(node, config, projected) ==
    ClientsAndRules(QualifyUsers(projected, node),
        [QualifyConfig(config, node) EXCEPT
            !.outbounds = EnsureBlockFirst(Entries(QualifyConfig(config, node).outbounds))]).clients

ClientsFor(clients, tag) == IF tag \in DOMAIN clients THEN clients[tag] ELSE {}

-----------------------------------------------------------------------------
(* Sections.                                                               *)

\* A set of places has a first one, and a list has a last one.
LEMMA MinExists ==
    ASSUME NEW S, S \subseteq Nat, S # {}
    PROVE  \E i \in S : \A j \in S : i <= j
  <1> DEFINE R == {ss \in Nat \X Nat : ss[1] < ss[2]}
  <1>1. IsWellFoundedOn(R, Nat)
    BY NatLessThanWellFounded DEF OpToRel
  <1> HIDE DEF R
  <1>2. PICK i \in S : \A j \in S : ~(<<j, i>> \in R)
    BY <1>1, WFMin
  <1>3. ASSUME NEW j \in S PROVE i <= j
    <2>1. <<j, i>> \in Nat \X Nat /\ <<j, i>>[1] = j /\ <<j, i>>[2] = i
      OBVIOUS
    <2>2. ~(j < i)
      BY <1>2, <2>1 DEF R
    <2> QED
      BY <2>1, <2>2
  <1> QED
    BY <1>2, <1>3

LEMMA MaxExists ==
    ASSUME NEW S, S # {}, NEW b \in Nat, S \subseteq 0 .. b
    PROVE  \E i \in S : \A j \in S : j <= i
  <1> DEFINE T == {b - i : i \in S}
  <1>1. T \subseteq Nat /\ T # {}
    <2>1. PICK i \in S : b - i \in T
      OBVIOUS
    <2> QED
      BY <2>1
  <1> HIDE DEF T
  <1>2. PICK k \in T : \A l \in T : k <= l
    BY <1>1, MinExists
  <1>3. PICK i \in S : k = b - i
    BY DEF T
  <1>4. ASSUME NEW j \in S PROVE j <= i
    <2>1. b - j \in T
      BY DEF T
    <2> QED
      BY <1>2, <1>3, <2>1
  <1> QED
    BY <1>4

LEMMA EntryHasPlace ==
    ASSUME NEW section, NEW e \in EntrySet(section)
    PROVE  IsList(section) /\ \E i \in DOMAIN section : e = section[i]
  BY DEF EntrySet, Entries

LEMMA PlaceHasEntry ==
    ASSUME NEW section, IsList(section), NEW i \in DOMAIN section
    PROVE  section[i] \in EntrySet(section)
  BY DEF EntrySet, Entries

LEMMA RuntimePlaces ==
    ASSUME NEW node, NEW config, NEW projected, NEW keys,
           config # Absent, Renderable(config), IsList(config.inbounds),
           NEW runtime, runtime = DesiredConfig(node, config, projected, keys)
    PROVE  DOMAIN runtime.inbounds = DOMAIN config.inbounds
  BY DEF DesiredConfig, ApplyRealityKeys, BuildConfig, QualifyConfig, QualifyEntries

\* An inbound as the links see it: the stored one under its qualified name.
NamedFrom(stored, tag, named) ==
    named = [tag |-> tag, protocol |-> stored.protocol, port |-> stored.port,
             listen |-> stored.listen, transport |-> stored.transport,
             security |-> stored.security, reality |-> stored.reality,
             tls |-> stored.tls, settings |-> stored.settings]

LEMMA InboundNamed ==
    ASSUME NEW node, NEW config, WellFormed(config), IsList(config.inbounds),
           NEW i \in DOMAIN config.inbounds,
           NEW q, q = QualifyConfig(config, node),
           NEW stored, stored = config.inbounds[i],
           NEW tag, tag = QualifiedInboundTag(stored.tag, node),
           NEW named, named = q.inbounds[i]
    PROVE  DOMAIN q.inbounds = DOMAIN config.inbounds /\ NamedFrom(stored, tag, named)
  <1>1. stored \in EntrySet(config.inbounds)
    BY PlaceHasEntry
  <1>2. stored = [tag |-> stored.tag, protocol |-> stored.protocol, port |-> stored.port,
                  listen |-> stored.listen, transport |-> stored.transport,
                  security |-> stored.security, reality |-> stored.reality,
                  tls |-> stored.tls, settings |-> stored.settings]
    BY <1>1 DEF WellFormed
  <1>3. DOMAIN q.inbounds = DOMAIN config.inbounds /\ q.inbounds[i] = [stored EXCEPT !.tag = tag]
    BY DEF QualifyConfig, QualifyEntries
  <1> QED
    BY <1>2, <1>3 DEF NamedFrom

\* An inbound as it is served: the stored one under its qualified name, with
\* the clients of that name and the key of that name.
MadeFrom(stored, tag, clients, held, made) ==
    /\ made = [tag |-> tag, protocol |-> stored.protocol, port |-> stored.port,
               listen |-> stored.listen, transport |-> stored.transport,
               security |-> stored.security, reality |-> made.reality,
               tls |-> stored.tls, settings |-> made.settings]
    /\ stored.protocol = "vless" => made.settings.clients = ClientsFor(clients, tag)
    /\ stored.reality = Absent => made.reality = Absent
    /\ stored.reality # Absent =>
          made.reality = IF tag \in DOMAIN held
                         THEN [stored.reality EXCEPT !.privateKey = held[tag]]
                         ELSE stored.reality

\* Place by place, the inbounds of a runtime are made from the stored ones.
LEMMA RuntimeInbound ==
    ASSUME NEW node, NEW config, NEW projected, NEW keys,
           WellFormed(config), config # Absent, Renderable(config),
           NEW i \in DOMAIN config.inbounds,
           NEW runtime, runtime = DesiredConfig(node, config, projected, keys),
           NEW stored, stored = config.inbounds[i],
           NEW tag, tag = QualifiedInboundTag(stored.tag, node),
           NEW held, held = QualifyKeys(keys, node),
           NEW made, made = runtime.inbounds[i]
    PROVE  MadeFrom(stored, tag, Clients(node, config, projected), held, made)
  <1> DEFINE q == QualifyConfig(config, node)
             clients == Clients(node, config, projected)
  <1>1. IsList(config.inbounds) /\ stored \in EntrySet(config.inbounds)
    BY PlaceHasEntry DEF Renderable
  <1>2. /\ stored = [tag |-> stored.tag, protocol |-> stored.protocol, port |-> stored.port,
                     listen |-> stored.listen, transport |-> stored.transport,
                     security |-> stored.security, reality |-> stored.reality,
                     tls |-> stored.tls, settings |-> stored.settings]
        /\ stored.settings # Absent => stored.settings = [clients |-> stored.settings.clients,
                                                         flow |-> stored.settings.flow]
        /\ stored.reality # Absent => "privateKey" \in DOMAIN stored.reality
        /\ stored.protocol = "vless" => stored.settings # Absent
    BY <1>1 DEF WellFormed, Renderable
  <1>3. PICK named : named = q.inbounds[i]
    OBVIOUS
  <1>4. DOMAIN q.inbounds = DOMAIN config.inbounds /\ NamedFrom(stored, tag, named)
    BY <1>1, <1>3, InboundNamed
  <1>5. named = [tag |-> tag, protocol |-> stored.protocol, port |-> stored.port,
                 listen |-> stored.listen, transport |-> stored.transport,
                 security |-> stored.security, reality |-> stored.reality,
                 tls |-> stored.tls, settings |-> stored.settings]
    BY <1>4 DEF NamedFrom
  <1>6. runtime = ApplyRealityKeys(BuildConfig(q, QualifyUsers(projected, node)), held)
    BY DEF DesiredConfig
  <1>7. BuildConfig(q, QualifyUsers(projected, node)).inbounds
          = [k \in DOMAIN q.inbounds |-> Fill(q.inbounds[k], clients)]
    BY DEF BuildConfig, Clients
  <1>8. /\ DOMAIN runtime.inbounds = DOMAIN config.inbounds
        /\ runtime.inbounds[i] = FillKey(Fill(named, clients), held)
    BY <1>3, <1>4, <1>6, <1>7 DEF ApplyRealityKeys
  <1> HIDE DEF q, clients
  <1>9. PICK settings, filled :
            /\ filled = Fill(named, clients)
            /\ filled = [tag |-> tag, protocol |-> stored.protocol, port |-> stored.port,
                         listen |-> stored.listen, transport |-> stored.transport,
                         security |-> stored.security, reality |-> stored.reality,
                         tls |-> stored.tls, settings |-> settings]
            /\ stored.protocol = "vless" => settings.clients = ClientsFor(clients, tag)
    <2>1. CASE stored.protocol # "vless"
      BY <1>5, <2>1 DEF Fill
    <2>2. CASE stored.protocol = "vless"
      <3>1. PICK filled : filled = Fill(named, clients)
        OBVIOUS
      <3>2. filled = [named EXCEPT !.settings.clients = ClientsFor(clients, tag)]
        BY <1>5, <2>2, <3>1 DEF Fill, ClientsFor
      <3>3. PICK settings : settings = [stored.settings EXCEPT !.clients = ClientsFor(clients, tag)]
        OBVIOUS
      <3>4. settings.clients = ClientsFor(clients, tag)
        BY <1>2, <2>2, <3>3
      <3>5. filled = [tag |-> tag, protocol |-> stored.protocol, port |-> stored.port,
                      listen |-> stored.listen, transport |-> stored.transport,
                      security |-> stored.security, reality |-> stored.reality,
                      tls |-> stored.tls, settings |-> settings]
        BY <1>5, <3>2, <3>3
      <3> QED
        BY <3>1, <3>4, <3>5
    <2> QED
      BY <2>1, <2>2
  <1>10. PICK reality, keyed :
            /\ keyed = FillKey(filled, held)
            /\ keyed = [tag |-> tag, protocol |-> stored.protocol, port |-> stored.port,
                       listen |-> stored.listen, transport |-> stored.transport,
                       security |-> stored.security, reality |-> reality,
                       tls |-> stored.tls, settings |-> settings]
            /\ stored.reality = Absent => reality = Absent
            /\ stored.reality # Absent =>
                    reality = IF tag \in DOMAIN held
                              THEN [stored.reality EXCEPT !.privateKey = held[tag]]
                              ELSE stored.reality
    <2>1. CASE stored.reality = Absent \/ tag \notin DOMAIN held
      BY <1>9, <2>1 DEF FillKey
    <2>2. CASE stored.reality # Absent /\ tag \in DOMAIN held
      <3>1. PICK keyed : keyed = FillKey(filled, held)
        OBVIOUS
      <3>2. keyed = [filled EXCEPT !.reality.privateKey = held[tag]]
        BY <1>9, <2>2, <3>1 DEF FillKey
      <3>3. PICK reality : reality = [stored.reality EXCEPT !.privateKey = held[tag]]
        OBVIOUS
      <3>4. keyed = [tag |-> tag, protocol |-> stored.protocol, port |-> stored.port,
                    listen |-> stored.listen, transport |-> stored.transport,
                    security |-> stored.security, reality |-> reality,
                    tls |-> stored.tls, settings |-> settings]
        BY <1>9, <3>2, <3>3
      <3> QED
        BY <2>2, <3>1, <3>3, <3>4
    <2> QED
      BY <2>1, <2>2
  <1>11. keyed = made
    BY <1>8, <1>9, <1>10
  <1>12. made.reality = reality /\ made.settings = settings
    BY <1>10, <1>11
  <1>13. stored.protocol = "vless" =>
            made.settings.clients = ClientsFor(Clients(node, config, projected), tag)
    BY <1>9, <1>12 DEF clients
  <1> QED
    BY <1>10, <1>11, <1>12, <1>13 DEF MadeFrom

\* The exits a config declares, each at its place, and their qualified names.
Exits(config) == OutboundTags(Entries(config.outbounds))
QualifiedExits(config, node) ==
    [i \in DOMAIN Exits(config) |-> QualifiedOutboundTag(Exits(config)[i], node)]

\* Where a runtime leads its clients: by the operator's rules, or by the rules of
\* these exits in this order; BLOCK is in front and has no rule.
Leads(runtime, rules, exits) ==
    /\ runtime.rules = rules
    /\ runtime.exits = [i \in DOMAIN exits |-> ExitRule(exits[i])]
    /\ runtime.outbounds[0].tag = Block
    /\ Tags(runtime.outbounds) \subseteq {exits[i] : i \in DOMAIN exits} \cup {Block}

\* What buildConfig makes of any config leads to the exits it declares.
LEMMA BuildLeads ==
    ASSUME NEW config, NEW projected, DOMAIN Entries(config.outbounds) \subseteq Nat \ {0},
           NEW built, built = BuildConfig(config, projected)
    PROVE  Leads(built, config.rules, Exits(config))
  <1> DEFINE exits == Exits(config)
             section == Entries(config.outbounds)
             own == {i \in DOMAIN section : ~NotBlock(section[i])}
             outbounds == EnsureBlockFirst(section)
  <1>1. /\ built.rules = config.rules /\ built.outbounds = outbounds
        /\ built.exits = [i \in DOMAIN OutboundTags(outbounds) |->
                             ExitRule(OutboundTags(outbounds)[i])]
    <2>1. built.exits = ClientsAndRules(projected, [config EXCEPT !.outbounds = outbounds]).rules
      BY DEF BuildConfig
    <2>2. PICK filled : filled = [config EXCEPT !.outbounds = outbounds]
      OBVIOUS
    <2> QED
      BY <2>1, <2>2 DEF BuildConfig, ClientsAndRules, Allocate
  <1>2. exits = [i \in DOMAIN section \ own |-> section[i].tag]
    BY DEF Exits, OutboundTags
  <1> HIDE DEF section, exits
  <1>3. /\ DOMAIN outbounds = {0} \cup (DOMAIN section \ own)
        /\ \A i \in DOMAIN section \ own : outbounds[i] = section[i] /\ section[i].tag # Block
    BY DEF EnsureBlockFirst, NotBlock, section
  <1>4. outbounds[0].tag = Block
    <2>1. CASE own = {}
      BY <2>1 DEF EnsureBlockFirst
    <2>2. CASE own # {}
      <3>1. \E i \in own : \A j \in own : i <= j
        BY <2>2, MinExists DEF section
      <3>2. PICK i \in own : outbounds[0] = section[i]
        BY <2>2, <3>1 DEF EnsureBlockFirst, FirstOf
      <3> QED
        BY <3>2 DEF NotBlock
    <2> QED
      BY <2>1, <2>2
  <1>5. OutboundTags(outbounds) = exits
    <2>1. {i \in DOMAIN outbounds : NotBlock(outbounds[i])} = DOMAIN section \ own
      BY <1>3, <1>4 DEF NotBlock, section
    <2>2. \A i \in DOMAIN section \ own : outbounds[i].tag = section[i].tag
      BY <1>3
    <2> HIDE DEF outbounds, own
    <2> QED
      BY <1>2, <2>1, <2>2 DEF OutboundTags
  <1>6. Tags(outbounds) \subseteq {exits[i] : i \in DOMAIN exits} \cup {Block}
    <2>1. \A i \in DOMAIN outbounds :
              outbounds[i].tag \in {exits[k] : k \in DOMAIN exits} \cup {Block}
      BY <1>2, <1>3, <1>4
    <2> HIDE DEF outbounds
    <2> QED
      BY <2>1, EntryHasPlace DEF Tags
  <1> QED
    BY <1>1, <1>4, <1>5, <1>6 DEF Leads, exits, section

\* A tag that is not BLOCK is not renamed to BLOCK.
LEMMA BlockAlone ==
    ASSUME NEW node \in STRING, NEW tag, IsTag(tag)
    PROVE  QualifiedOutboundTag(tag, node) = Block <=> tag = Block
  <1>1. CASE tag = Block
    BY <1>1 DEF QualifiedOutboundTag
  <1>2. CASE tag # Block /\ QualifiedOutboundTag(tag, node) = tag
    BY <1>2
  <1>3. CASE tag # Block /\ QualifiedOutboundTag(tag, node) = <<node>> \o tag
    <2>1. Len(<<node>> \o tag) > 1
      BY OutboundPrefix DEF IsTag
    <2>2. Len(Block) = 1
      BY DEF Block
    <2> QED
      BY <1>3, <2>1, <2>2
  <1> QED
    BY <1>1, <1>2, <1>3 DEF QualifiedOutboundTag

\* The exits of a config are declared, and by its tags alone.
LEMMA ExitsDeclared ==
    ASSUME NEW config
    PROVE  /\ \A i \in DOMAIN Exits(config) :
                 Exits(config)[i] \in Tags(config.outbounds) /\ Exits(config)[i] # Block
           /\ \A t \in Tags(config.outbounds) \ {Block} :
                 \E i \in DOMAIN Exits(config) : Exits(config)[i] = t
           /\ DOMAIN Exits(config) \subseteq DOMAIN Entries(config.outbounds)
  <1>1. PICK section : section = Entries(config.outbounds)
    OBVIOUS
  <1>2. PICK exits : exits = Exits(config)
    OBVIOUS
  <1>3. exits = [i \in {i \in DOMAIN section : section[i].tag # Block} |-> section[i].tag]
    BY <1>1, <1>2 DEF Exits, OutboundTags, NotBlock
  <1>4. /\ \A i \in DOMAIN section : section[i].tag \in Tags(config.outbounds)
        /\ \A t \in Tags(config.outbounds) : \E i \in DOMAIN section : section[i].tag = t
    BY <1>1 DEF Tags, EntrySet
  <1> QED
    BY <1>1, <1>2, <1>3, <1>4

\* The exits of a qualified config are the stored ones under their qualified
\* names, at their places.
LEMMA ExitsNamed ==
    ASSUME NEW node \in STRING, NEW config, WellFormed(config),
           NEW q, q = QualifyConfig(config, node),
           IsList(config.outbounds) => IsList(q.outbounds)
    PROVE  /\ DOMAIN Entries(q.outbounds) \subseteq Nat \ {0}
           /\ Exits(q) = QualifiedExits(config, node)
  <1>1. CASE IsList(config.outbounds)
    <2>1. q.outbounds = [i \in DOMAIN config.outbounds |->
                            [config.outbounds[i] EXCEPT !.tag = QualifiedOutboundTag(@, node)]]
      BY <1>1 DEF QualifyConfig, QualifyEntries
    <2>2. Listed(config.outbounds) /\ Entries(q.outbounds) = q.outbounds
      BY <1>1 DEF WellFormed, Entries
    <2>3. ASSUME NEW i \in DOMAIN config.outbounds
          PROVE  /\ q.outbounds[i].tag = QualifiedOutboundTag(config.outbounds[i].tag, node)
                 /\ IsTag(config.outbounds[i].tag)
      <3>1. config.outbounds[i] \in EntrySet(config.outbounds)
        BY <1>1, PlaceHasEntry
      <3>2. /\ config.outbounds[i]
                 = [tag |-> config.outbounds[i].tag, protocol |-> config.outbounds[i].protocol]
            /\ IsTag(config.outbounds[i].tag)
        BY <3>1 DEF WellFormed
      <3>3. q.outbounds[i] = [config.outbounds[i] EXCEPT
                             !.tag = QualifiedOutboundTag(config.outbounds[i].tag, node)]
        BY <2>1
      <3> QED
        BY <3>2, <3>3
    <2>4. DOMAIN q.outbounds = DOMAIN config.outbounds
      BY <2>1
    <2>5. \A i \in DOMAIN config.outbounds :
              q.outbounds[i].tag # Block <=> config.outbounds[i].tag # Block
      BY <2>3, BlockAlone
    <2>6. PICK places : places = {i \in DOMAIN config.outbounds : config.outbounds[i].tag # Block}
      OBVIOUS
    <2>7. Exits(q) = [i \in places |-> q.outbounds[i].tag]
      BY <2>2, <2>4, <2>5, <2>6 DEF Exits, OutboundTags, NotBlock
    <2>8. Exits(config) = [i \in places |-> config.outbounds[i].tag]
      BY <1>1, <2>6 DEF Exits, OutboundTags, NotBlock, Entries
    <2>9. QualifiedExits(config, node)
            = [i \in places |-> QualifiedOutboundTag(config.outbounds[i].tag, node)]
      BY <2>8 DEF QualifiedExits
    <2> QED
      BY <2>2, <2>3, <2>4, <2>6, <2>7, <2>9 DEF Listed
  <1>2. CASE ~IsList(config.outbounds)
    <2>1. q.outbounds = config.outbounds
      BY <1>2 DEF QualifyConfig, QualifyEntries
    <2> QED
      BY <1>2, <2>1 DEF Entries, Exits, OutboundTags, QualifiedExits
  <1> QED
    BY <1>1, <1>2

\* The exits of a runtime are those of the qualified config.
LEMMA RuntimeOutbounds ==
    ASSUME NEW node \in STRING, NEW config, NEW projected, NEW keys,
           WellFormed(config), config # Absent, Renderable(config),
           IsList(config.outbounds) => IsList(QualifyConfig(config, node).outbounds),
           NEW runtime, runtime = DesiredConfig(node, config, projected, keys)
    PROVE  Leads(runtime, QualifyConfig(config, node).rules, QualifiedExits(config, node))
  <1>1. PICK q : q = QualifyConfig(config, node)
    OBVIOUS
  <1>2. /\ DOMAIN Entries(q.outbounds) \subseteq Nat \ {0}
        /\ Exits(q) = QualifiedExits(config, node)
    BY <1>1, ExitsNamed
  <1>3. PICK built : built = BuildConfig(q, QualifyUsers(projected, node))
    OBVIOUS
  <1>4. Leads(built, q.rules, Exits(q))
    BY <1>2, <1>3, BuildLeads
  <1>5. /\ runtime.rules = built.rules /\ runtime.exits = built.exits
        /\ runtime.outbounds = built.outbounds
    BY <1>1, <1>3 DEF DesiredConfig, ApplyRealityKeys, BuildConfig
  <1> QED
    BY <1>1, <1>2, <1>4, <1>5 DEF Leads

-----------------------------------------------------------------------------
(* Clients.                                                                *)

\* What makes a client of an inbound: an active user whose row lists the
\* inbound and the exit, and who has a uuid for the exit.
IsClient(users, inbounds, tag, c) ==
    \E p \in Active(users) : \E o \in p.allowed_outbounds :
        /\ tag \in p.allowed_inbounds /\ IsVless(inbounds, tag)
        /\ Email(p.username, o) \in DOMAIN UuidsMap(users)
        /\ c = [id |-> UuidsMap(users)[Email(p.username, o)], email |-> Email(p.username, o)]

LEMMA AllocatedClients ==
    ASSUME NEW users, NEW inbounds, NEW outbounds, NEW tag, NEW c
    PROVE  c \in ClientsFor(Allocate(UserPermissions(users), inbounds, outbounds,
                                    UuidsMap(users)).clients, tag)
             <=> IsClient(users, inbounds, tag, c)
  <1> DEFINE permissions == UserPermissions(users)
             uuids == UuidsMap(users)
             asked == UNION {{[email |-> Email(p.username, o), inbound |-> i] :
                                 o \in p.allowed_outbounds, i \in p.allowed_inbounds} :
                                    p \in permissions}
             granted == {a \in asked : a.email \in DOMAIN uuids}
             clients == [i \in {a.inbound : a \in granted} |->
                            IF ~IsVless(inbounds, i) THEN {}
                            ELSE {[id |-> uuids[a.email], email |-> a.email] :
                                    a \in {a \in granted : a.inbound = i}}]
  <1>1. Allocate(permissions, inbounds, outbounds, uuids).clients = clients
    BY DEF Allocate
  <1>2. \A a : a \in asked <=> \E p \in Active(users) :
                                \E o \in p.allowed_outbounds, i \in p.allowed_inbounds :
                                    a = [email |-> Email(p.username, o), inbound |-> i]
    <2> DEFINE Of(p) == {[email |-> Email(p.username, o), inbound |-> i] :
                            o \in p.allowed_outbounds, i \in p.allowed_inbounds}
               Permission(p) == [username |-> p.username, allowed_inbounds |-> p.allowed_inbounds,
                                 allowed_outbounds |-> p.allowed_outbounds]
    <2>1. permissions = {Permission(p) : p \in Active(users)}
      BY DEF UserPermissions
    <2>2. \A p : Of(Permission(p)) = Of(p)
      OBVIOUS
    <2>3. asked = UNION {Of(p) : p \in permissions}
      OBVIOUS
    <2>4. \A a, p : a \in Of(p) <=> \E o \in p.allowed_outbounds, i \in p.allowed_inbounds :
                                        a = [email |-> Email(p.username, o), inbound |-> i]
      OBVIOUS
    <2> HIDE DEF asked, permissions, Of, Permission
    <2>5. \A a : a \in asked <=> \E p \in Active(users) : a \in Of(Permission(p))
      BY <2>1, <2>3
    <2> QED
      BY <2>2, <2>4, <2>5
  <1> HIDE DEF permissions, uuids, asked
  <1>3. c \in ClientsFor(clients, tag)
          <=> IsVless(inbounds, tag)
              /\ \E a \in granted : a.inbound = tag /\ c = [id |-> uuids[a.email], email |-> a.email]
    BY DEF ClientsFor
  <1>4. ASSUME NEW a \in granted, a.inbound = tag, IsVless(inbounds, tag),
               c = [id |-> uuids[a.email], email |-> a.email]
        PROVE  IsClient(users, inbounds, tag, c)
    BY <1>2, <1>4 DEF IsClient, uuids
  <1>5. ASSUME IsClient(users, inbounds, tag, c)
        PROVE  /\ IsVless(inbounds, tag)
               /\ \E a \in granted : a.inbound = tag /\ c = [id |-> uuids[a.email], email |-> a.email]
    <2>1. PICK p \in Active(users) : \E o \in p.allowed_outbounds :
            /\ tag \in p.allowed_inbounds /\ IsVless(inbounds, tag)
            /\ Email(p.username, o) \in DOMAIN uuids
            /\ c = [id |-> uuids[Email(p.username, o)], email |-> Email(p.username, o)]
      BY <1>5 DEF IsClient, uuids
    <2>4. PICK o \in p.allowed_outbounds :
            /\ tag \in p.allowed_inbounds /\ IsVless(inbounds, tag)
            /\ Email(p.username, o) \in DOMAIN uuids
            /\ c = [id |-> uuids[Email(p.username, o)], email |-> Email(p.username, o)]
      BY <2>1
    <2>2. PICK a : a = [email |-> Email(p.username, o), inbound |-> tag]
      OBVIOUS
    <2>3. a \in granted
      BY <1>2, <2>2, <2>4
    <2> QED
      BY <2>2, <2>3, <2>4
  <1> QED
    BY <1>1, <1>3, <1>4, <1>5 DEF permissions, uuids

LEMMA ClientsOfRuntime ==
    ASSUME NEW node, NEW config, NEW projected, NEW tag, NEW c
    PROVE  c \in ClientsFor(Clients(node, config, projected), tag)
             <=> IsClient(QualifyUsers(projected, node), QualifyConfig(config, node).inbounds, tag, c)
  <1> DEFINE outbounds == EnsureBlockFirst(Entries(QualifyConfig(config, node).outbounds))
  <1>1. [QualifyConfig(config, node) EXCEPT !.outbounds = outbounds].inbounds
          = QualifyConfig(config, node).inbounds
    BY DEF QualifyConfig
  <1>2. Clients(node, config, projected)
          = Allocate(UserPermissions(QualifyUsers(projected, node)),
                     QualifyConfig(config, node).inbounds,
                     OutboundTags([QualifyConfig(config, node) EXCEPT
                                     !.outbounds = outbounds].outbounds),
                     UuidsMap(QualifyUsers(projected, node))).clients
    BY <1>1 DEF Clients, ClientsAndRules
  <1> QED
    BY <1>2, AllocatedClients

\* A user of the render is the access row of a user, under qualified names.
RenamedRow(user, username, status, row, node) ==
    /\ user.username = username /\ user.status = status
    /\ user.allowed_inbounds = {QualifiedInboundTag(t, node) : t \in row.allowed_inbounds}
    /\ user.allowed_outbounds = {QualifiedOutboundTag(t, node) : t \in row.allowed_outbounds}

LEMMA QualifiedRow ==
    ASSUME NEW node, NEW username, NEW status, NEW row,
           NEW user, user = QualifyUser(UserShape(username, status, row), node)
    PROVE  RenamedRow(user, username, status, row, node)
  <1>1. PICK shape : shape = UserShape(username, status, row)
    OBVIOUS
  <1>2. shape = [username |-> username, status |-> status,
                 allowed_inbounds |-> row.allowed_inbounds,
                 allowed_outbounds |-> row.allowed_outbounds, uuids |-> shape.uuids]
    BY <1>1 DEF UserShape
  <1> DEFINE Key(email) == QualifyEmailKey(email, node)
             ins == {QualifiedInboundTag(t, node) : t \in shape.allowed_inbounds}
             outs == {QualifiedOutboundTag(t, node) : t \in shape.allowed_outbounds}
             uuids == Rename(shape.uuids, Key)
  <1>3. user = [shape EXCEPT !.allowed_inbounds = ins, !.allowed_outbounds = outs,
                             !.uuids = uuids]
    BY <1>1 DEF QualifyUser
  <1>4. /\ ins = {QualifiedInboundTag(t, node) : t \in row.allowed_inbounds}
        /\ outs = {QualifiedOutboundTag(t, node) : t \in row.allowed_outbounds}
    BY <1>2
  <1> HIDE DEF ins, outs, uuids
  <1>5. user = [username |-> username, status |-> status, allowed_inbounds |-> ins,
                allowed_outbounds |-> outs, uuids |-> uuids]
    <2>1. PICK first : first = [shape EXCEPT !.allowed_inbounds = ins]
      OBVIOUS
    <2>2. first = [username |-> username, status |-> status, allowed_inbounds |-> ins,
                   allowed_outbounds |-> row.allowed_outbounds, uuids |-> shape.uuids]
      BY <1>2, <2>1
    <2>3. PICK second : second = [first EXCEPT !.allowed_outbounds = outs]
      OBVIOUS
    <2>4. second = [username |-> username, status |-> status, allowed_inbounds |-> ins,
                    allowed_outbounds |-> outs, uuids |-> shape.uuids]
      BY <2>2, <2>3
    <2>5. user = [second EXCEPT !.uuids = uuids]
      BY <1>3, <2>1, <2>3
    <2> QED
      BY <2>4, <2>5
  <1> QED
    BY <1>4, <1>5 DEF RenamedRow

LEMMA RowsOfNode ==
    ASSUME NEW node, NEW users, NEW access, NEW p \in QualifyUsers(NodeUsers(users, access, node), node)
    PROVE  \E u \in DOMAIN users :
              /\ users[u] # Absent /\ access[u][node] # Absent
              /\ p = QualifyUser(UserShape(u, users[u].status, access[u][node]), node)
  BY DEF QualifyUsers, NodeUsers

\* Every client of a runtime is of a user with a row on the node, and names an
\* exit of that row.
LEMMA RuntimeEmails ==
    ASSUME NEW node, NEW config, NEW users, NEW access, NEW keys,
           WellFormed(config), config # Absent, Renderable(config),
           NEW projected, projected = NodeUsers(users, access, node),
           NEW runtime, runtime = DesiredConfig(node, config, projected, keys),
           NEW e \in EntrySet(runtime.inbounds), e.protocol = "vless",
           NEW c \in e.settings.clients
    PROVE  \E u \in DOMAIN users :
              /\ users[u] # Absent /\ access[u][node] # Absent
              /\ \E t \in access[u][node].allowed_outbounds :
                    c.email = Email(u, QualifiedOutboundTag(t, node))
  <1>1. PICK i \in DOMAIN runtime.inbounds : e = runtime.inbounds[i]
    BY EntryHasPlace
  <1>2. DOMAIN runtime.inbounds = DOMAIN config.inbounds
    BY RuntimePlaces DEF Renderable
  <1>3. PICK stored, tag, held :
            /\ stored = config.inbounds[i] /\ tag = QualifiedInboundTag(stored.tag, node)
            /\ held = QualifyKeys(keys, node)
    OBVIOUS
  <1>4. /\ e = [tag |-> tag, protocol |-> stored.protocol, port |-> stored.port,
                listen |-> stored.listen, transport |-> stored.transport,
                security |-> stored.security, reality |-> e.reality,
                tls |-> stored.tls, settings |-> e.settings]
        /\ stored.protocol = "vless" =>
              e.settings.clients = ClientsFor(Clients(node, config, projected), tag)
    <2>1. MadeFrom(stored, tag, Clients(node, config, projected), held, e)
      BY <1>1, <1>2, <1>3, RuntimeInbound
    <2> QED
      BY <2>1 DEF MadeFrom
  <1>5. stored.protocol = "vless"
    BY <1>4
  <1>6. IsClient(QualifyUsers(projected, node), QualifyConfig(config, node).inbounds, tag, c)
    BY <1>4, <1>5, ClientsOfRuntime
  <1>7. PICK p \in QualifyUsers(projected, node) : \E o \in p.allowed_outbounds :
            c.email = Email(p.username, o)
    BY <1>6 DEF IsClient, Active
  <1>8. PICK o \in p.allowed_outbounds : c.email = Email(p.username, o)
    BY <1>7
  <1>9. PICK u \in DOMAIN users :
            /\ users[u] # Absent /\ access[u][node] # Absent
            /\ p = QualifyUser(UserShape(u, users[u].status, access[u][node]), node)
    BY <1>7, RowsOfNode
  <1>10. /\ p.username = u
         /\ p.allowed_outbounds = {QualifiedOutboundTag(t, node) :
                                      t \in access[u][node].allowed_outbounds}
    <2>1. PICK row, status : row = access[u][node] /\ status = users[u].status
      OBVIOUS
    <2>2. p = QualifyUser(UserShape(u, status, row), node)
      BY <1>9, <2>1
    <2>3. RenamedRow(p, u, status, row, node)
      BY <2>2, QualifiedRow
    <2>4. p.username = u
          /\ p.allowed_outbounds = {QualifiedOutboundTag(t, node) : t \in row.allowed_outbounds}
      BY <2>3 DEF RenamedRow
    <2> QED
      BY <2>1, <2>4
  <1>11. PICK t \in access[u][node].allowed_outbounds : o = QualifiedOutboundTag(t, node)
    BY <1>8, <1>10
  <1> QED
    BY <1>8, <1>9, <1>10, <1>11

-----------------------------------------------------------------------------
(* Routes.                                                                 *)

SameRule(node, rule, named, t, o, u) ==
    /\ Matches(named, QualifiedInboundTag(t, node), Email(u, QualifiedOutboundTag(o, node)))
          <=> Matches(rule, t, Email(u, o))
    /\ named.outboundTag = QualifiedOutboundTag(rule.outboundTag, node)

\* A rule of the operator's takes a client under its qualified names exactly
\* when it would have taken it as it was written.
LEMMA RuleRenamed ==
    ASSUME NEW node \in STRING, NEW config, WellFormed(config), RulesAreLocal(config, node),
           PatternsAreLocal(config, node), LocalTagErrors(config, node) = {}, NEW i \in DOMAIN config.rules,
           NEW t \in Tags(config.inbounds), NEW o \in Tags(config.outbounds), NEW u,
           NEW rule, rule = config.rules[i],
           NEW named, named = QualifyConfig(config, node).rules[i]
    PROVE  SameRule(node, rule, named, t, o, u)
  <1> SUFFICES /\ Matches(named, QualifiedInboundTag(t, node),
                          Email(u, QualifiedOutboundTag(o, node)))
                    <=> Matches(rule, t, Email(u, o))
               /\ named.outboundTag = QualifiedOutboundTag(rule.outboundTag, node)
    BY DEF SameRule
  <1> DEFINE inbounds == KnownTags(config.inbounds)
             exits == KnownTags(config.outbounds)
             In(s) == QualifiedInboundTag(s, node)
             Out(s) == QualifiedOutboundTag(s, node)
             Renamed(s) == IF s \in inbounds THEN In(s) ELSE s
             Ref(ref) == RewriteKnownReference(ref, exits, node)
  <1>1. \A s \in Tags(config.inbounds) :
            IsTag(s) /\ LocalInbound(s, node) /\ s \in inbounds
    <2>1. \A s \in Tags(config.inbounds) : IsTag(s)
      BY DEF WellFormed, Tags
    <2>2. \A s \in Tags(config.inbounds) : LocalInbound(s, node)
      BY DEF Tags, LocalTagErrors, TagErrors, LocalInbound
    <2> QED
      BY <2>1, <2>2 DEF KnownTags, Tags, LocalInbound
  <1>2. \A s \in Tags(config.outbounds) :
            IsTag(s) /\ LocalOutbound(s, node) /\ s \in exits
    BY DEF WellFormed, Tags, LocalTagErrors, TagErrors, LocalOutbound, KnownTags
  <1>3. inbounds = Tags(config.inbounds) /\ exits = Tags(config.outbounds)
    BY <1>1, <1>2 DEF KnownTags, Tags
  <1>4. /\ named.inboundTag = {Renamed(s) : s \in rule.inboundTag}
        /\ named.user = {Ref(ref) : ref \in rule.user}
        /\ named.outboundTag = IF rule.outboundTag \in exits THEN Out(rule.outboundTag)
                               ELSE rule.outboundTag
    BY DEF QualifyConfig, QualifyRouting, QualifyRoutingRule, QualifyTaggedReference
  <1>5. ASSUME NEW s \in rule.inboundTag
        PROVE  Renamed(s) = In(t) <=> s = t
    <2>1. CASE s \in inbounds
      BY <1>1, <1>3, <2>1, InboundsStayApart DEF IsTag
    <2>2. CASE s \notin inbounds
      <3>1. IsQualifiedInboundTag(In(t), node)
        BY <1>1, QualifiedInbound DEF IsTag, LocalInbound
      <3>2. ~IsQualifiedInboundTag(s, node)
        BY <2>2 DEF RulesAreLocal
      <3> QED
        BY <1>1, <2>2, <3>1, <3>2
    <2> QED
      BY <2>1, <2>2
  <1>6. ASSUME NEW ref \in rule.user
        PROVE  Ref(ref).name = ref.name /\ (RefTakes(Ref(ref), Out(o)) <=> RefTakes(ref, o))
    <2>1. ref = [name |-> ref.name, tag |-> ref.tag]
      BY DEF WellFormed
    <2>2. CASE ref.tag \in exits
      <3>1. Out(ref.tag) = Out(o) <=> ref.tag = o
        BY <1>2, <1>3, <2>2, OutboundsStayApart DEF IsTag
      <3>2. PatternTakes(Out(ref.tag), Out(o)) <=> PatternTakes(ref.tag, o)
        BY <1>2, <2>2 DEF PatternsAreLocal
      <3>3. PICK changed : changed = Ref(ref)
        OBVIOUS
      <3>4. changed = [ref EXCEPT !.tag = Out(ref.tag)]
        BY <2>2, <3>3 DEF RewriteKnownReference
      <3>5. changed.name = ref.name /\ changed.tag = Out(ref.tag)
        BY <2>1, <3>4
      <3> HIDE DEF exits, Out
      <3>6. RefTakes(changed, Out(o)) <=> RefTakes(ref, o)
        BY <3>1, <3>2, <3>5 DEF RefTakes
      <3> QED
        BY <3>3, <3>5, <3>6
    <2>3. CASE ref.tag \notin exits
      <3>1. Ref(ref) = ref
        BY <2>3 DEF RewriteKnownReference
      <3>2. ~RefTakes(ref, o) /\ ~RefTakes(ref, Out(o))
        BY <1>2, <2>3 DEF RulesAreLocal
      <3> QED
        BY <3>1, <3>2
    <2> QED
      BY <2>2, <2>3
  <1>7. named.outboundTag = Out(rule.outboundTag)
    BY <1>4 DEF RulesAreLocal, QualifiedOutboundTag
  <1> HIDE DEF In, Out, Renamed, Ref
  <1>8. In(t) \in named.inboundTag <=> t \in rule.inboundTag
    BY <1>4, <1>5
  <1>9. named.inboundTag = {} <=> rule.inboundTag = {}
    BY <1>4
  <1>10. named.user = {} <=> rule.user = {}
    BY <1>4
  <1>11. (\E ref \in named.user : ref.name \in {Anyone, u} /\ RefTakes(ref, Out(o)))
            <=> (\E ref \in rule.user : ref.name \in {Anyone, u} /\ RefTakes(ref, o))
    BY <1>4, <1>6
  <1>12. /\ Email(u, Out(o)).tag = Out(o) /\ Email(u, Out(o)).user = u
         /\ Email(u, o).tag = o /\ Email(u, o).user = u
    BY DEF Email
  <1>13. Matches(named, In(t), Email(u, Out(o))) <=> Matches(rule, t, Email(u, o))
    BY <1>8, <1>9, <1>10, <1>11, <1>12 DEF Matches
  <1> QED
    BY <1>7, <1>13 DEF In, Out

\* A rule generated for an exit takes the clients its pattern takes.
LEMMA ExitRuleMatches ==
    ASSUME NEW x, NEW inbound, NEW u, NEW o
    PROVE  /\ Matches(ExitRule(x), inbound, Email(u, o)) <=> PatternTakes(x, o)
           /\ ExitRule(x).outboundTag = x
  <1>1. PICK rule, email : rule = ExitRule(x) /\ email = Email(u, o)
    OBVIOUS
  <1>2. /\ rule.outboundTag = x /\ rule.inboundTag = {}
        /\ rule.user = {[name |-> Anyone, tag |-> x]} /\ email.tag = o
    BY <1>1 DEF ExitRule, Email
  <1>3. \A ref \in rule.user :
            ref.name = Anyone /\ (RefTakes(ref, email.tag) <=> PatternTakes(x, o))
    BY <1>2 DEF RefTakes
  <1>4. Matches(rule, inbound, email) <=> PatternTakes(x, o)
    BY <1>2, <1>3 DEF Matches
  <1> QED
    BY <1>1, <1>2, <1>4

\* The exits whose patterns take the clients of an exit, and the one that gets them.
Takers(exits, o) == {i \in DOMAIN exits : PatternTakes(exits[i], o)}
GoesTo(exits, o) ==
    IF Takers(exits, o) = {} THEN Block ELSE exits[FirstOf(Takers(exits, o))]

\* Where a client goes: by the first rule of the operator's that takes it, else to
\* the first exit whose pattern takes it, else to BLOCK.
LEMMA RouteOf ==
    ASSUME NEW built, NEW rules, NEW exits, Leads(built, rules, exits),
           DOMAIN exits \subseteq Nat, NEW inbound, NEW u, NEW o
    PROVE  Route(built, inbound, Email(u, o)) =
              IF Taking(rules, inbound, Email(u, o)) = {} THEN GoesTo(exits, o)
              ELSE rules[FirstOf(Taking(rules, inbound, Email(u, o)))].outboundTag
  <1>1. PICK own, generated, takers :
            /\ own = Taking(rules, inbound, Email(u, o))
            /\ generated = Taking(built.exits, inbound, Email(u, o))
            /\ takers = Takers(exits, o)
    OBVIOUS
  <1>2. generated = takers
    <2>1. /\ DOMAIN built.exits = DOMAIN exits
          /\ \A i \in DOMAIN exits : built.exits[i] = ExitRule(exits[i])
      BY DEF Leads
    <2>2. \A i \in DOMAIN exits :
              Matches(built.exits[i], inbound, Email(u, o)) <=> PatternTakes(exits[i], o)
      BY <2>1, ExitRuleMatches
    <2> QED
      BY <1>1, <2>1, <2>2 DEF Taking, Takers
  <1>3. Route(built, inbound, Email(u, o)) =
            IF own # {} THEN rules[FirstOf(own)].outboundTag
            ELSE IF takers # {} THEN built.exits[FirstOf(takers)].outboundTag
            ELSE Block
    BY <1>1, <1>2 DEF Route, Leads
  <1>4. takers # {} => built.exits[FirstOf(takers)].outboundTag = exits[FirstOf(takers)]
    <2> SUFFICES ASSUME takers # {}
                 PROVE  built.exits[FirstOf(takers)].outboundTag = exits[FirstOf(takers)]
      OBVIOUS
    <2>1. takers \subseteq Nat /\ takers \subseteq DOMAIN exits
      BY <1>1 DEF Takers
    <2>2. FirstOf(takers) \in takers
      BY <2>1, MinExists DEF FirstOf
    <2>3. PICK i : i = FirstOf(takers) /\ i \in DOMAIN exits
      BY <2>1, <2>2
    <2>4. built.exits[i] = ExitRule(exits[i])
      BY <2>3 DEF Leads
    <2> QED
      BY <2>3, <2>4, ExitRuleMatches
  <1> QED
    BY <1>1, <1>3, <1>4 DEF GoesTo

\* The client of an exit whose own rule comes first among those that take it
\* leaves by that exit.
LEMMA OwnRuleLeads ==
    ASSUME NEW outbounds, NEW exits, exits = OutboundTags(outbounds), DOMAIN exits \subseteq Nat,
           NEW o, OwnRuleFirst(outbounds, o)
    PROVE  GoesTo(exits, o) = o
  <1>1. PICK takers : takers = Takers(exits, o)
    OBVIOUS
  <1>2. CASE o = Block
    BY <1>2 DEF OwnRuleFirst, GoesTo, Takers
  <1>3. CASE o # Block
    <2>1. PICK i \in takers : exits[i] = o /\ \A j \in takers : i <= j
      BY <1>1, <1>3 DEF OwnRuleFirst, Takers
    <2>2. takers \subseteq Nat
      BY <1>1 DEF Takers
    <2>3. FirstOf(takers) \in takers /\ \A j \in takers : FirstOf(takers) <= j
      BY <2>1 DEF FirstOf
    <2>4. FirstOf(takers) = i
      <3>1. PICK k : k = FirstOf(takers)
        OBVIOUS
      <3>2. k \in Nat /\ i \in Nat /\ k <= i /\ i <= k
        BY <2>1, <2>2, <2>3, <3>1
      <3> QED
        BY <3>1, <3>2
    <2> QED
      BY <1>1, <2>1, <2>4 DEF GoesTo
  <1> QED
    BY <1>2, <1>3

\* Filling an inbound with clients leaves its tag alone.
LEMMA BuiltTags ==
    ASSUME NEW config, WellFormed(config), Renderable(config), NEW projected,
           NEW t \in Tags(BuildConfig(config, projected).inbounds)
    PROVE  t \in Tags(config.inbounds)
  <1>1. PICK clients, inbounds :
            /\ inbounds = [i \in DOMAIN config.inbounds |-> Fill(config.inbounds[i], clients)]
            /\ inbounds = BuildConfig(config, projected).inbounds
    BY DEF BuildConfig
  <1>2. PICK i \in DOMAIN config.inbounds : t = Fill(config.inbounds[i], clients).tag
    BY <1>1, EntryHasPlace DEF Tags
  <1>3. PICK entry : entry = config.inbounds[i]
    OBVIOUS
  <1>4. entry \in EntrySet(config.inbounds)
    BY <1>3, PlaceHasEntry DEF Renderable
  <1>5. Fill(entry, clients).tag = entry.tag
    <2>1. CASE entry.protocol # "vless"
      BY <2>1 DEF Fill
    <2>2. CASE entry.protocol = "vless"
      <3>1. entry = [tag |-> entry.tag, protocol |-> entry.protocol, port |-> entry.port,
                     listen |-> entry.listen, transport |-> entry.transport,
                     security |-> entry.security, reality |-> entry.reality,
                     tls |-> entry.tls, settings |-> entry.settings]
        BY <1>4 DEF WellFormed
      <3>2. PICK filled, given :
                /\ filled = [entry EXCEPT !.settings.clients = given]
                /\ filled = Fill(entry, clients)
        BY <2>2 DEF Fill
      <3>3. filled.tag = entry.tag
        BY <3>1, <3>2
      <3> QED
        BY <3>2, <3>3
    <2> QED
      BY <2>1, <2>2
  <1> QED
    BY <1>2, <1>3, <1>4, <1>5 DEF Tags

\* Under qualified names a client goes to the exit of the qualified name.
SameRoute(node, runtime, local, t, o, u) ==
    Route(runtime, QualifiedInboundTag(t, node), Email(u, QualifiedOutboundTag(o, node)))
      = QualifiedOutboundTag(Route(local, t, Email(u, o)), node)

\* Nor does the order of the exits change: who takes a client under local names
\* takes it under qualified ones.
LEMMA GoesToRenamed ==
    ASSUME NEW node \in STRING, NEW config, WellFormed(config), PatternsAreLocal(config, node),
           LocalTagErrors(config, node) = {}, DOMAIN Exits(config) \subseteq Nat,
           NEW o \in Tags(config.outbounds)
    PROVE  GoesTo(QualifiedExits(config, node), QualifiedOutboundTag(o, node))
             = QualifiedOutboundTag(GoesTo(Exits(config), o), node)
  <1> DEFINE Out(s) == QualifiedOutboundTag(s, node)
  <1>1. PICK exits, qualified, out :
            /\ exits = Exits(config) /\ qualified = QualifiedExits(config, node) /\ out = Out(o)
    OBVIOUS
  <1>2. /\ DOMAIN qualified = DOMAIN exits
        /\ \A i \in DOMAIN exits : qualified[i] = Out(exits[i])
    BY <1>1 DEF QualifiedExits
  <1>3. \A s \in Tags(config.outbounds) : s \in KnownTags(config.outbounds)
    BY DEF Tags, LocalTagErrors, TagErrors, KnownTags
  <1>4. \A i \in DOMAIN exits : PatternTakes(qualified[i], out) <=> PatternTakes(exits[i], o)
    <2>1. \A i \in DOMAIN exits : exits[i] \in Tags(config.outbounds)
      BY <1>1, ExitsDeclared
    <2> QED
      BY <1>1, <1>2, <1>3, <2>1 DEF PatternsAreLocal
  <1>5. Takers(qualified, out) = Takers(exits, o)
    BY <1>2, <1>4 DEF Takers
  <1>6. CASE Takers(exits, o) = {}
    <2>1. Out(Block) = Block
      BY DEF QualifiedOutboundTag
    <2> QED
      BY <1>1, <1>5, <1>6, <2>1 DEF GoesTo
  <1>7. CASE Takers(exits, o) # {}
    <2>1. PICK first : first = FirstOf(Takers(exits, o))
      OBVIOUS
    <2>2. first \in Takers(exits, o)
      <3>1. Takers(exits, o) \subseteq Nat
        BY <1>1 DEF Takers
      <3> QED
        BY <1>7, <2>1, <3>1, MinExists DEF FirstOf
    <2>3. first \in DOMAIN exits
      BY <2>2 DEF Takers
    <2> QED
      BY <1>1, <1>2, <1>5, <1>7, <2>1, <2>3 DEF GoesTo
  <1> QED
    BY <1>6, <1>7

\* Renaming moves no client.
LEMMA RouteRenamed ==
    ASSUME NEW node \in STRING, NEW config, WellFormed(config), RulesAreLocal(config, node),
           PatternsAreLocal(config, node), LocalTagErrors(config, node) = {},
           config # Absent, Renderable(config),
           IsList(config.outbounds) => IsList(QualifyConfig(config, node).outbounds),
           NEW projected, NEW keys,
           NEW runtime, runtime = DesiredConfig(node, config, projected, keys),
           NEW local, local = BuildConfig(config, projected),
           NEW t \in Tags(config.inbounds), NEW o \in Tags(config.outbounds), NEW u
    PROVE  SameRoute(node, runtime, local, t, o, u)
  <1>1. PICK q, exits, qualified, in, out :
            /\ q = QualifyConfig(config, node).rules
            /\ exits = Exits(config) /\ qualified = QualifiedExits(config, node)
            /\ in = QualifiedInboundTag(t, node) /\ out = QualifiedOutboundTag(o, node)
    OBVIOUS
  <1>2. Leads(runtime, q, qualified)
    BY <1>1, RuntimeOutbounds
  <1>3. DOMAIN Entries(config.outbounds) \subseteq Nat \ {0}
    BY DEF Entries, WellFormed, Listed
  <1>4. Leads(local, config.rules, exits)
    BY <1>1, <1>3, BuildLeads
  <1>5. DOMAIN exits \subseteq Nat /\ DOMAIN qualified \subseteq Nat
    <2>1. DOMAIN exits \subseteq Nat
      BY <1>1, <1>3, ExitsDeclared
    <2> QED
      BY <1>1, <2>1 DEF QualifiedExits
  <1>6. PICK hits : hits = Taking(config.rules, t, Email(u, o))
    OBVIOUS
  <1>7. DOMAIN q = DOMAIN config.rules
    BY <1>1 DEF QualifyConfig, QualifyRouting
  <1>8. \A i \in DOMAIN config.rules :
            /\ Matches(q[i], in, Email(u, out)) <=> Matches(config.rules[i], t, Email(u, o))
            /\ q[i].outboundTag = QualifiedOutboundTag(config.rules[i].outboundTag, node)
    <2> SUFFICES ASSUME NEW i \in DOMAIN config.rules
                 PROVE  /\ Matches(q[i], in, Email(u, out)) <=> Matches(config.rules[i], t, Email(u, o))
                        /\ q[i].outboundTag
                             = QualifiedOutboundTag(config.rules[i].outboundTag, node)
      OBVIOUS
    <2>1. PICK rule, named :
              rule = config.rules[i] /\ named = QualifyConfig(config, node).rules[i]
      OBVIOUS
    <2>2. SameRule(node, rule, named, t, o, u)
      BY <2>1, RuleRenamed
    <2> QED
      BY <1>1, <2>1, <2>2 DEF SameRule
  <1>9. Taking(q, in, Email(u, out)) = hits
    BY <1>6, <1>7, <1>8 DEF Taking
  <1>10. Route(runtime, in, Email(u, out)) =
            IF hits = {} THEN GoesTo(qualified, out) ELSE q[FirstOf(hits)].outboundTag
    BY <1>2, <1>5, <1>9, RouteOf
  <1>11. Route(local, t, Email(u, o)) =
            IF hits = {} THEN GoesTo(exits, o) ELSE config.rules[FirstOf(hits)].outboundTag
    BY <1>4, <1>5, <1>6, RouteOf
  <1>12. CASE hits = {}
    <2>1. GoesTo(qualified, out) = QualifiedOutboundTag(GoesTo(exits, o), node)
      BY <1>1, <1>5, GoesToRenamed
    <2> QED
      BY <1>1, <1>10, <1>11, <1>12, <2>1 DEF SameRoute
  <1>13. CASE hits # {}
    <2>1. PICK first : first = FirstOf(hits)
      OBVIOUS
    <2>2. hits \subseteq Nat
      BY <1>6 DEF Taking, WellFormed, Listed
    <2>3. first \in hits
      BY <1>13, <2>1, <2>2, MinExists DEF FirstOf
    <2>4. first \in DOMAIN config.rules
      BY <1>6, <2>3 DEF Taking
    <2> QED
      BY <1>1, <1>8, <1>10, <1>11, <1>13, <2>1, <2>4 DEF SameRoute
  <1> QED
    BY <1>1, <1>12, <1>13 DEF SameRoute

-----------------------------------------------------------------------------
(* Lookups.                                                                *)

\* Of entries of one tag the last one counts.
LEMMA TaggedAt ==
    ASSUME NEW section, DOMAIN section \subseteq Nat, NEW k \in DOMAIN section,
           NEW tag, section[k].tag = tag,
           \A j \in DOMAIN section : section[j].tag = tag => j <= k
    PROVE  Tagged(section, tag) = section[k]
  <1> DEFINE Last(i) == /\ section[i].tag = tag
                        /\ \A j \in DOMAIN section : section[j].tag = tag => j <= i
  <1>1. \A i \in DOMAIN section : Last(i) => i = k
    OBVIOUS
  <1>2. (CHOOSE i \in DOMAIN section : Last(i)) = k
    BY <1>1
  <1> QED
    BY <1>2 DEF Tagged

LEMMA LastOfTag ==
    ASSUME NEW section, IsList(section), NEW b \in Nat, DOMAIN section \subseteq 1 .. b,
           NEW tag \in Tags(section)
    PROVE  \E k \in DOMAIN section :
              /\ section[k].tag = tag
              /\ \A j \in DOMAIN section : section[j].tag = tag => j <= k
  <1> DEFINE S == {i \in DOMAIN section : section[i].tag = tag}
  <1>1. S # {} /\ S \subseteq 0 .. b
    BY EntryHasPlace DEF Tags
  <1>2. \E i \in S : \A j \in S : j <= i
    <2> HIDE DEF S
    <2> QED
      BY <1>1, MaxExists
  <1> QED
    BY <1>2

\* The emails of a user's uuids are the user's.
LEMMA OwnEmails ==
    ASSUME NEW node, NEW username, NEW status, NEW row,
           NEW user, user = QualifyUser(UserShape(username, status, row), node),
           NEW e \in DOMAIN user.uuids
    PROVE  e.user = username
  <1>1. PICK shape : shape = UserShape(username, status, row)
    OBVIOUS
  <1>2. \A k \in DOMAIN shape.uuids : k.user = username
    BY <1>1 DEF UserShape, Email
  <1> DEFINE Key(email) == QualifyEmailKey(email, node)
             ins == {QualifiedInboundTag(t, node) : t \in shape.allowed_inbounds}
             outs == {QualifiedOutboundTag(t, node) : t \in shape.allowed_outbounds}
             uuids == Rename(shape.uuids, Key)
  <1>3. user = [shape EXCEPT !.allowed_inbounds = ins, !.allowed_outbounds = outs,
                             !.uuids = uuids]
    BY <1>1 DEF QualifyUser
  <1>4. "uuids" \in DOMAIN shape
    BY <1>1 DEF UserShape
  <1>5. DOMAIN uuids = {Key(k) : k \in DOMAIN shape.uuids}
    BY DEF Rename
  <1> HIDE DEF ins, outs, uuids
  <1>6. user.uuids = uuids
    BY <1>3, <1>4
  <1>7. PICK k \in DOMAIN shape.uuids : e = Key(k)
    BY <1>5, <1>6
  <1> QED
    BY <1>2, <1>7 DEF QualifyEmailKey, Email

\* So the uuid of an email among all users' is the uuid its own user has for it.
LEMMA UuidOfOwner ==
    ASSUME NEW node, NEW users, NEW access, NEW u \in DOMAIN users,
           users[u] # Absent, users[u].status = "active", access[u][node] # Absent,
           NEW user, user = QualifyUser(UserShape(u, users[u].status, access[u][node]), node),
           NEW projected, projected = QualifyUsers(NodeUsers(users, access, node), node),
           NEW o
    PROVE  /\ user \in Active(projected)
           /\ Email(u, o) \in DOMAIN UuidsMap(projected) <=> Email(u, o) \in DOMAIN user.uuids
           /\ Email(u, o) \in DOMAIN user.uuids =>
                 UuidsMap(projected)[Email(u, o)] = user.uuids[Email(u, o)]
  <1> DEFINE maps == {p.uuids : p \in Active(projected)}
             e == Email(u, o)
  <1>1. user \in Active(projected)
    <2>1. user \in projected
      BY DEF QualifyUsers, NodeUsers
    <2>2. PICK row, status : row = access[u][node] /\ status = users[u].status
      OBVIOUS
    <2>3. user = QualifyUser(UserShape(u, status, row), node)
      BY <2>2
    <2>4. RenamedRow(user, u, status, row, node)
      BY <2>3, QualifiedRow
    <2>5. user.status = "active"
      BY <2>2, <2>4 DEF RenamedRow
    <2> QED
      BY <2>1, <2>5 DEF Active
  <1>2. ASSUME NEW p \in Active(projected), e \in DOMAIN p.uuids
        PROVE  p = user
    <2>1. p \in projected
      BY DEF Active
    <2>2. PICK v \in DOMAIN users :
              p = QualifyUser(UserShape(v, users[v].status, access[v][node]), node)
      BY <2>1, RowsOfNode
    <2>3. e.user = v
      <3>1. PICK row, status : row = access[v][node] /\ status = users[v].status
        OBVIOUS
      <3>2. p = QualifyUser(UserShape(v, status, row), node)
        BY <2>2, <3>1
      <3> HIDE DEF e
      <3> QED
        BY <1>2, <3>2, OwnEmails
    <2> QED
      BY <2>2, <2>3 DEF Email
  <1>3. DOMAIN UuidsMap(projected) = UNION {DOMAIN map : map \in maps}
    BY DEF UuidsMap
  <1>4. e \in DOMAIN UuidsMap(projected) =>
            UuidsMap(projected)[e] = (CHOOSE map \in maps : e \in DOMAIN map)[e]
    BY <1>3 DEF UuidsMap
  <1> HIDE DEF e
  <1>5. \A map \in maps : e \in DOMAIN map => map = user.uuids
    BY <1>2
  <1>6. user.uuids \in maps
    BY <1>1
  <1>7. e \in DOMAIN UuidsMap(projected) <=> e \in DOMAIN user.uuids
    BY <1>3, <1>5, <1>6
  <1>8. e \in DOMAIN user.uuids => (CHOOSE map \in maps : e \in DOMAIN map) = user.uuids
    BY <1>5, <1>6
  <1> QED
    BY <1>1, <1>4, <1>7, <1>8 DEF e

\* The inbound a link is made from and the one its node serves are of one place,
\* the last that has the tag.
SamePlace(node, config, q, clients, held, runtime, t, k) ==
    /\ Tagged(q.inbounds, t) = q.inbounds[k]
    /\ Tagged(runtime.inbounds, t) = runtime.inbounds[k]
    /\ t = QualifiedInboundTag(config.inbounds[k].tag, node)
    /\ NamedFrom(config.inbounds[k], t, q.inbounds[k])
    /\ MadeFrom(config.inbounds[k], t, clients, held, runtime.inbounds[k])

LEMMA ServedInbound ==
    ASSUME NEW node, NEW config, WellFormed(config), config # Absent, Renderable(config),
           NEW q, q = QualifyConfig(config, node), IsList(q.inbounds),
           NEW projected, NEW keys,
           NEW runtime, runtime = DesiredConfig(node, config, projected, keys),
           NEW clients, clients = Clients(node, config, projected),
           NEW held, held = QualifyKeys(keys, node),
           NEW t \in Tags(q.inbounds)
    PROVE  \E k \in DOMAIN config.inbounds :
              SamePlace(node, config, q, clients, held, runtime, t, k)
  <1>1. IsList(config.inbounds)
    BY DEF Renderable
  <1>2. PICK b \in Nat : DOMAIN config.inbounds = 1 .. b
    BY <1>1 DEF WellFormed, Listed
  <1>3. ASSUME NEW i \in DOMAIN config.inbounds
        PROVE  /\ NamedFrom(config.inbounds[i],
                            QualifiedInboundTag(config.inbounds[i].tag, node), q.inbounds[i])
               /\ MadeFrom(config.inbounds[i],
                           QualifiedInboundTag(config.inbounds[i].tag, node), clients, held,
                           runtime.inbounds[i])
               /\ q.inbounds[i].tag = QualifiedInboundTag(config.inbounds[i].tag, node)
               /\ runtime.inbounds[i].tag = QualifiedInboundTag(config.inbounds[i].tag, node)
    <2>1. PICK stored, tag, named, made :
              /\ stored = config.inbounds[i] /\ tag = QualifiedInboundTag(stored.tag, node)
              /\ named = q.inbounds[i] /\ made = runtime.inbounds[i]
      OBVIOUS
    <2>2. NamedFrom(stored, tag, named)
      BY <1>1, <2>1, InboundNamed
    <2>3. MadeFrom(stored, tag, clients, held, made)
      BY <2>1, RuntimeInbound
    <2>4. named.tag = tag /\ made.tag = tag
      BY <2>2, <2>3 DEF NamedFrom, MadeFrom
    <2> QED
      BY <2>1, <2>2, <2>3, <2>4
  <1>4. DOMAIN q.inbounds = DOMAIN config.inbounds
    BY <1>1 DEF QualifyConfig, QualifyEntries
  <1>5. DOMAIN runtime.inbounds = DOMAIN config.inbounds
    BY <1>1, RuntimePlaces
  <1>6. PICK k \in DOMAIN q.inbounds :
            /\ q.inbounds[k].tag = t
            /\ \A j \in DOMAIN q.inbounds : q.inbounds[j].tag = t => j <= k
    BY <1>2, <1>4, LastOfTag
  <1>7. Tagged(q.inbounds, t) = q.inbounds[k]
    BY <1>2, <1>4, <1>6, TaggedAt
  <1>8. Tagged(runtime.inbounds, t) = runtime.inbounds[k]
    <2>1. /\ DOMAIN runtime.inbounds \subseteq Nat /\ k \in DOMAIN runtime.inbounds
          /\ runtime.inbounds[k].tag = t
          /\ \A j \in DOMAIN runtime.inbounds : runtime.inbounds[j].tag = t => j <= k
      BY <1>2, <1>3, <1>4, <1>5, <1>6
    <2> QED
      BY <2>1, TaggedAt
  <1>9. t = QualifiedInboundTag(config.inbounds[k].tag, node)
    BY <1>3, <1>4, <1>6
  <1> QED
    BY <1>3, <1>4, <1>7, <1>8, <1>9 DEF SamePlace
=============================================================================
