------------------------------ MODULE Qualify ------------------------------
(***************************************************************************)
(* Tag qualification (src/src/services/qualify_service.ts): stored configs, *)
(* access rows, keys and profiles use local tags; render and links use the *)
(* names this module makes of them for one node.                           *)
(*                                                                         *)
(* A tag is the sequence of its words, the hyphens of the string being the *)
(* commas of the sequence: reality-tokyo01 is <<"reality", "tokyo01">>.    *)
(* Every string is exactly one nonempty sequence of hyphen-free words, and *)
(* since node ids have no hyphen, `ends with -node` says that there are two *)
(* words or more and that the last is the node.                            *)
(*                                                                         *)
(* A section of a config is a sequence of entries, Absent, or Unusable: an *)
(* object or a number in place of a list, which cannot be walked.  A string *)
(* walks as a list of nothing; that case is left out.                      *)
(***************************************************************************)
EXTENDS Naturals, Sequences

CONSTANTS Absent, Unusable

Block == <<"BLOCK">>
EmptyTag == <<"">>

IsQualifiedInboundTag(tag, node) == Len(tag) > 1 /\ tag[Len(tag)] = node
IsQualifiedOutboundTag(tag, node) == Len(tag) > 1 /\ tag[1] = node

LocalInboundTag(tag, node) == tag
QualifiedInboundTag(tag, node) ==
    IF IsQualifiedInboundTag(tag, node) \/ tag = EmptyTag THEN tag
    ELSE Append(tag, node)

\* BLOCK is the shared default route of every node.
QualifiedOutboundTag(tag, node) ==
    IF tag = Block \/ IsQualifiedOutboundTag(tag, node) \/ tag = EmptyTag THEN tag
    ELSE <<node>> \o tag

\* baseInboundTag and baseOutboundTag of the labels (link_service.ts).
BaseInboundTag(tag, node) ==
    IF IsQualifiedInboundTag(tag, node) THEN SubSeq(tag, 1, Len(tag) - 1) ELSE tag
BaseOutboundTag(tag, node) ==
    IF IsQualifiedOutboundTag(tag, node) THEN SubSeq(tag, 2, Len(tag)) ELSE tag

-----------------------------------------------------------------------------
(* Configs.                                                                *)

IsList(section) == section \notin {Absent, Unusable}
Entries(section) == IF IsList(section) THEN section ELSE << >>
EntrySet(section) == {Entries(section)[i] : i \in DOMAIN Entries(section)}

KnownTags(section) == {entry.tag : entry \in EntrySet(section)} \ {EmptyTag}

QualifyEntries(section, Qualifier(_)) ==
    IF ~IsList(section) THEN section
    ELSE [i \in DOMAIN section |-> [section[i] EXCEPT !.tag = Qualifier(section[i].tag)]]

\* A user reference of a rule names an exit by the tag after its last @, for
\* one user or, as a pattern, for every user; its tag is Absent if it has none.
ReferenceAsWritten(ref, known, node) == ref
RewriteKnownReference(ref, known, node) ==
    IF ref.tag \in known THEN [ref EXCEPT !.tag = QualifiedOutboundTag(@, node)] ELSE ref

QualifyTaggedReference(tag, known, Qualifier(_)) ==
    IF tag \in known THEN Qualifier(tag) ELSE tag

\* A key a rule does not have is Absent (outboundTag) or an empty set.
QualifyRoutingRule(rule, inboundTags, known, node) ==
    LET In(tag) == QualifiedInboundTag(tag, node)
        Out(tag) == QualifiedOutboundTag(tag, node)
    IN [outboundTag |-> QualifyTaggedReference(rule.outboundTag, known, Out),
        inboundTag |-> {QualifyTaggedReference(t, inboundTags, In) : t \in rule.inboundTag},
        user |-> {RewriteKnownReference(ref, known, node) : ref \in rule.user}]

QualifyRouting(rules, inboundTags, outboundTags, node) ==
    [i \in DOMAIN rules |-> QualifyRoutingRule(rules[i], inboundTags, outboundTags, node)]

QualifyConfig(config, node) ==
    LET In(tag) == QualifiedInboundTag(tag, node)
        Out(tag) == QualifiedOutboundTag(tag, node)
    IN [inbounds |-> QualifyEntries(config.inbounds, In),
        outbounds |-> QualifyEntries(config.outbounds, Out),
        rules |-> QualifyRouting(config.rules, KnownTags(config.inbounds),
                                 KnownTags(config.outbounds), node)]

-----------------------------------------------------------------------------
(* Access, keys and profiles.                                              *)

Email(username, tag) == [user |-> username, tag |-> tag]
QualifyEmailKey(email, node) == Email(email.user, QualifiedOutboundTag(email.tag, node))

\* Renames the keys of a map.  Of two keys of one name, either value stands.
Rename(map, Name(_)) ==
    [q \in {Name(k) : k \in DOMAIN map} |-> map[CHOOSE k \in DOMAIN map : Name(k) = q]]

QualifyUser(user, node) ==
    LET Key(email) == QualifyEmailKey(email, node) IN
    [user EXCEPT
        !.allowed_inbounds = {QualifiedInboundTag(t, node) : t \in user.allowed_inbounds},
        !.allowed_outbounds = {QualifiedOutboundTag(t, node) : t \in user.allowed_outbounds},
        !.uuids = Rename(user.uuids, Key)]

QualifyUsers(projected, node) == {QualifyUser(user, node) : user \in projected}

KeysAsStored(keys, node) == keys
QualifyKeys(keys, node) ==
    LET Name(tag) == QualifiedInboundTag(tag, node) IN Rename(keys, Name)

\* The entries of each inbound; their order by id is left to the links.
QualifyProfiles(profiles, node) ==
    LET Key(profile) == QualifiedInboundTag(profile.inbound_tag, node)
        Entry(profile) == [id |-> profile.id, label |-> profile.label,
                           overrides |-> profile.overrides]
    IN [q \in {Key(p) : p \in profiles} |->
           {Entry(p) : p \in {p \in profiles : Key(p) = q}}]

\* What saveConfig refuses: a blank tag, or one that is qualified already.
TagErrors(section, node, IsQualified(_, _)) ==
    {entry.tag : entry \in {e \in EntrySet(section) :
                               e.tag = EmptyTag \/ IsQualified(e.tag, node)}}

LocalTagErrors(config, node) ==
    TagErrors(config.inbounds, node, IsQualifiedInboundTag)
        \cup TagErrors(config.outbounds, node, IsQualifiedOutboundTag)
=============================================================================
