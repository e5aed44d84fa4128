---------------------------- MODULE Subscription ----------------------------
(***************************************************************************)
(* A user's links while the admin edits: the subscription URL              *)
(* (src/src/routers/sub.ts over subscription_service.ts) and the admin's    *)
(* links view (src/src/routers/admin_users.ts), both the walk of            *)
(* link_service.userLinks over access rows, nodes, profiles and keys, one  *)
(* action per D1 statement; the edits of the tables it reads, one action   *)
(* per statement that stores; and the clock that ends an entitlement.      *)
(*                                                                         *)
(* The properties compare the links with what the nodes serve (Render).    *)
(***************************************************************************)
EXTENDS ShareLinks, FiniteSets

CONSTANTS
    Nodes,       \* node ids, single words
    Users,       \* usernames
    Viewed,      \* the user of the links view
    Configs,     \* configs the admin pastes
    Addresses,   \* public addresses of nodes
    Profiles,    \* link profiles: [id, inbound_tag, label, overrides]
    AccessLists, \* [allowed_inbounds, allowed_outbounds] of an access payload
    Expiries,    \* contents of the expire column
    Edited,      \* the users the admin edits
    Start,       \* contents of the tables at the beginning
    Changes,     \* the edits the admin makes
    MaxEdits,    \* bound on them
    MaxClock     \* bound on the clock

VARIABLES
    node,      \* the nodes rows: [label, address, config]
    profiles,  \* the link_profiles rows of each node
    keys,      \* the reality_keys rows of each node: keys by inbound tag
    users,     \* the users rows: [status, expire, token], or Absent
    access,    \* the user_node_access rows, or Absent
    clock,     \* nowSeconds
    job,       \* the request under way
    answer,    \* the last answer
    quiet,     \* no edit was stored since the request began
    minted,    \* how many keys, uuids and tokens were drawn
    edits

\* Rows of the tables as the schema has them.
NodeRows(rows) ==
    /\ DOMAIN rows = Nodes
    /\ \A n \in Nodes :
          /\ rows[n] = [label |-> rows[n].label, address |-> rows[n].address,
                        config |-> rows[n].config]
          /\ rows[n].config \in Configs \cup {Absent}
          /\ rows[n].config # Absent => LocalTagErrors(rows[n].config, n) = {}

UserRows(rows, drawn) ==
    /\ DOMAIN rows = Users
    /\ \A u \in Users : rows[u] # Absent =>
          /\ rows[u] = [status |-> rows[u].status, expire |-> rows[u].expire,
                        token |-> rows[u].token]
          /\ rows[u].expire \in Nat \cup {Absent} /\ rows[u].token \in 1 .. drawn

AccessRows(rows) ==
    /\ DOMAIN rows = Users
    /\ \A u \in Users : DOMAIN rows[u] = Nodes
    /\ \A u \in Users, n \in Nodes : rows[u][n] # Absent =>
          \A t \in rows[u][n].allowed_outbounds : IsTag(t)

ProfileRows(rows) == DOMAIN rows = Nodes /\ \A n \in Nodes : \A p \in rows[n] : p.id # Absent

KeyRows(rows) ==
    DOMAIN rows = Nodes /\ \A n \in Nodes : \A t \in DOMAIN rows[n] : rows[n][t] \in Nat \ {BadKey}

ASSUME TablesAssumption ==
    /\ Viewed \in Users /\ Absent \notin Nat /\ Expiries \subseteq Nat \cup {Absent}
    /\ Nodes \subseteq STRING /\ \A config \in Configs : WellFormed(config)
    /\ \A config \in Configs, n \in Nodes : \* the marks of no list are no list
          /\ IsList(config.inbounds) => IsList(QualifyConfig(config, n).inbounds)
          /\ IsList(config.outbounds) => IsList(QualifyConfig(config, n).outbounds)
    /\ \A p \in Profiles : p.id # Absent
    /\ \A list \in AccessLists : \A t \in list.allowed_outbounds : IsTag(t)
    /\ \A start \in Start :
          /\ start.minted \in Nat
          /\ NodeRows(start.node) /\ UserRows(start.users, start.minted)
          /\ AccessRows(start.access) /\ ProfileRows(start.profiles) /\ KeyRows(start.keys)

tables == <<node, profiles, keys, users, access>>
vars == <<tables, clock, job, answer, quiet, minted, edits>>

\* The URL a client app holds.
Token == 1

Kinds == {"sub", "view"}
Idle == [kind |-> "none", pc |-> "user", user |-> Viewed, todo |-> {},
         rows |-> << >>, read |-> << >>, entries |-> << >>, links |-> {}]

Answer(kind, status, links) == [kind |-> kind, status |-> status, links |-> links]

-----------------------------------------------------------------------------
(* The walk.                                                               *)

\* isEntitled: expire null or 0 is never, and a time is over once it is now.
IsEntitledIgnored(user, at) == user.status = "active"
IsEntitledLate(user, at) ==
    user.status = "active" /\ (user.expire \in {Absent, 0} \/ user.expire >= at)
IsEntitled(user, at) ==
    user.status = "active" /\ (user.expire \in {Absent, 0} \/ user.expire > at)

Request(kind) ==
    /\ job = Idle
    /\ job' = [Idle EXCEPT !.kind = kind]
    /\ quiet' = TRUE
    /\ UNCHANGED <<tables, clock, answer, minted, edits>>

Reply(status, links) ==
    /\ answer' = Answer(job.kind, status, links)
    /\ job' = Idle

At(pc) == job.kind # "none" /\ job.pc = pc
Unanswered == UNCHANGED answer
Stays == UNCHANGED <<tables, clock, quiet, minted, edits>>

Owner(token) == {u \in Users : users[u] # Absent /\ users[u].token = token}

\* getUserBySubToken, or getUser of the links view.
LookUp ==
    /\ At("user")
    /\ \/ /\ job.kind = "sub"
          /\ LET entitled == {u \in Owner(Token) : IsEntitled(users[u], clock)} IN
             IF entitled = {} THEN Reply(200, {})
             ELSE /\ job' = [job EXCEPT !.user = CHOOSE u \in entitled : TRUE, !.pc = "access"]
                  /\ Unanswered
       \/ /\ job.kind = "view"
          /\ IF users[Viewed] = Absent THEN Reply(404, {})
             ELSE job' = [job EXCEPT !.pc = "access"] /\ Unanswered
    /\ Stays

Next1(ns) == CHOOSE n \in ns : TRUE

\* A map with one entry set.
With(map, k, value) == [j \in DOMAIN map \cup {k} |-> IF j = k THEN value ELSE map[j]]

\* The status codes of the links view; a subscription is always a 200.
Status(done) ==
    IF job.kind = "view" /\ DOMAIN done.rows # {} /\ DOMAIN done.read = {} THEN 503
    ELSE IF job.kind = "view" /\ DOMAIN done.read # {} /\ DOMAIN done.entries = {} THEN 409
    ELSE 200

\* Goes to the first of the phases that has nodes to read, or answers.
Proceed(done) ==
    IF done.todo # {} THEN job' = done /\ Unanswered
    ELSE IF done.pc = "node" /\ DOMAIN done.read # {}
         THEN job' = [done EXCEPT !.pc = "profiles", !.todo = DOMAIN done.read] /\ Unanswered
    ELSE IF done.pc = "profiles" /\ DOMAIN done.entries # {}
         THEN job' = [done EXCEPT !.pc = "keys", !.todo = DOMAIN done.entries] /\ Unanswered
    ELSE Reply(Status(done), IF Status(done) = 200 THEN done.links ELSE {})

\* listAccessForUser.
ReadAccess ==
    /\ At("access")
    /\ LET granted == {n \in Nodes : access[job.user][n] # Absent} IN
       Proceed([job EXCEPT !.pc = "node", !.todo = granted,
                           !.rows = [n \in granted |-> access[job.user][n]]])
    /\ Stays

\* accessPairs: getNode of the next row; splitConfigPairs keeps those with a
\* config.
ReadNodeUnsplit ==
    /\ At("node")
    /\ LET n == Next1(job.todo) IN
       Proceed([job EXCEPT !.todo = @ \ {n}, !.read = With(@, n, node[n])])
    /\ Stays
ReadNode ==
    /\ At("node")
    /\ LET n == Next1(job.todo) IN
       Proceed([job EXCEPT !.todo = @ \ {n},
                           !.read = IF node[n].config = Absent THEN @ ELSE With(@, n, node[n])])
    /\ Stays

Overridden(ps) ==
    {p.overrides["address"] : p \in {p \in ps : "address" \in DOMAIN p.overrides}}

\* addressableEntries: listLinkProfiles of the next node with a config.
ReadProfiles ==
    /\ At("profiles")
    /\ LET n == Next1(job.todo)
           row == job.read[n]
       IN IF AddressThrows(row.config, row.address) THEN Reply(500, {})
          ELSE Proceed([job EXCEPT !.todo = @ \ {n},
                   !.entries = IF HasUsableAddress(row.config, row.address,
                                                   Overridden(profiles[n]))
                               THEN With(@, n, profiles[n]) ELSE @])
    /\ Stays

OnNode(n, links) == {[node |-> n, link |-> l] : l \in links}

\* collectLinks: keyMap of the next node, and the node's links.
ReadKeys ==
    /\ At("keys")
    /\ \E n \in {Next1(job.todo)} :
          \E built \in {NodeLinks(job.user, "active", job.rows[n], n, job.read[n], keys[n],
                                  job.entries[n])} :
             IF built.throws THEN Reply(500, {})
             ELSE Proceed([job EXCEPT !.todo = @ \ {n}, !.links = @ \cup OnNode(n, built.links)])
    /\ Stays

Work == LookUp \/ ReadAccess \/ ReadNode \/ ReadProfiles \/ ReadKeys

-----------------------------------------------------------------------------
(* The edits, one per statement that stores; of several statements where   *)
(* UserAdmin, NodeAdmin and RealityKeys have them one by one.              *)

Unheard == UNCHANGED <<clock, job, answer>>
Edit(kind) ==
    /\ kind \in Changes /\ edits < MaxEdits
    /\ edits' = edits + 1
    /\ quiet' = FALSE
    /\ Unheard

\* saveConfig, after localTagErrors.
SaveConfig(n) ==
    /\ Edit("config")
    /\ \E config \in Configs \ {node[n].config} :
          /\ LocalTagErrors(config, n) = {}
          /\ node' = [node EXCEPT ![n].config = config]
    /\ UNCHANGED <<profiles, keys, users, access, minted>>

SetAddress(n) ==
    /\ Edit("address")
    /\ \E address \in Addresses \ {node[n].address} : node' = [node EXCEPT ![n].address = address]
    /\ UNCHANGED <<profiles, keys, users, access, minted>>

\* createLinkProfile and updateLinkProfile, after validateInboundTag; and
\* deleteLinkProfile.
SetProfile(n) ==
    /\ Edit("profile") /\ node[n].config # Absent
    /\ \E p \in Profiles :
          /\ p.inbound_tag \in Tags(node[n].config.inbounds)
          /\ profiles' = [profiles EXCEPT ![n] = {q \in @ : q.id # p.id} \cup {p}]
    /\ UNCHANGED <<node, keys, users, access, minted>>

DeleteProfile(n) ==
    /\ Edit("profile")
    /\ \E p \in profiles[n] : profiles' = [profiles EXCEPT ![n] = @ \ {p}]
    /\ UNCHANGED <<node, keys, users, access, minted>>

\* rotateOne.
RotateKey(n) ==
    /\ Edit("key") /\ node[n].config # Absent
    /\ \E t \in RealityInboundTags(node[n].config) :
          keys' = [keys EXCEPT ![n] = With(@, t, minted + 1)]
    /\ minted' = minted + 1
    /\ UNCHANGED <<node, profiles, users, access>>

\* ensureUuids: a tag with a uuid keeps it; those drawn by one statement share
\* a number.
EnsureUuids(tags, old, fresh) ==
    [t \in tags \cup DOMAIN old |-> IF t \in DOMAIN old THEN old[t] ELSE fresh]

\* upsertAccess and deleteAccess.
SetAccess(u, n) ==
    /\ Edit("access") /\ users[u] # Absent
    /\ \E list \in AccessLists :
          access' = [access EXCEPT ![u][n] =
              [allowed_inbounds |-> list.allowed_inbounds,
               allowed_outbounds |-> list.allowed_outbounds,
               uuids |-> EnsureUuids(list.allowed_outbounds,
                                     IF @ = Absent THEN << >> ELSE @.uuids, minted + 1)]]
    /\ minted' = minted + 1
    /\ UNCHANGED <<node, profiles, keys, users>>

DeleteAccess(u, n) ==
    /\ Edit("access")
    /\ access' = [access EXCEPT ![u][n] = Absent]
    /\ UNCHANGED <<node, profiles, keys, users, minted>>

\* replaceUser.
SetUser(u) ==
    /\ Edit("user") /\ users[u] # Absent
    /\ \E status \in {"active", "disabled"}, expire \in Expiries :
          users' = [users EXCEPT ![u].status = status, ![u].expire = expire]
    /\ UNCHANGED <<node, profiles, keys, access, minted>>

\* rotateSubToken.
RotateToken(u) ==
    /\ Edit("token") /\ users[u] # Absent
    /\ users' = [users EXCEPT ![u].token = minted + 1]
    /\ minted' = minted + 1
    /\ UNCHANGED <<node, profiles, keys, access>>

DeleteUser(u) ==
    /\ Edit("user") /\ users[u] # Absent
    /\ access' = [access EXCEPT ![u] = [n \in Nodes |-> Absent]]
    /\ users' = [users EXCEPT ![u] = Absent]
    /\ UNCHANGED <<node, profiles, keys, minted>>

\* A heartbeat renders: ensureKeys stores a key for each tag that has none.
Unkeyed(n) == RealityInboundTags(node[n].config) \ DOMAIN keys[n]
RenderNode(n) ==
    /\ node[n].config # Absent
    /\ IsList(node[n].config.inbounds) /\ node[n].config.outbounds # Unusable
    /\ Unkeyed(n) # {}
    /\ keys' = [keys EXCEPT ![n] =
          [t \in Unkeyed(n) \cup DOMAIN @ |-> IF t \in DOMAIN @ THEN @[t] ELSE minted + 1]]
    /\ minted' = minted + 1
    /\ quiet' = FALSE
    /\ Unheard
    /\ UNCHANGED <<node, profiles, users, access, edits>>

Tick ==
    /\ clock < MaxClock
    /\ clock' = clock + 1
    /\ quiet' = FALSE
    /\ UNCHANGED <<tables, job, answer, minted, edits>>

Init ==
    /\ \E start \in Start :
          /\ node = start.node /\ profiles = start.profiles /\ keys = start.keys
          /\ users = start.users /\ access = start.access /\ minted = start.minted
    /\ clock = 1
    /\ job = Idle /\ answer = Answer("none", 200, {})
    /\ quiet = TRUE /\ edits = 0

Next ==
    \/ \E kind \in Kinds : Request(kind)
    \/ Work
    \/ \E n \in Nodes :
          \/ SaveConfig(n) \/ SetAddress(n) \/ SetProfile(n) \/ DeleteProfile(n)
          \/ RotateKey(n) \/ RenderNode(n)
          \/ \E u \in Edited : SetAccess(u, n) \/ DeleteAccess(u, n)
    \/ \E u \in Edited : SetUser(u) \/ RotateToken(u) \/ DeleteUser(u)
    \/ Tick

Spec == Init /\ [][Next]_vars

\* Statements return, nodes send heartbeats, client apps refresh and the admin
\* looks again.
Fairness ==
    /\ WF_vars(Work)
    /\ \A n \in Nodes : WF_vars(RenderNode(n))
    /\ \A kind \in Kinds : SF_vars(Request(kind))

FairSpec == Spec /\ Fairness

-----------------------------------------------------------------------------
(* What the tables entitle a user to, and what the nodes serve.            *)

Row(u, n) == access[u][n]
Projected(n) == NodeUsers(users, access, n)
Runtime(n) == DesiredConfig(n, node[n].config, Projected(n), keys[n])

\* The nodes the walk gets links of.
Linked(u) ==
    {n \in Nodes : /\ Row(u, n) # Absent /\ node[n].config # Absent
                   /\ HasUsableAddress(node[n].config, node[n].address, Overridden(profiles[n]))}

Build(u, n) == NodeLinks(u, "active", Row(u, n), n, node[n], keys[n], profiles[n])
LinksOn(u, n) == Build(u, n).links
Links(u) == UNION {OnNode(n, LinksOn(u, n)) : n \in Linked(u)}

Fails(u) ==
    \/ \E n \in Nodes : /\ Row(u, n) # Absent /\ node[n].config # Absent
                         /\ AddressThrows(node[n].config, node[n].address)
    \/ \E n \in Linked(u) :
          Build(u, n).throws

\* A config every stage takes and whose keys the next heartbeat has stored; and
\* one Xray then runs.
Served(n) == Runtime(n) # Absent /\ Unkeyed(n) = {}
Runs(n) == Served(n) /\ Startable(node[n].config)

ActiveUsers == {u \in Users : users[u] # Absent /\ users[u].status = "active"}

\* A rule of the operator's takes the client of a link.
Captured(rules, link) ==
    \E i \in DOMAIN rules : Matches(rules[i], link.inbound, link.email)

-----------------------------------------------------------------------------
(* Properties.                                                             *)

\* Rows, requests and answers keep their shape, and of the nodes a walk goes on
\* with each has the config that the walk read (splitConfigPairs).
TypeOK ==
    /\ \A n \in Nodes : node[n].config \in Configs \cup {Absent}
    /\ \A u \in Users : users[u] # Absent => users[u].token \in 1 .. minted
    /\ answer.kind \in Kinds \cup {"none"} /\ answer.status \in {200, 404, 409, 500, 503}
    /\ job.pc \in {"user", "access", "node", "profiles", "keys"}
    /\ job.todo \subseteq Nodes /\ DOMAIN job.entries \subseteq DOMAIN job.read
    /\ DOMAIN job.read \subseteq DOMAIN job.rows
    /\ \A n \in DOMAIN job.read : job.read[n].config \in Configs

\* The next four relate the tables to each other; a request changes no table, so
\* it is enough to look between requests.
AtRest == job = Idle

\* A direct link of an active user works on the config its node serves: the
\* inbound speaks what the link says, knows the link's client, and leads it out
\* by the exit the link names unless a rule of the operator's, or the pattern of
\* an exit listed before, takes it first.
LinksWork == AtRest =>
    \A n \in Nodes : Runs(n) =>
        LET runtime == Runtime(n)
            config == QualifyConfig(node[n].config, n)
            Works(link) ==
                LET inbound == Tagged(runtime.inbounds, link.inbound) IN
                /\ Speaks(link, inbound) /\ Admits(link, inbound)
                /\ \/ Captured(config.rules, link)
                   \/ ~OwnRuleFirst(Entries(config.outbounds), link.outbound)
                   \/ Route(runtime, link.inbound, link.email) = link.outbound
        IN \A u \in ActiveUsers : Row(u, n) # Absent =>
              \A link \in LinksOn(u, n) : link.profile = Absent => Works(link)

\* Every client the node serves for a declared exit has its direct link, as
\* long as the inbound has a port and an address to name.
EveryClientHasLink == AtRest =>
    \A n \in Nodes : Runs(n) =>
        LET exits == Tags(QualifyConfig(node[n].config, n).outbounds)
            inbounds == {i \in EntrySet(Runtime(n).inbounds) :
                /\ i.protocol = "vless" /\ i.port # Absent
                /\ ResolveAddress(node[n].address, i) # NoAddress}
            links == UNION {LinksOn(u, n) : u \in {u \in ActiveUsers : Row(u, n) # Absent}}
        IN \A i \in inbounds : \A client \in i.settings.clients :
              client.email.tag \in exits =>
                \E link \in links :
                    /\ link.profile = Absent /\ link.email = client.email
                    /\ link.uuid = client.id /\ link.inbound = i.tag

\* What a node's runtime names: its inbounds, exits and clients.
Names(n) ==
    LET runtime == Runtime(n) IN
    IF runtime = Absent THEN [inbounds |-> {}, exits |-> {}, emails |-> {}]
    ELSE [inbounds |-> Tags(runtime.inbounds), exits |-> Tags(runtime.outbounds),
          emails |-> UNION {{c.email : c \in i.settings.clients} :
                        i \in {i \in EntrySet(runtime.inbounds) : i.protocol = "vless"}}]

\* "Emails, routing rules, and statistics stay globally unambiguous"
\* (qualify_service.ts): no two nodes share a name, except for BLOCK and the
\* clients of a blank exit, which a payload may list though no config has it.
NodesApart == AtRest =>
    LET names == [n \in Nodes |-> Names(n)] IN
    \A m, n \in Nodes : m # n =>
        /\ names[m].inbounds \cap names[n].inbounds = {}
        /\ names[m].exits \cap names[n].exits \subseteq {Block}
        /\ \A e \in names[m].emails \cap names[n].emails : e.tag \in {Block, EmptyTag}

\* Qualification only renames ("the copied render core receives inputs that
\* already look like a single-node panel", qualify_service.ts): a client of a
\* declared exit is routed as the unqualified config would route it, by the same
\* generated rule where several take it, unless the operator wrote a rule on
\* names the config does not declare: those stay as they are.
RoutesAreRenamed == AtRest =>
    \A n \in Nodes : (/\ Served(n) /\ RulesAreLocal(node[n].config, n)
                      /\ PatternsAreLocal(node[n].config, n)) =>
        LET runtime == Runtime(n)
            local == BuildConfig(node[n].config, Projected(n))
        IN \A u \in ActiveUsers, t \in Tags(local.inbounds),
              o \in Tags(node[n].config.outbounds) :
               Route(runtime, QualifiedInboundTag(t, n), Email(u, QualifiedOutboundTag(o, n)))
                 = QualifiedOutboundTag(Route(local, t, Email(u, o)), n)

Entitled(u) == u \in ActiveUsers /\ ~(users[u].expire \in 1 .. clock)

\* What the tables say now: of the owner of the URL while entitled, and of a
\* user the admin looks at whatever the status.
Entitleds == {u \in Owner(Token) : Entitled(u)}
Holder == CHOOSE u \in Entitleds : TRUE
SubAnswer ==
    IF Entitleds = {} THEN Answer("sub", 200, {})
    ELSE IF Fails(Holder) THEN Answer("sub", 500, {})
    ELSE Answer("sub", 200, Links(Holder))

Given(u) == {n \in Nodes : Row(u, n) # Absent}
WithConfig(u) == {n \in Given(u) : node[n].config # Absent}
ViewAnswer ==
    LET u == Viewed IN
    Answer("view",
        IF users[u] = Absent THEN 404 ELSE IF Fails(u) THEN 500
        ELSE IF Given(u) # {} /\ WithConfig(u) = {} THEN 503
        ELSE IF WithConfig(u) # {} /\ Linked(u) = {} THEN 409 ELSE 200,
        IF users[u] = Absent \/ Fails(u) THEN {} ELSE Links(u))

Current == IF answer.kind = "view" THEN ViewAnswer ELSE SubAnswer

\* A request no edit overlaps answers as of one moment, however many
\* statements it took.
AtomicIfUndisturbed ==
    [][(quiet /\ job # Idle /\ job' = Idle) => answer' = Current']_vars

\* When edits stop, the subscription is what the tables entitle its owner to,
\* and empty for a revoked token and a user who is disabled, over or gone; the
\* links view shows the same list.
LinksSettle == <>[](answer = Current)

\* "The subscription drops the warnings and never errors" (ARCHITECTURE.md).
NeverAnError == answer.kind = "sub" => answer.status = 200
=============================================================================
