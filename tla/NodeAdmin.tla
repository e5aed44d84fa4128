----------------------------- MODULE NodeAdmin -----------------------------
(***************************************************************************)
(* The nodes and link_profiles tables under the admin's node endpoints     *)
(* (src/src/routers/admin_nodes.ts and admin_link_profiles.ts over          *)
(* node_service.ts, node_token_service.ts, link_profile_service.ts and      *)
(* db.ts), the agent's enroll that authenticates against them (node.ts),    *)
(* and the page that shows a new token (frontend NodeLayout.tsx).  One      *)
(* action per D1 statement: requests interleave at each and may die there. *)
(*                                                                         *)
(* A config is the set of inbound tags it declares, empty for one that is  *)
(* not a list of objects; a token and its hash are the number of its       *)
(* minting; overrides go with the label, which the same statements write.  *)
(* The liveness columns of a node are NodeSync's.                          *)
(***************************************************************************)
EXTENDS Naturals, FiniteSets

CONSTANTS
    Nodes,        \* node ids
    Ids,          \* profile ids
    Tags,         \* inbound tags
    Qualified,    \* those that are qualified already, which a save refuses
    Configs,      \* configs the admin pastes
    Labels, Addresses,
    Reports,      \* addresses an agent reports at enroll
    Slots,        \* requests that may be open at once
    MaxRequests,  \* bound on requests
    MaxDeaths,    \* bound on requests that die at an await
    MaxGiveUps,   \* bound on connections that break and pages that are left
    Null

ASSUME NodesAssumption ==
    /\ Configs \subseteq SUBSET Tags /\ Qualified \subseteq Tags
    /\ MaxRequests \in Nat /\ MaxDeaths \in Nat /\ MaxGiveUps \in Nat
    /\ Null \notin Tags /\ Null \notin Labels /\ Null \notin Addresses
    /\ Null \notin Configs /\ Null \notin Nat /\ Null \notin Nodes
    /\ Null \notin Ids /\ Null \notin Reports

VARIABLES
    nodes,     \* the nodes rows, or Null
    profiles,  \* the link_profiles rows of each node, or Null
    declared,  \* every tag a stored config of the node has declared
    jobs,      \* the requests under way
    page,      \* the node page: is it minting, its error, its token, its requests
    unheard,   \* did the node get its token by a mint the page has no answer of
    minted,    \* how many tokens were minted
    requests, deaths, giveUps

vars == <<nodes, profiles, declared, jobs, page, unheard, minted, requests, deaths, giveUps>>
counters == <<minted, requests, deaths, giveUps>>

Maybe(set) == set \cup {Null}
NodeRow == [label : Labels, address : Addresses, config : Maybe(Configs),
            token : Maybe(Nat), reported : Maybe(Reports)]
\* A profile is told apart from a later one of its id by its creation.
ProfileRow == [inbound_tag : Tags, label : Labels, created : Nat]

NodeKinds == {"create-node", "update-node", "save-config", "token", "enroll"}
ProfileKinds == {"create-profile", "update-profile", "delete-profile"}

\* A request: its payload, and the row it read.  dead says of an enroll that
\* its token was no longer the node's when it arrived.
Free == [kind |-> "none", pc |-> "node", node |-> Null, id |-> Null,
         tag |-> Null, label |-> Null, address |-> Null, config |-> Null,
         token |-> Null, reported |-> Null, dead |-> FALSE, row |-> Null]

Request == [kind : NodeKinds \cup ProfileKinds \cup {"none"},
            pc : {"node", "profile", "store", "answer"},
            node : Maybe(Nodes), id : Maybe(Ids), tag : Maybe(Tags),
            label : Maybe(Labels), address : Maybe(Addresses),
            config : Maybe(Configs), token : Maybe(Nat), reported : Maybe(Reports),
            dead : BOOLEAN, row : Maybe(NodeRow \cup ProfileRow)]

ASSUME RowsAssumption == Null \notin NodeRow /\ Null \notin ProfileRow

\* The page when it is opened.
Opened == [minting |-> FALSE, error |-> FALSE, token |-> Null, waits |-> {}]
PageStays == UNCHANGED <<page, unheard>>

-----------------------------------------------------------------------------
(* Requests arrive with a payload; null leaves a field unchanged.          *)

Arrive(s, job) ==
    /\ jobs[s].kind = "none" /\ requests < MaxRequests
    /\ requests' = requests + 1
    /\ jobs' = [jobs EXCEPT ![s] = job]
    /\ UNCHANGED <<nodes, profiles, declared, minted, deaths, giveUps>>

NodeCreate(s) ==
    \E n \in Nodes, l \in Labels, a \in Addresses :
        /\ Arrive(s, [Free EXCEPT !.kind = "create-node", !.node = n,
                                  !.label = l, !.address = a])
        /\ PageStays

NodeUpdate(s) ==
    \E n \in Nodes, l \in Maybe(Labels), a \in Maybe(Addresses) :
        /\ Arrive(s, [Free EXCEPT !.kind = "update-node", !.node = n,
                                  !.label = l, !.address = a])
        /\ PageStays

SaveConfig(s) ==
    \E n \in Nodes, c \in Configs :
        /\ Arrive(s, [Free EXCEPT !.kind = "save-config", !.node = n, !.config = c])
        /\ PageStays

LinkProfileIn(s) ==
    \E n \in Nodes, i \in Ids, t \in Tags, l \in Labels :
        /\ Arrive(s, [Free EXCEPT !.kind = "create-profile", !.node = n, !.id = i,
                                  !.tag = t, !.label = l])
        /\ PageStays

LinkProfileUpdate(s) ==
    \E n \in Nodes, i \in Ids, t \in Maybe(Tags), l \in Maybe(Labels) :
        /\ Arrive(s, [Free EXCEPT !.kind = "update-profile", !.node = n, !.id = i,
                                  !.tag = t, !.label = l])
        /\ PageStays

LinkProfileDelete(s) ==
    \E n \in Nodes, i \in Ids :
        /\ Arrive(s, [Free EXCEPT !.kind = "delete-profile", !.node = n, !.id = i])
        /\ PageStays

\* An agent enrolls with any token it was ever given.
Enroll(s) ==
    \E n \in Nodes, t \in 1 .. minted, r \in Reports :
        /\ Arrive(s, [Free EXCEPT !.kind = "enroll", !.node = n, !.token = t,
                                  !.reported = r,
                                  !.dead = nodes[n] = Null \/ nodes[n].token # t])
        /\ PageStays

\* The button of NodeLayout, which an error hides: one mint at a time.
MintAlways(tab) == ~tab.error
MintReady(tab) == ~tab.error /\ ~tab.minting

Mint(s) ==
    \E n \in Nodes :
        /\ nodes[n] # Null /\ MintReady(page[n])
        /\ Arrive(s, [Free EXCEPT !.kind = "token", !.node = n])
        /\ page' = [page EXCEPT ![n].minting = TRUE, ![n].waits = @ \cup {s}]
        /\ UNCHANGED unheard

\* Another tab, or a client of the API.
MintElsewhere(s) ==
    \E n \in Nodes :
        /\ Arrive(s, [Free EXCEPT !.kind = "token", !.node = n])
        /\ PageStays

-----------------------------------------------------------------------------
(* The statements that read.                                               *)

At(s, pc) == jobs[s].kind # "none" /\ jobs[s].pc = pc
Becomes(s, job) == jobs' = [jobs EXCEPT ![s] = job]
Ends(s) == Becomes(s, Free)

\* A mint of the page's that has no answer: the error is shown in place of the
\* page, whose token stays as it was.
NoAnswer(s) ==
    /\ page' = [n \in Nodes |->
                  IF s \notin page[n].waits THEN page[n]
                  ELSE [page[n] EXCEPT !.minting = FALSE, !.error = TRUE, !.waits = @ \ {s}]]
    /\ unheard' = [n \in Nodes |->
                     unheard[n] \/ (s \in page[n].waits /\ jobs[s].pc = "answer")]
Fails(s) == Ends(s) /\ NoAnswer(s)

LocalTagErrors(config) == config \cap Qualified

\* validateCreate and validateUpdate: the config the node row holds declares
\* the inbound; an update that leaves it unchanged has nothing to check.
AcceptAnyTag(job, row) == TRUE
Attaches(job, row) ==
    \/ job.kind = "update-profile" /\ job.tag = Null
    \/ row.config # Null /\ job.tag \in row.config

\* verifyToken: no stored hash verifies nothing.
VerifyToken(hash, token) == hash # Null /\ token = hash

\* What follows getNode: refused, done, or on to the next statement.
Refused(job, row) ==
    IF job.kind = "create-node" THEN row # Null
    ELSE \/ row = Null
         \/ job.kind = "save-config" /\ LocalTagErrors(job.config) # {}
         \/ job.kind = "enroll" /\ ~VerifyToken(row.token, job.token)
         \/ job.kind \in {"create-profile", "update-profile"} /\ ~Attaches(job, row)

\* An enroll that reports what is stored writes nothing here.
Unneeded(job, row) == job.kind = "enroll" /\ row.reported = job.reported

GetNode(s) ==
    LET job == jobs[s]
        row == nodes[job.node]
    IN /\ At(s, "node")
       /\ IF Refused(job, row) \/ Unneeded(job, row) THEN Fails(s)
          ELSE /\ Becomes(s, IF job.kind \in ProfileKinds THEN [job EXCEPT !.pc = "profile"]
                             ELSE [job EXCEPT !.pc = "store", !.row = row])
               /\ PageStays
       /\ UNCHANGED <<nodes, profiles, declared, counters>>

\* getLinkProfile: a create wants no row (409), the others want one (404).
GetLinkProfile(s) ==
    LET job == jobs[s]
        row == profiles[job.node][job.id]
    IN /\ At(s, "profile")
       /\ Becomes(s, IF (job.kind = "create-profile") # (row = Null) THEN Free
                     ELSE [job EXCEPT !.pc = "store", !.row = row])
       /\ UNCHANGED <<nodes, profiles, declared, page, unheard, counters>>

-----------------------------------------------------------------------------
(* The statements that store.                                              *)

Stores(s, kind) == At(s, "store") /\ jobs[s].kind = kind
Or(new, old) == IF new # Null THEN new ELSE old

\* db.createNode; a second insert of an id is refused by the key (500).
CreateNode(s) ==
    LET job == jobs[s] IN
    /\ Stores(s, "create-node")
    /\ nodes' = IF nodes[job.node] # Null THEN nodes
                ELSE [nodes EXCEPT ![job.node] =
                        [label |-> job.label, address |-> job.address, config |-> Null,
                         token |-> Null, reported |-> Null]]
    /\ Ends(s)
    /\ UNCHANGED <<profiles, declared, page, unheard, counters>>

\* What replaceNode leaves in a row `now`, the request having read job.row.
ReplaceRow(job, now) ==
    [job.row EXCEPT !.label = Or(job.label, @), !.address = Or(job.address, @)]
ReplaceUnmerged(job, now) == [now EXCEPT !.label = job.label, !.address = job.address]
Replaced(job, now) ==
    [now EXCEPT !.label = Or(job.label, job.row.label),
                !.address = Or(job.address, job.row.address)]

ReplaceNode(s) ==
    LET job == jobs[s] IN
    /\ Stores(s, "update-node")
    /\ nodes' = [nodes EXCEPT ![job.node] = Replaced(job, @)]
    /\ Ends(s)
    /\ UNCHANGED <<profiles, declared, page, unheard, counters>>

SetNodeConfig(s) ==
    LET job == jobs[s] IN
    /\ Stores(s, "save-config")
    /\ nodes' = [nodes EXCEPT ![job.node].config = job.config]
    /\ declared' = [declared EXCEPT ![job.node] = @ \cup job.config]
    /\ Ends(s)
    /\ UNCHANGED <<profiles, page, unheard, counters>>

\* The old hash dies with the statement; the answer carries the plaintext.
SetTokenHash(s) ==
    LET job == jobs[s] IN
    /\ Stores(s, "token")
    /\ minted' = minted + 1
    /\ nodes' = [nodes EXCEPT ![job.node].token = minted + 1]
    /\ unheard' = [unheard EXCEPT ![job.node] = s \notin page[job.node].waits]
    /\ Becomes(s, [job EXCEPT !.pc = "answer", !.token = minted + 1])
    /\ UNCHANGED <<profiles, declared, page, requests, deaths, giveUps>>

SetReportedAddress(s) ==
    LET job == jobs[s] IN
    /\ Stores(s, "enroll")
    /\ nodes' = [nodes EXCEPT ![job.node].reported = job.reported]
    /\ Ends(s)
    /\ UNCHANGED <<profiles, declared, page, unheard, counters>>

\* A second insert of a node's id is refused by the primary key (500).
CreateLinkProfile(s) ==
    LET job == jobs[s] IN
    /\ Stores(s, "create-profile")
    /\ profiles' = IF profiles[job.node][job.id] # Null THEN profiles
                   ELSE [profiles EXCEPT ![job.node][job.id] =
                           [inbound_tag |-> job.tag, label |-> job.label,
                            created |-> requests]]
    /\ Ends(s)
    /\ UNCHANGED <<nodes, declared, page, unheard, counters>>

\* The row as read, merged; a row that is gone stays gone, and the request
\* ends in a TypeError where it reads the row again (500).
MergedProfile(job) ==
    [job.row EXCEPT !.inbound_tag = Or(job.tag, @), !.label = Or(job.label, @)]
InsertOrReplace(job, now) == MergedProfile(job)
Updated(job, now) ==
    IF now = Null THEN now ELSE [MergedProfile(job) EXCEPT !.created = now.created]

UpdateLinkProfile(s) ==
    LET job == jobs[s] IN
    /\ Stores(s, "update-profile")
    /\ profiles' = [profiles EXCEPT ![job.node][job.id] = Updated(job, @)]
    /\ Ends(s)
    /\ UNCHANGED <<nodes, declared, page, unheard, counters>>

DeleteLinkProfile(s) ==
    LET job == jobs[s] IN
    /\ Stores(s, "delete-profile")
    /\ profiles' = [profiles EXCEPT ![job.node][job.id] = Null]
    /\ Ends(s)
    /\ UNCHANGED <<nodes, declared, page, unheard, counters>>

-----------------------------------------------------------------------------
(* Answers and failures.                                                   *)

\* The answer of a mint: the page, if it still waits, shows the token.
TokenAnswer(s) ==
    /\ At(s, "answer")
    /\ Ends(s)
    /\ page' = [n \in Nodes |->
                  IF s \notin page[n].waits THEN page[n]
                  ELSE [page[n] EXCEPT !.minting = FALSE, !.token = jobs[s].token,
                                       !.waits = @ \ {s}]]
    /\ UNCHANGED <<nodes, profiles, declared, unheard, counters>>

\* A click on the dialog's close.
CloseDialog(n) ==
    /\ page[n].token # Null /\ ~page[n].error
    /\ page' = [page EXCEPT ![n].token = Null]
    /\ UNCHANGED <<nodes, profiles, declared, jobs, unheard, counters>>

\* The answer of a reload, of which any number may be under way: one that comes
\* after an error takes it away, and one that fails shows its own.
Reload(n) ==
    /\ page[n].error
    /\ page' = [page EXCEPT ![n].error = FALSE]
    /\ UNCHANGED <<nodes, profiles, declared, jobs, unheard, counters>>

ReloadFails(n) ==
    /\ nodes[n] # Null /\ giveUps < MaxGiveUps
    /\ giveUps' = giveUps + 1
    /\ page' = [page EXCEPT ![n].error = TRUE]
    /\ UNCHANGED <<nodes, profiles, declared, jobs, unheard, minted, requests, deaths>>

\* The page is left, or loaded anew: its requests run on.
Leave(n) ==
    /\ page[n] # Opened /\ giveUps < MaxGiveUps
    /\ giveUps' = giveUps + 1
    /\ page' = [page EXCEPT ![n] = Opened]
    /\ UNCHANGED <<nodes, profiles, declared, jobs, unheard, minted, requests, deaths>>

\* The connection breaks: so does the request of a mint run on.
Break(s) ==
    /\ \E n \in Nodes : s \in page[n].waits
    /\ giveUps < MaxGiveUps
    /\ giveUps' = giveUps + 1
    /\ NoAnswer(s)
    /\ UNCHANGED <<nodes, profiles, declared, jobs, minted, requests, deaths>>

Die(s) ==
    /\ jobs[s].kind # "none" /\ deaths < MaxDeaths
    /\ deaths' = deaths + 1
    /\ Fails(s)
    /\ UNCHANGED <<nodes, profiles, declared, minted, requests, giveUps>>

Init ==
    /\ nodes = [n \in Nodes |-> Null]
    /\ profiles = [n \in Nodes |-> [i \in Ids |-> Null]]
    /\ declared = [n \in Nodes |-> {}]
    /\ jobs = [s \in Slots |-> Free]
    /\ page = [n \in Nodes |-> Opened]
    /\ unheard = [n \in Nodes |-> FALSE]
    /\ minted = 0 /\ requests = 0 /\ deaths = 0 /\ giveUps = 0

Arrivals(s) ==
    \/ NodeCreate(s) \/ NodeUpdate(s) \/ SaveConfig(s) \/ Enroll(s)
    \/ Mint(s) \/ MintElsewhere(s)
    \/ LinkProfileIn(s) \/ LinkProfileUpdate(s) \/ LinkProfileDelete(s)
Statements(s) ==
    \/ GetNode(s) \/ GetLinkProfile(s)
    \/ CreateNode(s) \/ ReplaceNode(s) \/ SetNodeConfig(s) \/ SetTokenHash(s)
    \/ SetReportedAddress(s)
    \/ CreateLinkProfile(s) \/ UpdateLinkProfile(s) \/ DeleteLinkProfile(s)

Next ==
    \/ \E s \in Slots : Arrivals(s) \/ Statements(s) \/ TokenAnswer(s) \/ Die(s) \/ Break(s)
    \/ \E n \in Nodes : CloseDialog(n) \/ Reload(n) \/ ReloadFails(n) \/ Leave(n)

Spec == Init /\ [][Next]_vars

-----------------------------------------------------------------------------
(* Properties.                                                             *)

\* What a request carries, and the row it has read when it stores.
JobOK(job) ==
    /\ job.kind # "none" => job.node \in Nodes
    /\ job.kind \in ProfileKinds => job.id \in Ids
    /\ job.kind = "create-node" => job.label \in Labels /\ job.address \in Addresses
    /\ job.kind = "save-config" => job.config \in Configs
    /\ job.kind = "enroll" => job.token \in Nat /\ job.reported \in Reports
    /\ job.kind = "create-profile" => job.tag \in Tags /\ job.label \in Labels
    /\ job.pc = "profile" => job.kind \in ProfileKinds
    /\ job.pc = "answer" => job.kind = "token" /\ job.token \in Nat
    /\ (job.kind = "update-node" /\ job.pc = "store") => job.row \in NodeRow
    /\ (job.kind = "update-profile" /\ job.pc = "store") => job.row \in ProfileRow

\* A request that writes to a node has found it.
FoundNode(job, rows) ==
    (job.kind \in NodeKinds \ {"create-node"} /\ job.pc \in {"store", "answer"})
        => rows[job.node] # Null

\* Rows, requests and the page keep their shape, and a request that stores
\* has read the row it merges with.
TypeOK ==
    /\ nodes \in [Nodes -> Maybe(NodeRow)]
    /\ profiles \in [Nodes -> [Ids -> Maybe(ProfileRow)]]
    /\ declared \in [Nodes -> SUBSET Tags]
    /\ page \in [Nodes -> [minting : BOOLEAN, error : BOOLEAN, token : Maybe(Nat),
                           waits : SUBSET Slots]]
    /\ unheard \in [Nodes -> BOOLEAN]
    /\ minted \in Nat /\ requests \in Nat /\ deaths \in Nat /\ giveUps \in Nat
    /\ jobs \in [Slots -> Request]
    /\ \A s \in Slots : JobOK(jobs[s]) /\ FoundNode(jobs[s], nodes)

\* "rotation invalidates immediately": an enroll is let through only if its
\* token was still the node's when it arrived, so no write of a row brings a
\* replaced hash back (db.ts, setTokenHash).
RotationIsImmediate ==
    \A s \in Slots : (jobs[s].kind = "enroll" /\ jobs[s].pc = "store") => ~jobs[s].dead

\* "a double-fire would rotate twice and the admin would copy a plaintext that
\* is already dead" (NodeLayout.tsx): the token the page shows is the one the
\* node authenticates with, or else the node got another by a mint of another
\* tab or client, or by one whose answer never came.
ShownTokenWorks ==
    \A n \in Nodes : (page[n].token # Null /\ ~page[n].error /\ ~page[n].minting)
        => nodes[n] # Null /\ (nodes[n].token = page[n].token \/ unheard[n])

\* What makes both inductive.  A token that was replaced when its enroll
\* arrived was minted before and is never minted again; and a page waits for
\* one mint at most.
TokensInv ==
    \A s \in Slots : jobs[s].kind = "enroll" =>
        /\ jobs[s].token \in 1 .. minted
        /\ jobs[s].dead => /\ jobs[s].pc = "node"
                           /\ nodes[jobs[s].node] = Null
                              \/ nodes[jobs[s].node].token # jobs[s].token

\* The token the page shows, or shows again when its mint fails.
Shows(n) ==
    (page[n].token # Null /\ \A s \in page[n].waits : jobs[s].pc # "answer") =>
        nodes[n] # Null /\ (nodes[n].token = page[n].token \/ unheard[n])

OneMint(n) ==
    /\ \A s \in page[n].waits : jobs[s].kind = "token" /\ jobs[s].node = n
    /\ \A r, s \in page[n].waits : r = s
    /\ page[n].minting <=> page[n].waits # {}
    /\ \A s \in page[n].waits :
          jobs[s].pc = "answer" => nodes[n].token = jobs[s].token \/ unheard[n]
    /\ Shows(n)

PageInv == \A n \in Nodes : OneMint(n)

Changes(n, field) == nodes[n] # Null /\ nodes'[n][field] # nodes[n][field]

\* The admin's and the agent's columns are stored each by its own statement
\* and never as another request has read them; a node never vanishes
\* (db.ts: replaceNode, setNodeConfig, setTokenHash, setReportedAddress).
ColumnOwners ==
    [][\A n \in Nodes :
          /\ nodes[n] # Null => nodes'[n] # Null
          /\ Changes(n, "label") \/ Changes(n, "address") => \E s \in Slots : ReplaceNode(s)
          /\ Changes(n, "config") => \E s \in Slots : SetNodeConfig(s)
          /\ Changes(n, "token") => \E s \in Slots : SetTokenHash(s)
          /\ Changes(n, "reported") => \E s \in Slots : SetReportedAddress(s)]_vars

\* "attachment to a real authored inbound" (link_profile_service.ts): a stored
\* profile names an inbound that some config of its node has declared, also
\* where an update overlaps a delete or a second create.  That config may have
\* been replaced since, even between the check and the write.
ProfilesNameDeclared ==
    \A n \in Nodes, i \in Ids :
        profiles[n][i] # Null => profiles[n][i].inbound_tag \in declared[n]

\* What makes it inductive: a config is declared while it is stored, and so is
\* the inbound a request has checked, or has read with the row it merges with.
CheckedTag(job, names) ==
    /\ (job.kind = "create-profile" /\ job.pc # "node") => job.tag \in names[job.node]
    /\ (job.kind = "update-profile" /\ job.pc # "node") =>
          job.tag = Null \/ job.tag \in names[job.node]
    /\ (job.kind = "update-profile" /\ job.pc = "store") =>
          job.row.inbound_tag \in names[job.node]

DeclaredInv ==
    /\ ProfilesNameDeclared
    /\ \A n \in Nodes : (nodes[n] # Null /\ nodes[n].config # Null) =>
          nodes[n].config \subseteq declared[n]
    /\ \A s \in Slots : CheckedTag(jobs[s], declared)

\* "Identity columns are never changed here" (db.ts, updateLinkProfile): only a
\* create makes a profile, so an update that overlaps a delete does not bring
\* the row back, nor one that overlaps a second create the first row's identity.
OnlyCreatesMakeProfiles ==
    [][\A n \in Nodes, i \in Ids :
          (/\ profiles'[n][i] # Null
           /\ profiles[n][i] = Null \/ profiles[n][i].created # profiles'[n][i].created)
             => \E s \in Slots : CreateLinkProfile(s) /\ profiles[n][i] = Null]_vars
=============================================================================
