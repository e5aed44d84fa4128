# Lesserv Cloud, specified

TLA+ modules of the control plane in `src/`, the TLC configurations that check
them on small instances, and TLAPS proofs of the results that hold for every
value of the constants. Source paths below are relative to the repository.

## 1. The system

Lesserv Cloud is a Cloudflare Worker (Hono, `src/main.ts`) over a D1 (SQLite)
database. An administrator stores opaque Xray configs, users, their access to
nodes, and link profiles; the Worker renders from them the config each node
should run. An agent on every node polls, fetches the config, applies it and
reports (`docs/PROTOCOL.md`; the agent's code is not in the repository). Users
fetch their share links from a subscription URL.

There is no process that lives between requests, no transaction and no lock:
every endpoint is an async handler that runs from `await` to `await`, each D1
statement is atomic by itself (`executeWrite` in `src/db.ts` runs one), and
handlers of the same node or user interleave at each of them. A handler may be
cut short at any `await`: by an exception or because the isolate is evicted.
That is the concurrency everything below is about.

| Component | State | Operations | Calls | What makes it correct |
|---|---|---|---|---|
| node protocol (`routers/node.ts`, `node_state_service.ts`) | liveness columns of `nodes` | enroll, heartbeat, config, report, stats | render, db | the drift view shows only what ran; nodes converge; health moves by reports |
| agent (external) | config Xray runs, applied hash and last outcome on disk | poll, fetch, test, swap, rollback, report, retry | node protocol | applies only bytes it asked for |
| render (`render_service.ts`, `config_service.ts`, `core/allocator.ts`) | none | desiredConfig, configHash, buildConfig | reality keys, qualification, db | equal states give equal bytes; every grant becomes one client and one rule |
| reality keys (`reality_service.ts`, `admin_reality.ts`) | `reality_keys` | ensureKeys, rotateKey, keyMap, publicKey, listKeys | key cipher, db | a stored key for every inbound served; stable unless rotated; links match |
| user administration (`user_service.ts`, `admin_users.ts`) | `users`, `user_node_access` | create, partial update, delete, rotate token | db | uuids stay, no orphan rows, authoritative access map, token untouched by edits |
| node administration (`node_service.ts`, `admin_nodes.ts`) | `nodes` | create, edit, save config, mint token, runtime and sync views | db, render | a config is replaced as a whole or not at all |
| qualification (`qualify_service.ts`, `labels.ts`) | none | qualify tags of configs, users, keys, profiles | | injective, no collision between nodes, profiles and inbounds |
| share links (`link_service.ts`, `share_service.ts`, `subscription_service.ts`, `routers/sub.ts`) | none | nodeLinks, userLinks, subscriptionBody | keys, qualification | only entitled users, only granted pairs |
| link profiles (`link_profile_service.ts`, `admin_link_profiles.ts`) | `link_profiles` | create, merge update, delete | db | updates merge; ids unique per node |
| node tokens (`node_token_service.ts`) | `nodes.token_hash` | mint, verify | crypto | only the latest token is accepted, and it is the one the admin is shown |
| admin page (`frontend/src`) | forms and cached answers | fleet board, access form | all of the admin API | the board reduces a sync view rightly; a form submits what it shows |

Hard behaviours: (1) handlers that outlive the request of an agent which timed
out and retried; (2) values of a row read by `requireNode` and written back
several statements later; (3) renders whose reads are torn by an admin's edit;
(4) two renders that mint the same key; (5) lost and repeated reports; (6) an
agent that crashes between running a config and recording it; (7) admin
requests of several statements that overlap or stop in the middle; (8) links
walked together from four tables while the admin edits each of them; (9) names
that are local where they are stored and qualified where they are used; (10)
forms that submit what they read earlier. They are listed with their lines
under "hazards" in `PROJECT.json`.

## 2. The modules

| Module | What it is |
|---|---|
| `NodeSync` | the node protocol of one node: handlers, row, admin edits, agent, network |
| `DriftView` | the abstract promise of the drift view; `NodeSync` implements it |
| `MCNodeSync` | `NodeSync` with the symmetry of its slots, for TLC |
| `NodeSync_proofs` | the inductive invariants of `NodeSync`, what handlers may store, the refinement of `DriftView` |
| `RealityKeys` | the REALITY keys of one node: renders, rotations, links |
| `RealityKeys_proofs` | its inductive invariant; settled keys stay |
| `UserAdmin` | users and access rows under the admin's requests |
| `UserAdmin_proofs` | results for any number of requests, and for one at a time |
| `UserPage`, `MCUserPage` | the admin's user form and subscription card over `UserAdmin`; its instance |
| `UserPage_proofs` | the inductive invariant of form, card and rows, and most of the properties of its run |
| `NodeAdmin` | node rows, tokens and link profiles under requests, enrolls and the page |
| `MCNodeAdmin` | `NodeAdmin` with the symmetry of its slots, for TLC |
| `NodeAdmin_proofs` | all of its properties, for any number of requests |
| `Qualify` | tags: what `qualify_service.ts` makes of them (operators only) |
| `Qualify_proofs` | qualification is idempotent, reversible, and keeps nodes apart |
| `Render` | what `desiredConfig` computes from its rows; Xray's routing (EXTENDS `Qualify`) |
| `ShareLinks` | what `nodeLinks` computes; the client that opens a link (EXTENDS `Render`) |
| `Render_proofs` | lemmas on the render: its clients, exits, places and routes, and qualification as a renaming |
| `Subscription`, `MCSubscription` | the walk of `userLinks` under edits (EXTENDS `ShareLinks`); its instances |
| `Subscription_proofs` | every safety property of the walk, the links and the renders, for any tables |

### NodeSync

A handler occupies a *slot* (`open[s]`) from arrival to answer. Its `pc` names
the statement it is about to run and its other fields are the locals that
survive an `await`: the snapshot of the row `requireNode` read (`snap`), the
config and the runtime it has rendered, the hash it was sent. The actions are

| Action | Code |
|---|---|
| `Authenticate` | `requireNode`: the `SELECT` of the row |
| `RecordAddress` | enroll's `setReportedAddress` |
| `ReadConfig`, `ReadMembers` | the statements of `desiredConfig` |
| `Touch` | `touchNode` with what `heartbeatValues`, `reportValues` or enroll computed from the snapshot; `ShouldTouch` is the heartbeat's condition |
| `SaveConfig`, `EditMembers` | `saveConfig`, and any write to rows the render reads |
| `Send*`, `Hear*`, `Apply*` | the agent: one request at a time; test, swap and rollback are one step |
| `Timeout`, `Lose`, `Discard`, `AgentCrash` | the agent gives up while the handler goes on; a request is lost or its handler dies; an unheard answer; the agent restarts, maybe between the swap and the record on disk |

Abstractions. A hash is an injective function of the config (`Digest`), which
is what canonical JSON and SHA-256 provide. What a render reads besides the
authored config is one value, `members`, read in one step: the reads can be
torn between the config and the rest, not within the rest. Staleness
(`HEARTBEAT_STALE_AFTER`) is a free choice at each heartbeat, so no result
depends on the clock. A bearer token is taken as valid (`NodeAdmin` checks
it). The agent always states an error text with a failure and trusts a 200 (the
protocol has it compare the returned hash as well, which would only hide a fault
of the plane's guard). Of a heartbeat it may leave `applied_hash` out where
`MayOmitHash` says so: `heartbeatValues` then stores null, which is the finding
of `NodeSync_forgotten`. `stats` stores nothing and is left out.

### RealityKeys

One action per statement of `ensureKeys` (`ListKeys`, `Upsert`, `Reread`), of
the two rotation endpoints, and of the links that read stored keys without
ensuring them (`BuildLinks`). A key is its tag and the number of its generation,
which is what sealing and unsealing preserve; `Placeholder` is the admin's own key in
the authored config. `Upsert` takes the missing tags in any order, the code in
the order of the config. `Die` ends a handler at any of its awaits.

### UserAdmin and UserPage

One action per statement of `createUser`, `updateUser` (with `writeAccess`),
`deleteUser` and `rotateSubToken`; `Check` is the router's or the service's
first read. `expire` and `note` are handled alike in the code and are one
column here. `unknownNodeIds` never fails as the plane has no way to delete a
node. The inbound list of a grant is stored beside the outbound list by the
same statement and is left out. There are no foreign keys in the schema. The
uuids one statement draws share a number: node and tag tell them apart.

`UserPage` puts the form in front of these endpoints: two reads to load it
(`LoadUser`, `LoadAccess`), clicks, and `Submit`, which sends the whole access
map (`ToAccessPayload`). The form's slot also serves other clients while the
page has no request of its own under way, and the card's slot rotates the token
at any time. `Shown` is the set of tags a checkbox exists for: the tags the
nodes' configs declare now. What the card displays is not modelled.

### NodeAdmin

The same slots and statements for the node endpoints, the link profiles, and
the agent's enroll, which reads the row to verify its token and later stores an
address. A request keeps the row it read, and `Replaced`, `Updated` say what of
it is written back. `page[n]` is the node page with its states `minting`,
`error` and `token`, and the request it waits for. It disables its button while
it mints (`MintReady`) and shows the plaintext it is answered until the dialog
is closed (`CloseDialog`). A mint that fails, whose handler dies (`Die`) or
whose connection breaks (`Break`) puts the error in place of the page but keeps
the token, which a reload brings back (`Reload`; `ReloadFails` is the reload
that puts an error there itself). The page may be left, or loaded anew, at any
time (`Leave`), and its request runs on. Other tabs and clients mint whenever
they like (`MintElsewhere`). A config is the set of inbound tags it declares; a
token and its hash are one number; `overrides` of a profile go with its label.
`declared` (what configs of the node have ever declared), `unheard` (the node
has its token by a mint whose answer the page never gets), `created` and `dead`
are history for the properties.

### Qualify, Render, ShareLinks, Subscription

A tag is the sequence of its words, the string split at its hyphens, so that
"ends with `-tokyo`" is a statement about the last word. `Qualify` has an
operator for each exported function of `qualify_service.ts`. `Render` follows
`desiredConfig`: project the access rows, qualify, allocate clients and rules,
put BLOCK first, fill in the keys. The outbounds of a runtime keep their places
and BLOCK takes place 0, in front of them. The rules the panel generates are
`exits`, after the operator's `rules`, in the order of the outbounds they are
made for. Each is the pattern `regexp:.*@tag$` with the tag put in as it is
(`core/allocator.ts:84-87`): which exits the pattern of a tag takes is the
constant `PatternTakes`, so that the tag `jp.1` may take the clients of `jp-1`,
and the first pattern that takes a client wins. `ShareLinks` gives each link as
a record of what its URI carries, with the parameters as a set of names paired
with values, and says what throws. `Matches`, `Route`, `Speaks` and `Admits` are
the external half: Xray's rule matching as the comments of `config_service.ts`
have it, and the client.
`Startable` says which configs Xray starts and the links know the transports
of: inbounds of different tags, transports of their own settings, and a server
name for REALITY. `saveConfig` stores other configs too, as the plane takes them
for opaque, and a link to one of those may well not work.

Outside the model are a `@` in a tag or in a username, and what an operator's
own regular expression matches beyond the `.*@tag` that `qualifyRoutingRule`
rewrites. A section of a config that is neither a list nor absent is `Unusable`,
an object or a number; a string, which JavaScript iterates letter by letter
without throwing, is left out.

`Subscription` runs one `userLinks` at a time, for the URL (`"sub"`) or the
admin's links view (`"view"`), one action per statement: `LookUp`,
`ReadAccess`, `ReadNode`, `ReadProfiles`, `ReadKeys`, with the status codes of
the two routes. Between any two of them the admin edits any table it reads
(one action per statement, those that are several being taken apart in the
modules above), a heartbeat's render stores missing keys (`RenderNode`), and
the clock ticks. The lists of an access row are sets, order and wording of
links and the warnings are left out, and so is the part of a malformed value
that changes neither links nor errors. A private key and its public half are
one number. The render ignores `expire`, as the code does.

## 3. The runs

| Run | Question | Result |
|---|---|---|
| `NodeSync_safety` | late handler, lost request, crash, omitted hash: does the plane show only what ran and implement `DriftView`, is a diagnosis ever half of one, what changes health, and does a report the agent waits for tell what runs? | holds |
| `NodeSync_live` | do node and board converge after the last edit and fault? | holds |
| `NodeSync_lost_report` | does an old error disappear from a node in sync? | **no** |
| `NodeSync_forgotten` | is a stored applied hash kept when a heartbeat has none? | **no** |
| `RealityKeys_live` | concurrent renders, rotation, death: no placeholder served, settled keys stay; do links end up matching what is served? | holds |
| `RealityKeys_two_renders` | do keys change by rotation only? | **no** |
| `UserPage_tab` | form, other clients, card, a death: uuids, orphans, authority of the map, tokens, hidden tags | holds |
| `UserAdmin_orphan` | two at a time: no access row without a user | **no** |
| `UserPage_expiry` | does a form saved with the expiry box unchecked end the expiry? | **no** |
| `NodeAdmin_race` | any two of eight requests, deaths, other tabs, errors, reloads, a broken connection: tokens, columns, profiles | holds |
| `Subscription_live` | do links work on what is served, is every served client linked, are nodes apart, is routing only renamed, and do answers settle? | holds |
| `Subscription_fragile` | is a subscription ever an error? | **no** |

The six that fail contradict a document, a comment or a text of the source,
quoted under "findings". The counterexamples in words:

* `lost_report`: a config fails (`last_error` set), a good one succeeds, its
  report is lost. The heartbeat brings `applied_hash`, so the node is in sync,
  but a heartbeat keeps `last_error` and `health` and no further report comes.
* `forgotten`: the node runs a config and the board shows its hash; a heartbeat
  without `applied_hash` stores null over it, and the board says "pending".
* `two_renders`: two renders (a heartbeat and the runtime pane, say) both read
  the key map of a new inbound, both find it empty, both store a key.
* `orphan`: a create has stored the user and read the first access row; another
  request deletes the access rows and the user; the create writes the row. A
  user created later under that name has it. An update that has come as far as
  its access rows does the same.
* `expiry`: the form sends null for an unchecked box; the endpoint takes null
  for "unchanged" and answers 200. A note cannot be emptied either.
* `fragile`: the admin stores a config whose `inbounds` is an object or a number
  (or a TLS `alpn` that is a string, or a profile whose address is a number); the render
  answers that with a warning, the subscription with a 500 for every user of
  the node, their other nodes included.

What the properties of `Subscription_live` say of each other: `LinksWork` and
`EveryClientHasLink` compare the two independent readings the code has of one
set of rows, the render and the links, in both directions; `RoutesAreRenamed`
compares the render of the qualified config with the qualified render of the
local one; `AtomicIfUndisturbed` gives the walk's answer a definition that does
not walk (`SubAnswer`, `ViewAnswer`), and `LinksSettle` ties the two
presentations to it. A link of a profile is only required to be built, not to
work: its overrides are the admin's.

What the code keeps when requests of one table overlap, and what it does not:

* *Diagnosis and hash.* A late handler writes back its snapshot, so the row may
  go back in time; `DiagnosisIsWhole`, `HealthOnlyByReports` and
  `ReportsNeverUndo` hold all the same, with late handlers and crashes:
  the two columns of a diagnosis always come from one report, a handler moves
  health only by a report or back to what it had read, and the report the agent
  waits for puts the row right. A duplicate of an older report may still move it
  back until the next heartbeat.
* *Keys.* `StableUnlessRotated` fails with two renders. `SettledKeysStay` is
  what remains: once no render under way is about to write the key of a tag,
  none will.
* *Uuids.* `UuidsStable` holds with one editor, the page's or another client:
  two that overlap both mint for a tag that had none, and the later write wins.
  `UuidsSettle` remains, for any number: a uuid that every write under way has
  read stays as long as the row.
* *Access rows.* `NoOrphanAccess`, `RevokesFirst` and `AccessIsAuthoritative`
  hold with one editor, its deaths and the card; `UserAdmin_orphan` shows the
  first fail with two, and two updates that overlap may leave a mixture of both
  payloads. The source promises the outcome of an update, not of two at once.
  Likewise a field an update leaves out is written back as it was read, over
  another update's: the later writer wins and no comment says otherwise.
* *Tokens.* `RotationIsImmediate` and `EditsKeepToken` hold whatever overlaps.
  `ShownTokenWorks` says of a page that shows a token that it is the node's,
  unless a mint of another tab, or one whose answer never came, replaced it.
* *Exits.* A link names an exit, and the render leads its client there only if
  the exit's own pattern is the first that takes it (`OwnRuleFirst`, the
  exception in `LinksWork`). With `alt.exit` listed before `alt-exit`, as one
  config of the run has it, the clients of `alt-exit` leave by `alt.exit`.
  `RoutesAreRenamed` says that qualification at least changes nothing in this,
  where the patterns take the same exits under either name (`PatternsAreLocal`;
  a tag with an alternation in it does not).

### Bounds

* *Slots = 2.* One for the request somebody waits for and one for a handler
  that goes on alone, which is the smallest overlap; a third handler only adds
  more of the same stale writers. The proofs are for any number.
* *Configs.* `good` runs, `bad` fails on the node, `broken` cannot be rendered:
  one of each kind the code tells apart. `m1`, `m2` are two contents of the
  rows around a config, so that a render can be torn.
* *MaxEdits = 2 or 3* allows a config, its replacement, and a change of members
  or a return to the first. *MaxLate, MaxLost, MaxCrashes* are one each: the
  counterexamples need one.
* `RealityKeys`: two tags, so that a handler may stop between two keys. It starts
  without a config or with any; one save and one rotation. Three keys of a tag
  are never used up: two renders that both found none and the rotation.
* `UserPage`: two nodes, so that an update both revokes and grants; two tags,
  one with a checkbox and one without; three requests (create, change, change
  or delete), one death, two clicks. `Payloads` are the three access maps that
  other clients send: a row gained, a row lost, a hidden tag on either node.
* `NodeAdmin`: one node and one profile id, since no statement touches two; six
  requests (create the node, save a config, create a profile, and three that
  overlap); a config with one tag and one with a qualified tag, which a save
  refuses (so a config is only ever stored over none, and what a replaced config
  does to profiles is left to the proofs); one death and one broken connection,
  failed reload or page left. That makes 1,970,386 states.
* `Subscription`: two nodes, one with its config, keys and address and one just
  created without them, so that a view of it answers 409 or 503 until an edit
  saves a config and a render mints its keys; two users, one on both nodes and
  one on the first; four configs that between them have raw,
  ws and grpc (httpupgrade and xhttp carry the parameters of ws), the three
  securities, an inbound without a port, one that is not VLESS, no
  outbounds, a rule of the operator's, an exit whose pattern takes another's
  clients, listed before and after it, and an unusable section; two edits, since
  a torn walk needs one and its repair another; two clock values around one
  expiry. That makes 120,299 states.

`CHECK_DEADLOCK FALSE` is set in the `UserAdmin`, `UserPage` and `NodeAdmin`
runs, where with its requests used up the model stops as an idle admin does,
and in `Subscription_fragile`, whose bounds are used up likewise.

### Fairness

`NodeSync` assumes weak fairness of every handler (the Workers runtime resumes
an await that completes) and of the agent's loop (its poll is on a timer).
`RealityKeys` assumes the same of handlers, and strong fairness of new renders
and new links: heartbeats come every 30 s whatever else runs, so a free slot is
not always taken by something else. `Subscription` assumes weak fairness of the
walk's statements and of the render of each node, and strong fairness of both
kinds of request: client apps refresh and the admin looks again, whichever of
the two is under way at the moment. Edits, rotations, ticks, timeouts, losses,
deaths and crashes are never assumed to happen, and the bounds stop them,
which is the "when edits and faults stop" of the liveness properties.

## 4. The proofs

Assumptions: only the named ASSUMEs of the modules (the marks `Null`, `"ok"`
are not data, stages are those of the protocol, bounds are numbers), and, in
the two theorems whose names end in `Serial`, that there is one slot.

**NodeSync.** `ClaimsWereRun` is not inductive: the row takes its hash from a
request or a snapshot. `ProtocolInv` adds that no snapshot, no heartbeat or
success report in flight and nothing on the agent's disk claims a config that
was not run (`ClaimsInFlight`), and that what the agent has staged is what it
asked for (`StagedAsAsked`), which is where the 409 guard comes in: `HearConfig`
stages only after a 200, whose hash is the one in the request. One lemma per
action, then `NextInv`, then

* `ProtocolInvariant`, `TypeCorrect`, `NeverShowsUnrun`: the invariant, the
  types, and `ClaimsWereRun` in every state;
* `ViewImplemented`: `Spec => View!Spec`, by mapping every action to `Show`,
  `Run`, `Want` or a stutter;
* `OnlyReportsDiagnose`: from `TouchStores`, which says what each handler stores
  over a snapshot of any age;
* `DiagnosisNeverMixed`: `DiagnosisIsWhole` is inductive because it is said of
  the snapshots too, and because a heartbeat copies both columns or neither;
* `AwaitedReportsSafe`: needs `DiskInv`, that the report the agent waits for,
  unlike one it has given up, names the hash on its disk (`ReportsInStep`).

**RealityKeys.** `NoPlaceholderServed` needs `RenderCovers`: each tag of a
render under way is stored, or still to be written by that render. Since no
statement deletes a key, other handlers cannot undo it.

* `KeysInvariant`, `NeverServesPlaceholder`, `TypeCorrect`: for any number of
  handlers;
* `SettledForGood`: a render comes to write a key only if it found none when it
  listed them (`NoNewWriter`), and no statement deletes one, so that a settled
  key keeps its writers away; likewise for any number.

**UserAdmin.** For any number of requests: `TypeCorrect`, whose `JobOK` says
what each request has read by the time it uses it; `EveryGrantHasUuid`, since
the statement that stores a grant mints what the map it read lacks, whatever it
read; `OnlyRotationChangesToken`, since no other statement writes the column;
`UuidsSettleForGood`, since a write that comes to be under way has just read the
row (`OnlyReadsArm`) and one that stores keeps what it read (`StoresAgreed`).
With one slot: `NoOrphansWhenSerial` and `RevokesFirstWhenSerial`, whose point is
the order of the statements of a request that may die at each, from `SerialInv`,
which relates the one request under way to the rows: what it read is still so.

**UserPage.** The properties of its run but `UuidsStable` and
`AccessIsAuthoritative`, for any users, nodes, tags, clicks and deaths.
`PageInvariant` puts three things together: `SerialInv` of
the form's slot, which a rotation of the card preserves because it touches
neither the access rows nor the columns an update merges (`RotationBeside`);
that the card's slot does nothing else; and `FormOK`, that a form has the hidden
tags it was loaded with and its request carries its sections. A step of the page
is a step of one of the slots (`PageSteps`), so that the lemmas of
`UserAdmin_proofs` do the rest. `HiddenTagsKept` follows `FormOK` through the
request to the row it stores.

**NodeAdmin.** All six properties of its run, for any number of requests,
deaths, reloads and broken connections.

* `TypeCorrect`: with `FoundNode`, since nodes are never deleted, a request that
  stores has a row to merge with.
* `ColumnsHaveOwners`, `OnlyCreates`: action properties, from the types.
* `ProfilesNamed`: `DeclaredInv` adds that a stored config is declared, and that
  the tag a request has checked or read stays declared (`CheckedTag`).
* `RotationImmediate`: `TokensInv` adds that a token replaced when its enroll
  arrived is not the node's and, being minted already, never will be again.
* `ShownTokensWork`: `PageInv` says that a page waits for one mint at most and
  while it is minting only, and that both the token of the answer to come and
  the one it shows, or shows again after an error (`Shows`), are the node's
  unless a mint it does not hear of replaced it (`OneMint`, `unheard`).

**Qualify.** For any words and any config: qualification is idempotent
(`InboundIdempotent`, `OutboundIdempotent`), the base tag of a label is the
authored tag (`BaseUndoesInbound`, `BaseUndoesOutbound`), local tags of a node
stay apart (`InboundsStayApart`, `OutboundsStayApart`), which by
`AcceptedConfigStaysApart` holds of every config `saveConfig` accepts, and nodes
never meet but in BLOCK (`NodesNeverShareInbound`, `NodesShareOnlyBlock`,
`EmailsNameTheirNode`). They rest on the node id being one word: the schema
forbids hyphens in it.

**Render and Subscription.** Every invariant and action property of
`Subscription_live`, for any tables, edits and number of nodes.

* `TypeCorrect`: `TypeInv` adds what a walk has read in each phase (`Phased`).
* `UndisturbedAnswers`: `WalkInv` says of a quiet walk that what it has read is
  what the tables say, and that the links it has are those of the nodes it has
  done with. Ending it, they are the links of `SubAnswer` or `ViewAnswer`.
* `ServedNodesApart`: every inbound, exit and email of a runtime is a qualified
  one (`NamesAreQualified`), and the lemmas of `Qualify_proofs` keep those of two
  nodes apart. It takes that no granted tag is the empty list of words
  (`AccessRows`). A payload may grant a blank exit, which stays blank
  (`qualifiedOutboundTag`), so that two nodes may have clients of it in common.
* `QualificationOnlyRenames`: from `RouteRenamed`. The rule that is first to
  match locally is the first to match when qualified, since a renaming is
  injective on the names the config declares; so is, by `PatternsAreLocal`, the
  first generated rule that takes the client, and the default route.
  `RulesAreLocal` is needed: a reference
  to a name the config does not declare is left as written
  (`rewriteKnownReference`), and written as a qualified name it would match.
* `LinksAlwaysWork` and `ClientsHaveLinks` take the two readings of one row from
  both ends. `RowsInv` says that rows, keys and profiles are as their schema
  has them; `ServedInbound` that render and links find the inbound of a tag at
  one place; `ClientsOfRuntime` that a client comes from one grant with a uuid,
  which is what makes a link (`DirectLinks`); `ParamsSpeak` that the parameters
  of a link are what the inbound asks for, the key included. They hold for every
  relation of patterns to tags (`PatternTakes`).

These are about nodes that run what they are served (`Runs`): a heartbeat has
stored the keys, and Xray starts the config (`Startable`). They say nothing of
links built before the first render of a config, whose key is the placeholder:
`LinksMatchServed` of `RealityKeys` has those. Nor of `security: reality`
without `realitySettings`, which no Xray starts. Proving them without the guard
fails, and the states it fails in are real ones that the bounded
configs do not have: two inbounds of one tag (both readings take the last one,
so that the first may have clients and no link), REALITY without a server name
(a link without `sni`), settings of a transport the links leave out.

`TablesAssumption` says what the schema, the validators and the encoding give:
stored configs pass `localTagErrors`, tags are words, a node id is one word,
columns are of their types, a stored key derives a public half, and the marks
`Absent` and `Unusable` are no data. TLC evaluates it over the instance.

The strengthened invariants were given to TLC before they were proved:
`ProtocolInv` and `DiagnosisIsWhole` are invariants of `NodeSync_safety` itself,
`KeysInv` of `RealityKeys_live`; `PageInv` of the form was checked on the
instance of `UserPage_tab` (2,059,727 states), `TokensInv`, `PageInv` and
`DeclaredInv` on that of `NodeAdmin_race` with five requests
(643,282), `TypeInv`
and `WalkInv` on that of `Subscription_live` (120,299).

The parameters of links are pairs, and the rules and outbounds of a runtime
places, because folds and the concatenation of selected lists say nothing to
the provers, and induction over them is not available; the reading of them is
the same.

Only model-checked: the liveness properties, `Converges`, `BoardSettles`,
`LinksMatchServed` and `LinksSettle`, since liveness under fairness is out of
the prover's reach; and `UuidsStable` and `AccessIsAuthoritative`, which need
that there is one editor. `NoOrphanAccess` and `RevokesFirst` are proved for one
editor that may die anywhere (`...WhenSerial`, `...OnPage`). Every other
property of the passing runs is a theorem without a bound on who overlaps whom.

## 5. Plan

What would come next, in this order:

1. The render as the refinement of one map from grants to clients, with
   `Render_proofs` as its lemmas.
2. `AtomicIfUndisturbed` per node: what a walk answers of one node is of one
   moment, though edits of another overlap it.
3. The clock of the heartbeat (`HEARTBEAT_STALE_AFTER`, `last_seen`).
4. The reads of the other admin pages against answers out of order.

## 6. Not modelled

Cryptography (`core/x25519.ts`, `key_cipher.ts`, `crypto.ts`) is taken to do
what it is for. The Python compatible encoders (`core/python_json.ts`,
`core/python_uri.ts`) and the text of URIs and labels are formatting. Routing,
environment checks, static assets, styling and the build scripts keep no state
the properties are about. Of the admin application, the pages that draw answers
(fleet board, node tabs, user list) are not modelled beyond `fleetState` and
the node page's token; what the subscription card displays is not either. Of
the storage, reads of whole lists for display are left out.
