---------------------------- MODULE RealityKeys ----------------------------
(***************************************************************************)
(* The REALITY private keys of one node: the render that mints the missing *)
(* ones (reality_service.ensureKeys inside render_service.desiredConfig),  *)
(* the two rotation endpoints, and the share links that derive public keys *)
(* from what is stored.  One action per D1 statement; the handlers run in  *)
(* slots and interleave.                                                   *)
(*                                                                         *)
(* A key is its tag and the number of its generation for the tag, so that  *)
(* no two are the same; sealing and unsealing (key_cipher) keep it.        *)
(* Of the authored config only its REALITY inbound tags matter here.       *)
(***************************************************************************)
EXTENDS Naturals

CONSTANTS
    Tags,          \* inbound tags
    Slots,         \* handlers that may be open at once
    Rotations,     \* which rotation endpoints the admin uses
    MaxEdits,      \* bound on saves of the config
    MaxRotations,  \* bound on rotation requests
    MaxKeys,       \* bound on keys of a tag, never met if large enough
    MaxDeaths,     \* bound on handlers that die at an await
    Null

RotationKinds == {"rotate-one", "rotate-all"}

\* The key the admin left in the authored config, and no stored row.
Placeholder == 0
Key == 1 .. MaxKeys

ASSUME KeysAssumption ==
    /\ MaxKeys \in Nat
    /\ Null \notin Key \cup {Placeholder} /\ \A ts \in SUBSET Tags : Null # ts
    /\ Rotations \subseteq RotationKinds

VARIABLES
    tags,        \* REALITY tags of the saved config, or Null for no config
    keys,        \* reality_keys.private_key of each tag, or Null
    generated,   \* how many keys were generated for each tag
    jobs,        \* the handlers under way
    runtime,     \* keys of the config served last, Null before the first
    links,       \* keys the last share links were built from, likewise
    edits, rotations, deaths    \* how often each happened

vars == <<tags, keys, generated, jobs, runtime, links, edits, rotations, deaths>>

KeyMap == [Tags -> Key \cup {Null}]
NoKeys == [t \in Tags |-> Null]

Steps == {"config", "list", "mint", "reread"}
JobKinds == RotationKinds \cup {"render", "links"}
Job == [kind : JobKinds \cup {"none"}, pc : Steps,
        tags : SUBSET Tags,     \* REALITY tags of the config it read
        todo : SUBSET Tags]     \* tags it still has to write a key for

Free == [kind |-> "none", pc |-> "config", tags |-> {}, todo |-> {}]

-----------------------------------------------------------------------------
(* A render of desiredConfig: getNode, keyMap, one upsert per missing tag, *)
(* keyMap again.                                                           *)

StartJob(s, kind) ==
    /\ jobs[s].kind = "none"
    /\ jobs' = [jobs EXCEPT ![s] = [Free EXCEPT !.kind = kind]]
    /\ UNCHANGED <<tags, keys, generated, runtime, links, edits, deaths>>

\* A heartbeat, a config fetch, the runtime pane or the sync view renders.
StartRender(s) == StartJob(s, "render") /\ UNCHANGED rotations

\* A subscription or the admin's links view.
StartLinks(s) == StartJob(s, "links") /\ UNCHANGED rotations

StartRotation(s) ==
    /\ rotations < MaxRotations
    /\ rotations' = rotations + 1
    /\ \E kind \in Rotations : StartJob(s, kind)

\* getNode: no config ends the handler; a rotation is refused for a config
\* without REALITY inbounds, or for a tag the config does not have.
ReadConfig(s) ==
    /\ jobs[s].kind # "none" /\ jobs[s].pc = "config"
    /\ \/ /\ tags = Null
          /\ jobs' = [jobs EXCEPT ![s] = Free]
       \/ /\ tags # Null /\ jobs[s].kind \in {"render", "links"}
          /\ jobs' = [jobs EXCEPT ![s].pc = "list", ![s].tags = tags]
       \/ /\ tags # Null /\ jobs[s].kind = "rotate-all"
          /\ jobs' = [jobs EXCEPT ![s] = IF tags = {} THEN Free
                        ELSE [@ EXCEPT !.pc = "mint", !.tags = tags, !.todo = tags]]
       \/ /\ tags # Null /\ jobs[s].kind = "rotate-one"
          /\ \E t \in Tags :
                jobs' = [jobs EXCEPT ![s] = IF t \notin tags THEN Free
                           ELSE [@ EXCEPT !.pc = "mint", !.tags = tags, !.todo = {t}]]
    /\ UNCHANGED <<tags, keys, generated, runtime, links, edits, rotations, deaths>>

\* ensureKeys generates only for the tags the stored map does not have.
MissingNone(job) == {}
MissingAll(job) == job.tags
Missing(job) == {t \in job.tags : keys[t] = Null}

\* keyMap, read the first time.
ListKeys(s) ==
    /\ jobs[s].kind = "render" /\ jobs[s].pc = "list"
    /\ jobs' = [jobs EXCEPT ![s].todo = Missing(jobs[s]),
                            ![s].pc = IF Missing(jobs[s]) = {} THEN "reread" ELSE "mint"]
    /\ UNCHANGED <<tags, keys, generated, runtime, links, edits, rotations, deaths>>

\* A handler that wrote the key of t goes on to the next tag, or reads again.
AfterUpsert(job, t) ==
    IF job.todo # {t} THEN [job EXCEPT !.todo = job.todo \ {t}]
    ELSE IF job.kind = "rotate-all" THEN Free
    ELSE [job EXCEPT !.todo = {}, !.pc = "reread"]

\* generatePrivateKey, seal and upsertRealityKey of one tag; of a rotation too.
Upsert(s) ==
    /\ jobs[s].kind # "none" /\ jobs[s].pc = "mint"
    /\ \E t \in jobs[s].todo :
          /\ generated[t] < MaxKeys
          /\ generated' = [generated EXCEPT ![t] = @ + 1]
          /\ keys' = [keys EXCEPT ![t] = generated[t] + 1]
          /\ jobs' = [jobs EXCEPT ![s] = AfterUpsert(jobs[s], t)]
    /\ UNCHANGED <<tags, runtime, links, edits, rotations, deaths>>

\* applyRealityKeys and securityParams: the stored key, or in a gap the
\* placeholder of the config.
FilledRaw(job, map) == [t \in job.tags |-> map[t]]
Filled(job, map) ==
    [t \in job.tags |-> IF map[t] # Null THEN map[t] ELSE Placeholder]

\* keyMap, read again: a render serves it, rotate-one answers its public half.
Reread(s) ==
    /\ jobs[s].kind \in {"render", "rotate-one"} /\ jobs[s].pc = "reread"
    /\ runtime' = IF jobs[s].kind = "render" THEN Filled(jobs[s], keys) ELSE runtime
    /\ jobs' = [jobs EXCEPT ![s] = Free]
    /\ UNCHANGED <<tags, keys, generated, links, edits, rotations, deaths>>

\* nodeLinks: securityParams falls back to the config's own key.
BuildLinks(s) ==
    /\ jobs[s].kind = "links" /\ jobs[s].pc = "list"
    /\ links' = Filled(jobs[s], keys)
    /\ jobs' = [jobs EXCEPT ![s] = Free]
    /\ UNCHANGED <<tags, keys, generated, runtime, edits, rotations, deaths>>

-----------------------------------------------------------------------------
(* The admin and the Worker's runtime.                                     *)

\* saveConfig: a config with another set of REALITY inbounds; keys stay.
SaveConfig(ts) ==
    /\ edits < MaxEdits
    /\ ts # tags
    /\ tags' = ts
    /\ edits' = edits + 1
    /\ UNCHANGED <<keys, generated, jobs, runtime, links, rotations, deaths>>

\* A handler dies at an await: a failed statement, an evicted isolate.
Die(s) ==
    /\ deaths < MaxDeaths
    /\ jobs[s].kind # "none"
    /\ deaths' = deaths + 1
    /\ jobs' = [jobs EXCEPT ![s] = Free]
    /\ UNCHANGED <<tags, keys, generated, runtime, links, edits, rotations>>

Work(s) == ReadConfig(s) \/ ListKeys(s) \/ Upsert(s) \/ Reread(s) \/ BuildLinks(s)

\* A node, with or without a config, that nobody rendered yet.
Init ==
    /\ tags \in {Null} \cup SUBSET Tags /\ keys = NoKeys
    /\ generated = [t \in Tags |-> 0]
    /\ jobs = [s \in Slots |-> Free]
    /\ runtime = Null /\ links = Null
    /\ edits = 0 /\ rotations = 0 /\ deaths = 0

Next ==
    \/ \E s \in Slots : \/ StartRender(s) \/ StartLinks(s) \/ StartRotation(s)
                        \/ Work(s) \/ Die(s)
    \/ \E ts \in SUBSET Tags : SaveConfig(ts)

Spec == Init /\ [][Next]_vars

\* Heartbeats keep a node's config rendered, clients keep asking for links,
\* and the runtime resumes every handler.
Fairness ==
    /\ \A s \in Slots : WF_vars(Work(s))
    /\ SF_vars(\E s \in Slots : StartRender(s))
    /\ SF_vars(\E s \in Slots : StartLinks(s))

FairSpec == Spec /\ Fairness

-----------------------------------------------------------------------------
(* Properties.                                                             *)

\* The rows, the handlers and what they gave out keep their shape.
TypeOK ==
    /\ tags \in {Null} \cup SUBSET Tags
    /\ keys \in KeyMap /\ generated \in [Tags -> 0 .. MaxKeys]
    /\ jobs \in [Slots -> Job]
    /\ runtime # Null => \A t \in DOMAIN runtime : runtime[t] \in Key \cup {Placeholder}
    /\ links # Null => \A t \in DOMAIN links : links[t] \in Key \cup {Placeholder}
    /\ edits \in Nat /\ rotations \in Nat /\ deaths \in Nat

\* A served config never carries the admin's placeholder: every render stores
\* a key for each REALITY inbound first ("ensureKeys guarantees one key per
\* reality inbound", config_service.ts), whatever runs between its two reads.
NoPlaceholderServed ==
    runtime # Null => \A t \in DOMAIN runtime : runtime[t] # Placeholder

\* What makes it inductive: a render under way has every tag of its config
\* either stored already or still to write.
RenderCovers ==
    \A s \in Slots : (jobs[s].kind = "render" /\ jobs[s].pc \in {"mint", "reread"}) =>
        \A t \in jobs[s].tags : keys[t] = Null => t \in jobs[s].todo /\ jobs[s].pc = "mint"

\* Only renders and rotations come to write keys.
WritersMint ==
    \A s \in Slots : jobs[s].pc = "mint" => jobs[s].kind \in RotationKinds \cup {"render"}

\* The inductive invariant of the keys of a node.
KeysInv == TypeOK /\ NoPlaceholderServed /\ RenderCovers /\ WritersMint

\* "Keys are stable across renders: generated once per (node, tag), replaced
\* only by explicit rotation" (reality_service.ts).
StableUnlessRotated ==
    [][\A t \in Tags : (keys[t] # Null /\ keys'[t] # keys[t]) =>
          \E s \in Slots : jobs[s].kind \in RotationKinds /\ Upsert(s)]_vars

\* The key of t is stored and no render still has one of its own to write
\* over it, having found none when it listed the keys.
Settled(t) ==
    /\ keys[t] # Null
    /\ \A s \in Slots : (jobs[s].kind = "render" /\ jobs[s].pc = "mint")
                          => t \notin jobs[s].todo

\* What is left of that promise when renders overlap: two first renders may
\* both mint, but once they are done the key is settled for good, and from
\* then on only a rotation replaces it, whatever runs beside it or dies.
SettledKeysStay ==
    [][\A t \in Tags : Settled(t) =>
          /\ Settled(t)'
          /\ keys'[t] # keys[t] =>
                \E s \in Slots : jobs[s].kind \in RotationKinds /\ Upsert(s)]_vars

\* When saves and rotations stop, the config the node is served and the links
\* its users get carry the same, stored keys.  Links built before the first
\* render of a config do not: securityParams falls back to its placeholder.
LinksMatchServed ==
    <>[](tags # Null => /\ runtime # Null /\ links # Null
                        /\ runtime = [t \in tags |-> keys[t]] /\ links = runtime)
=============================================================================
