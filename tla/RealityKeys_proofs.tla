-------------------------- MODULE RealityKeys_proofs --------------------------
(***************************************************************************)
(* Proofs about RealityKeys, for any tags, any number of handlers and any  *)
(* number of edits, rotations and deaths: no render serves the placeholder *)
(* and a key is only ever replaced by a handler that rotates or found none. *)
(***************************************************************************)
EXTENDS RealityKeys, TLAPS

\* A stored key is neither the placeholder nor the absence of a key.
LEMMA KeysApart == Null \notin Key /\ Placeholder \notin Key /\ Key \subseteq Nat
  BY KeysAssumption DEF Key, Placeholder

LEMMA FreeIsJob == Free \in Job /\ Free.pc = "config"
  BY DEF Free, Job, Steps, JobKinds

LEMMA InitInv == Init => KeysInv
  BY FreeIsJob, KeysAssumption
  DEF Init, KeysInv, TypeOK, NoPlaceholderServed, RenderCovers, WritersMint, KeyMap, NoKeys

\* A handler moves on and the keys stay: what it covers is all there is to show.
LEMMA JobStep ==
    ASSUME KeysInv, NEW s \in Slots, NEW job \in Job,
           jobs' = [jobs EXCEPT ![s] = job], UNCHANGED keys,
           (job.kind = "render" /\ job.pc \in {"mint", "reread"}) =>
              \A t \in job.tags : keys[t] = Null => t \in job.todo /\ job.pc = "mint",
           job.pc = "mint" => job.kind \in RotationKinds \cup {"render"}
    PROVE  jobs' \in [Slots -> Job] /\ RenderCovers' /\ WritersMint'
  BY DEF KeysInv, TypeOK, RenderCovers, WritersMint

\* Handlers that arrive or end have no tags yet, or no more.
LEMMA ArrivesOrEnds ==
    ASSUME KeysInv, NEW s \in Slots,
           StartRender(s) \/ StartLinks(s) \/ StartRotation(s) \/ Die(s)
    PROVE  KeysInv'
  <1>1. \A kind \in JobKinds :
          [Free EXCEPT !.kind = kind] \in Job /\ [Free EXCEPT !.kind = kind].pc = "config"
    BY DEF Free, Job, Steps, JobKinds
  <1>2. \E job \in Job : job.pc = "config" /\ jobs' = [jobs EXCEPT ![s] = job]
    <2>1. CASE StartRender(s)
      BY <1>1, <2>1 DEF StartRender, StartJob, JobKinds
    <2>2. CASE StartLinks(s)
      BY <1>1, <2>2 DEF StartLinks, StartJob, JobKinds
    <2>3. CASE StartRotation(s)
      BY <1>1, <2>3, KeysAssumption DEF StartRotation, StartJob, JobKinds
    <2>4. CASE Die(s)
      BY <2>4, FreeIsJob DEF Die
    <2> QED
      BY <2>1, <2>2, <2>3, <2>4
  <1>3. UNCHANGED <<tags, keys, generated, runtime, links, edits>>
    BY DEF StartRender, StartLinks, StartRotation, StartJob, Die
  <1>4. rotations' \in Nat /\ deaths' \in Nat
    BY DEF StartRender, StartLinks, StartRotation, StartJob, Die, KeysInv, TypeOK
  <1>5. jobs' \in [Slots -> Job] /\ RenderCovers' /\ WritersMint'
    BY <1>2, <1>3, JobStep
  <1> QED
    BY <1>3, <1>4, <1>5 DEF KeysInv, TypeOK, NoPlaceholderServed

LEMMA ReadConfigInv ==
    ASSUME KeysInv, NEW s \in Slots, ReadConfig(s)
    PROVE  KeysInv'
  <1>1. jobs[s] \in Job /\ (tags # Null => tags \in SUBSET Tags)
    BY DEF KeysInv, TypeOK
  <1>2. \E job \in Job : /\ jobs' = [jobs EXCEPT ![s] = job]
                         /\ job.kind = "render" => job.pc \in {"config", "list"}
                         /\ job.pc = "mint" => job.kind \in RotationKinds
    <2>1. CASE tags = Null \/ (tags # Null /\ jobs' = [jobs EXCEPT ![s] = Free])
      BY <2>1, FreeIsJob DEF ReadConfig
    <2>2. CASE tags # Null /\ jobs[s].kind \in {"render", "links"}
      <3>1. jobs' = [jobs EXCEPT ![s] = [jobs[s] EXCEPT !.pc = "list", !.tags = tags]]
        BY <2>2 DEF ReadConfig
      <3>2. [jobs[s] EXCEPT !.pc = "list", !.tags = tags] \in Job
        BY <1>1, <2>2 DEF Job, Steps
      <3> QED
        BY <1>1, <3>1, <3>2 DEF Job
    <2>3. CASE tags # Null /\ jobs[s].kind = "rotate-all" /\ jobs' # [jobs EXCEPT ![s] = Free]
      <3> DEFINE job == [jobs[s] EXCEPT !.pc = "mint", !.tags = tags, !.todo = tags]
      <3>1. jobs' = [jobs EXCEPT ![s] = job]
        BY <2>3 DEF ReadConfig
      <3>2. job \in Job /\ job.kind = "rotate-all"
        BY <1>1, <2>3 DEF Job, Steps
      <3> QED
        BY <3>1, <3>2 DEF RotationKinds
    <2>4. CASE tags # Null /\ jobs[s].kind = "rotate-one" /\ jobs' # [jobs EXCEPT ![s] = Free]
      <3> PICK t \in Tags :
            jobs' = [jobs EXCEPT ![s] =
                       [jobs[s] EXCEPT !.pc = "mint", !.tags = tags, !.todo = {t}]]
        BY <2>4 DEF ReadConfig
      <3>1. [jobs[s] EXCEPT !.pc = "mint", !.tags = tags, !.todo = {t}] \in Job
        BY <1>1, <2>4 DEF Job, Steps
      <3> QED
        BY <1>1, <2>4, <3>1 DEF Job, RotationKinds
    <2> QED
      BY <2>1, <2>2, <2>3, <2>4 DEF ReadConfig
  <1>3. jobs' \in [Slots -> Job] /\ RenderCovers' /\ WritersMint'
    BY <1>2, JobStep DEF ReadConfig
  <1> QED
    BY <1>3 DEF ReadConfig, KeysInv, TypeOK, NoPlaceholderServed

LEMMA ListKeysInv ==
    ASSUME KeysInv, NEW s \in Slots, ListKeys(s)
    PROVE  KeysInv'
  <1> DEFINE job == [jobs[s] EXCEPT !.todo = Missing(jobs[s]),
                        !.pc = IF Missing(jobs[s]) = {} THEN "reread" ELSE "mint"]
  <1>1. jobs[s] \in Job
    BY DEF KeysInv, TypeOK
  <1>2. job \in Job /\ job.tags = jobs[s].tags /\ job.todo = Missing(jobs[s])
        /\ job.pc = (IF Missing(jobs[s]) = {} THEN "reread" ELSE "mint")
        /\ job.kind = "render"
    BY <1>1 DEF Job, Steps, Missing, ListKeys
  <1>3. \A t \in job.tags : keys[t] = Null => t \in job.todo /\ job.pc = "mint"
    BY <1>2 DEF Missing
  <1>4. jobs' = [jobs EXCEPT ![s] = job]
    BY DEF ListKeys
  <1>5. jobs' \in [Slots -> Job] /\ RenderCovers' /\ WritersMint'
    <2> HIDE DEF job
    <2> QED
      BY <1>2, <1>3, <1>4, JobStep DEF ListKeys
  <1> QED
    BY <1>5 DEF ListKeys, KeysInv, TypeOK, NoPlaceholderServed

\* A new key closes one gap of whichever render was to close it.
LEMMA UpsertInv ==
    ASSUME KeysInv, NEW s \in Slots, Upsert(s)
    PROVE  KeysInv'
  <1>1. /\ jobs[s] \in Job /\ keys \in KeyMap
        /\ generated \in [Tags -> 0 .. MaxKeys]
    BY DEF KeysInv, TypeOK
  <1> PICK t \in jobs[s].todo :
        /\ generated[t] < MaxKeys
        /\ generated' = [generated EXCEPT ![t] = @ + 1]
        /\ keys' = [keys EXCEPT ![t] = generated[t] + 1]
        /\ jobs' = [jobs EXCEPT ![s] = AfterUpsert(jobs[s], t)]
    BY DEF Upsert
  <1>2. generated' \in [Tags -> 0 .. MaxKeys] /\ generated[t] + 1 \in Key
    BY <1>1, KeysAssumption DEF Key, Job
  <1>3. t \in Tags /\ keys' \in KeyMap /\ keys'[t] # Null
    BY <1>1, <1>2, KeysApart DEF KeyMap, Job
  <1>4. \A u \in Tags : keys'[u] = Null => keys[u] = Null /\ u # t
    BY <1>1, <1>3 DEF KeyMap
  <1>5. AfterUpsert(jobs[s], t) \in Job
    BY <1>1, FreeIsJob DEF Job, Steps, AfterUpsert
  <1>6. jobs' \in [Slots -> Job]
    BY <1>5 DEF KeysInv, TypeOK
  <1>8. WritersMint'
    <2>1. AfterUpsert(jobs[s], t).pc = "mint" => AfterUpsert(jobs[s], t).kind = jobs[s].kind
      BY <1>1 DEF AfterUpsert, Job, Free
    <2>2. jobs[s].kind \in RotationKinds \cup {"render"}
      BY DEF Upsert, KeysInv, WritersMint
    <2> QED
      BY <2>1, <2>2 DEF KeysInv, TypeOK, WritersMint
  <1>7. RenderCovers'
    <2> SUFFICES ASSUME NEW r \in Slots, jobs'[r].kind = "render",
                        jobs'[r].pc \in {"mint", "reread"},
                        NEW u \in jobs'[r].tags, keys'[u] = Null
                 PROVE  u \in jobs'[r].todo /\ jobs'[r].pc = "mint"
      BY DEF RenderCovers
    <2>1. CASE r # s
      <3>1. jobs'[r] = jobs[r] /\ jobs[r] \in Job
        BY <2>1 DEF KeysInv, TypeOK
      <3>2. u \in Tags
        BY <3>1 DEF Job
      <3> QED
        BY <1>4, <3>1, <3>2 DEF KeysInv, RenderCovers
    <2>2. CASE r = s
      <3>1. jobs'[s].kind = jobs[s].kind /\ jobs'[s].tags = jobs[s].tags
        BY <1>1, <2>2 DEF KeysInv, TypeOK, Job, Free, AfterUpsert
      <3>2. u \in Tags /\ u \in jobs[s].tags
        BY <1>1, <2>2, <3>1 DEF Job
      <3>3. u \in jobs[s].todo /\ u # t /\ jobs[s].pc = "mint"
        BY <1>4, <2>2, <3>1, <3>2 DEF KeysInv, RenderCovers, Upsert
      <3>4. jobs' = [jobs EXCEPT ![s] = [jobs[s] EXCEPT !.todo = jobs[s].todo \ {t}]]
        BY <3>3 DEF AfterUpsert
      <3> QED
        BY <1>1, <2>2, <3>3, <3>4 DEF KeysInv, TypeOK, Job
    <2> QED
      BY <2>1, <2>2
  <1> QED
    BY <1>2, <1>3, <1>6, <1>7, <1>8 DEF Upsert, KeysInv, TypeOK, NoPlaceholderServed

\* What a handler gives out of a typed map: stored keys, or the placeholder.
LEMMA FilledType ==
    ASSUME TypeOK, NEW job \in Job
    PROVE  /\ DOMAIN Filled(job, keys) = job.tags
           /\ \A t \in job.tags : /\ Filled(job, keys)[t] \in Key \cup {Placeholder}
                                  /\ keys[t] # Null => Filled(job, keys)[t] # Placeholder
  BY KeysApart DEF TypeOK, KeyMap, Job, Filled

\* The second read of a render finds a key for every tag.
LEMMA RereadInv ==
    ASSUME KeysInv, NEW s \in Slots, Reread(s)
    PROVE  KeysInv'
  <1>1. jobs[s] \in Job /\ TypeOK
    BY DEF KeysInv, TypeOK
  <1>2. jobs' \in [Slots -> Job] /\ RenderCovers' /\ WritersMint'
    BY FreeIsJob, JobStep DEF Reread
  <1>3. CASE jobs[s].kind = "render"
    <2>1. runtime' = Filled(jobs[s], keys)
      BY <1>3 DEF Reread
    <2>2. \A t \in jobs[s].tags : keys[t] # Null
      BY <1>3 DEF Reread, KeysInv, RenderCovers
    <2>3. /\ DOMAIN runtime' = jobs[s].tags
          /\ \A t \in DOMAIN runtime' : /\ runtime'[t] \in Key \cup {Placeholder}
                                        /\ runtime'[t] # Placeholder
      BY <1>1, <2>1, <2>2, FilledType
    <2> QED
      BY <1>2, <2>3 DEF Reread, KeysInv, TypeOK, NoPlaceholderServed
  <1>4. CASE jobs[s].kind # "render"
    BY <1>2, <1>4 DEF Reread, KeysInv, TypeOK, NoPlaceholderServed
  <1> QED
    BY <1>3, <1>4

LEMMA BuildLinksInv ==
    ASSUME KeysInv, NEW s \in Slots, BuildLinks(s)
    PROVE  KeysInv'
  <1>1. jobs[s] \in Job /\ TypeOK
    BY DEF KeysInv, TypeOK
  <1>2. jobs' \in [Slots -> Job] /\ RenderCovers' /\ WritersMint'
    BY FreeIsJob, JobStep DEF BuildLinks
  <1>3. \A t \in DOMAIN links' : links'[t] \in Key \cup {Placeholder}
    BY <1>1, FilledType DEF BuildLinks
  <1> QED
    BY <1>2, <1>3 DEF BuildLinks, KeysInv, TypeOK, NoPlaceholderServed

LEMMA SaveConfigInv ==
    ASSUME KeysInv, NEW ts \in SUBSET Tags, SaveConfig(ts)
    PROVE  KeysInv'
  BY DEF SaveConfig, KeysInv, TypeOK, NoPlaceholderServed, RenderCovers, WritersMint

LEMMA NextInv == KeysInv /\ [Next]_vars => KeysInv'
  <1> SUFFICES ASSUME KeysInv, [Next]_vars PROVE KeysInv'
    OBVIOUS
  <1>1. CASE \E s \in Slots : Work(s)
    BY <1>1, ReadConfigInv, ListKeysInv, UpsertInv, RereadInv, BuildLinksInv DEF Work
  <1>2. CASE \E s \in Slots : StartRender(s) \/ StartLinks(s) \/ StartRotation(s) \/ Die(s)
    BY <1>2, ArrivesOrEnds
  <1>3. CASE \E ts \in SUBSET Tags : SaveConfig(ts)
    BY <1>3, SaveConfigInv
  <1>4. CASE UNCHANGED vars
    BY <1>4 DEF vars, KeysInv, TypeOK, NoPlaceholderServed, RenderCovers, WritersMint
  <1> QED
    BY <1>1, <1>2, <1>3, <1>4 DEF Next

-----------------------------------------------------------------------------
\* The inductive invariant of ensureKeys, rotateKey and keyMap holds, however
\* the renders, rotations and links of a node interleave.
THEOREM KeysInvariant == Spec => []KeysInv
  <1> QED
    BY InitInv, NextInv, PTL DEF Spec

\* No config served to a node carries the admin's placeholder key.
THEOREM NeverServesPlaceholder == Spec => []NoPlaceholderServed
  <1>1. KeysInv => NoPlaceholderServed
    BY DEF KeysInv
  <1> QED
    BY <1>1, KeysInvariant, PTL

-----------------------------------------------------------------------------
(* Keys that stay, however handlers overlap.                               *)

\* Only Upsert writes a key, and it writes one that its handler had to write.
LEMMA OnlyUpsertWrites ==
    ASSUME KeysInv, Next, NEW t \in Tags, keys'[t] # keys[t]
    PROVE  \E s \in Slots : Upsert(s) /\ jobs[s].pc = "mint" /\ t \in jobs[s].todo
  <1>1. PICK s \in Slots : Upsert(s)
    BY DEF Next, Work, StartRender, StartLinks, StartRotation, StartJob, Die,
           ReadConfig, ListKeys, Reread, BuildLinks, SaveConfig
  <1>2. t \in jobs[s].todo /\ jobs[s].pc = "mint"
    BY <1>1 DEF Upsert, KeysInv, TypeOK, KeyMap
  <1> QED
    BY <1>1, <1>2

\* No step takes a stored key away.
LEMMA StoredStays ==
    ASSUME KeysInv, Next, NEW t \in Tags, keys[t] # Null
    PROVE  keys'[t] # Null
  <1>1. CASE keys'[t] = keys[t]
    BY <1>1
  <1>2. CASE keys'[t] # keys[t]
    <2> PICK s \in Slots : Upsert(s)
      BY <1>2, OnlyUpsertWrites
    <2> PICK u \in jobs[s].todo : /\ generated[u] < MaxKeys
                                  /\ keys' = [keys EXCEPT ![u] = generated[u] + 1]
      BY DEF Upsert
    <2>1. u \in Tags /\ keys \in KeyMap
      BY DEF KeysInv, TypeOK, Job
    <2>2. generated[u] + 1 \in Key
      BY <2>1, KeysAssumption DEF KeysInv, TypeOK, Key
    <2> QED
      BY <1>2, <2>1, <2>2, KeysApart DEF KeyMap
  <1> QED
    BY <1>1, <1>2

\* A step gives no render a settled key to write: what a render has to write
\* it had already, or it has just listed the keys and found it missing.
LEMMA NoNewWriter ==
    ASSUME KeysInv, Next, NEW t \in Tags, Settled(t), NEW s \in Slots,
           jobs'[s].kind = "render", jobs'[s].pc = "mint"
    PROVE  t \notin jobs'[s].todo
  <1>1. jobs \in [Slots -> Job] /\ jobs[s] \in Job
    BY DEF KeysInv, TypeOK
  <1>2. CASE jobs'[s] = jobs[s]
    BY <1>2 DEF Settled
  <1>3. CASE StartRender(s) \/ StartLinks(s) \/ StartRotation(s) \/ Die(s)
    <2>1. Free.pc = "config" /\ \A kind : [Free EXCEPT !.kind = kind].pc = "config"
      BY DEF Free
    <2>2. CASE StartRender(s) \/ StartLinks(s) \/ StartRotation(s)
      BY <1>1, <2>1, <2>2 DEF StartRender, StartLinks, StartRotation, StartJob
    <2>3. CASE Die(s)
      BY <1>1, <2>1, <2>3 DEF Die
    <2> QED
      BY <1>3, <2>2, <2>3
  <1>4. CASE ReadConfig(s)
    <2>1. Free.kind # "render"
      BY DEF Free
    <2>2. CASE tags = Null \/ jobs[s].kind \in {"render", "links"}
      <3>1. jobs'[s] = Free \/ jobs'[s] = [jobs[s] EXCEPT !.pc = "list", !.tags = tags]
        BY <1>1, <1>4, <2>2 DEF ReadConfig
      <3>2. [jobs[s] EXCEPT !.pc = "list", !.tags = tags].pc = "list"
        BY <1>1 DEF Job
      <3> QED
        BY <2>1, <3>1, <3>2
    <2>3. CASE tags # Null /\ jobs[s].kind = "rotate-all"
      <3>1. \/ jobs'[s] = Free
            \/ jobs'[s] = [jobs[s] EXCEPT !.pc = "mint", !.tags = tags, !.todo = tags]
        BY <1>1, <1>4, <2>3 DEF ReadConfig
      <3>2. [jobs[s] EXCEPT !.pc = "mint", !.tags = tags, !.todo = tags].kind = "rotate-all"
        BY <1>1, <2>3 DEF Job
      <3> QED
        BY <2>1, <3>1, <3>2
    <2>4. CASE tags # Null /\ jobs[s].kind = "rotate-one"
      <3>1. \/ jobs'[s] = Free
            \/ \E u \in Tags : jobs'[s] =
                  [jobs[s] EXCEPT !.pc = "mint", !.tags = tags, !.todo = {u}]
        BY <1>1, <1>4, <2>4 DEF ReadConfig
      <3>2. \A u : [jobs[s] EXCEPT !.pc = "mint", !.tags = tags, !.todo = {u}].kind
                      = "rotate-one"
        BY <1>1, <2>4 DEF Job
      <3> QED
        BY <2>1, <3>1, <3>2
    <2> QED
      BY <1>4, <2>2, <2>3, <2>4 DEF ReadConfig
  <1>5. CASE ListKeys(s)
    <2>1. jobs'[s].todo = Missing(jobs[s])
      BY <1>1, <1>5 DEF ListKeys, Job
    <2> QED
      BY <2>1 DEF Missing, Settled
  <1>6. CASE Upsert(s)
    <2> PICK u \in jobs[s].todo : jobs' = [jobs EXCEPT ![s] = AfterUpsert(jobs[s], u)]
      BY <1>6 DEF Upsert
    <2>1. /\ jobs'[s].kind = jobs[s].kind
          /\ jobs'[s].todo \subseteq jobs[s].todo
      BY <1>1 DEF AfterUpsert, Job, Free
    <2> QED
      BY <1>6, <2>1 DEF Upsert, Settled
  <1>7. CASE Reread(s) \/ BuildLinks(s)
    <2>1. jobs'[s] = Free
      BY <1>1, <1>7 DEF Reread, BuildLinks
    <2> QED
      BY <2>1 DEF Free
  <1>8. \/ jobs'[s] = jobs[s] \/ ReadConfig(s) \/ ListKeys(s) \/ Upsert(s)
        \/ StartRender(s) \/ StartLinks(s) \/ StartRotation(s) \/ Die(s)
        \/ Reread(s) \/ BuildLinks(s)
    <2>1. ASSUME NEW r \in Slots, r # s,
                 \/ StartRender(r) \/ StartLinks(r) \/ StartRotation(r)
                 \/ Work(r) \/ Die(r)
          PROVE  jobs'[s] = jobs[s]
      <3>1. CASE StartRender(r) \/ StartLinks(r) \/ StartRotation(r) \/ Die(r)
        BY <1>1, <2>1, <3>1 DEF StartRender, StartLinks, StartRotation, StartJob, Die
      <3>2. CASE ReadConfig(r)
        BY <1>1, <2>1, <3>2 DEF ReadConfig
      <3>3. CASE ListKeys(r) \/ Upsert(r)
        BY <1>1, <2>1, <3>3 DEF ListKeys, Upsert
      <3>4. CASE Reread(r) \/ BuildLinks(r)
        BY <1>1, <2>1, <3>4 DEF Reread, BuildLinks
      <3> QED
        BY <2>1, <3>1, <3>2, <3>3, <3>4 DEF Work
    <2>2. ASSUME NEW ts \in SUBSET Tags, SaveConfig(ts) PROVE jobs'[s] = jobs[s]
      BY <2>2 DEF SaveConfig
    <2> QED
      BY <2>1, <2>2 DEF Next, Work
  <1> QED
    BY <1>2, <1>3, <1>4, <1>5, <1>6, <1>7, <1>8

\* Once a key is stored and the renders that had found it missing are done, it
\* is replaced by rotations only, for any number of handlers under way at
\* once and wherever they die.
THEOREM SettledForGood == Spec => SettledKeysStay
  <1>1. KeysInv /\ [Next]_vars =>
          [\A t \in Tags : Settled(t) =>
              /\ Settled(t)'
              /\ keys'[t] # keys[t] =>
                    \E s \in Slots : jobs[s].kind \in RotationKinds /\ Upsert(s)]_vars
    <2> SUFFICES ASSUME KeysInv, Next, NEW t \in Tags, Settled(t)
                 PROVE  /\ Settled(t)'
                        /\ keys'[t] # keys[t] =>
                              \E s \in Slots : jobs[s].kind \in RotationKinds /\ Upsert(s)
      OBVIOUS
    <2>1. keys'[t] # Null
      BY StoredStays DEF Settled
    <2>2. \A s \in Slots : (jobs'[s].kind = "render" /\ jobs'[s].pc = "mint")
                               => t \notin jobs'[s].todo
      BY NoNewWriter
    <2>3. ASSUME keys'[t] # keys[t]
          PROVE  \E s \in Slots : jobs[s].kind \in RotationKinds /\ Upsert(s)
      <3> PICK s \in Slots : Upsert(s) /\ jobs[s].pc = "mint" /\ t \in jobs[s].todo
        BY <2>3, OnlyUpsertWrites
      <3>1. jobs[s].kind # "render"
        BY DEF Settled
      <3> QED
        BY <3>1 DEF KeysInv, WritersMint
    <2> QED
      BY <2>1, <2>2, <2>3 DEF Settled
  <1> QED
    BY <1>1, KeysInvariant, PTL DEF Spec, SettledKeysStay

\* The rows, the handlers and what they gave out keep their shape, whatever
\* handlers of one node interleave and wherever they die.
THEOREM TypeCorrect == Spec => []TypeOK
  <1>1. KeysInv => TypeOK
    BY DEF KeysInv
  <1> QED
    BY <1>1, KeysInvariant, PTL
=============================================================================
