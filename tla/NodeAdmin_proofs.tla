--------------------------- MODULE NodeAdmin_proofs ---------------------------
(***************************************************************************)
(* Proofs about NodeAdmin, for any number of requests at a time and        *)
(* whatever dies or is given up.                                           *)
(***************************************************************************)
EXTENDS NodeAdmin, TLAPS

LEMMA FreeIsRequest == Free \in Request /\ JobOK(Free)
  BY DEF Free, Request, JobOK, Maybe, NodeKinds, ProfileKinds

-----------------------------------------------------------------------------
(* Type correctness.                                                       *)

\* The part of TypeOK about requests, and the part about the page.
JobsTyped ==
    jobs \in [Slots -> Request] /\ \A s \in Slots : JobOK(jobs[s]) /\ FoundNode(jobs[s], nodes)
PageTyped ==
    /\ page \in [Nodes -> [minting : BOOLEAN, error : BOOLEAN, token : Maybe(Nat),
                           waits : SUBSET Slots]]
    /\ unheard \in [Nodes -> BOOLEAN]

\* A slot that takes a proper request leaves the requests proper, as long as
\* no node vanishes.
LEMMA JobStep ==
    ASSUME TypeOK, NEW s \in Slots, NEW job \in Request, JobOK(job), FoundNode(job, nodes'),
           Becomes(s, job), \A n \in Nodes : nodes[n] # Null => nodes'[n] # Null
    PROVE  JobsTyped'
  <1>1. jobs' \in [Slots -> Request] /\ \A r \in Slots : JobOK(jobs'[r])
    BY DEF TypeOK, Becomes
  <1>2. ASSUME NEW r \in Slots PROVE FoundNode(jobs'[r], nodes')
    <2>1. CASE r = s
      BY <2>1 DEF TypeOK, Becomes, FoundNode
    <2>2. CASE r # s
      <3>1. jobs'[r] = jobs[r]
        BY <2>2 DEF TypeOK, Becomes
      <3>2. jobs[r].kind \in NodeKinds => jobs[r].node \in Nodes
        BY DEF TypeOK, JobOK, NodeKinds
      <3> QED
        BY <3>1, <3>2 DEF TypeOK, FoundNode
    <2> QED
      BY <2>1, <2>2
  <1> QED
    BY <1>1, <1>2 DEF JobsTyped

LEMMA TypesFromParts ==
    ASSUME TypeOK, JobsTyped', PageTyped', UNCHANGED <<nodes, profiles, declared>>,
           minted' \in Nat, requests' \in Nat, deaths' \in Nat, giveUps' \in Nat
    PROVE  TypeOK'
  BY DEF TypeOK, JobsTyped, PageTyped

LEMMA SamePage == ASSUME TypeOK, PageStays PROVE PageTyped'
  BY DEF TypeOK, PageTyped, PageStays

LEMMA SameCounters ==
    ASSUME TypeOK, UNCHANGED counters
    PROVE  minted' \in Nat /\ requests' \in Nat /\ deaths' \in Nat /\ giveUps' \in Nat
  BY DEF TypeOK, counters

LEMMA EndStep ==
    ASSUME TypeOK, NEW s \in Slots, Ends(s),
           \A n \in Nodes : nodes[n] # Null => nodes'[n] # Null
    PROVE  JobsTyped'
  <1>1. FoundNode(Free, nodes')
    BY DEF FoundNode, Free, NodeKinds
  <1> QED
    BY <1>1, FreeIsRequest, JobStep DEF Ends

LEMMA UnansweredTypes ==
    ASSUME TypeOK, NEW s \in Slots, NoAnswer(s)
    PROVE  PageTyped'
  BY DEF TypeOK, NoAnswer, PageTyped

LEMMA FailStep ==
    ASSUME TypeOK, NEW s \in Slots, Fails(s)
    PROVE  PageTyped' /\ Ends(s)
  BY UnansweredTypes DEF Fails

\* A request that arrives.
LEMMA ArriveTypes ==
    ASSUME TypeOK, NEW s \in Slots, NEW job \in Request, JobOK(job), job.pc = "node",
           Arrive(s, job), PageTyped'
    PROVE  TypeOK'
  <1>1. Becomes(s, job) /\ UNCHANGED <<nodes, profiles, declared>>
    BY DEF Arrive, Becomes
  <1>2. FoundNode(job, nodes')
    BY DEF FoundNode
  <1>3. JobsTyped'
    BY <1>1, <1>2, JobStep
  <1>4. minted' \in Nat /\ requests' \in Nat /\ deaths' \in Nat /\ giveUps' \in Nat
    BY DEF Arrive, TypeOK
  <1> QED
    BY <1>1, <1>3, <1>4, TypesFromParts

LEMMA ArrivalsTypes ==
    ASSUME TypeOK, NEW s \in Slots, Arrivals(s)
    PROVE  TypeOK'
  <1>1. CASE NodeCreate(s)
    <2>1. PICK n \in Nodes, l \in Labels, a \in Addresses :
             /\ PageStays
             /\ Arrive(s, [Free EXCEPT !.kind = "create-node", !.node = n,
                                       !.label = l, !.address = a])
      BY <1>1 DEF NodeCreate
    <2> DEFINE job == [Free EXCEPT !.kind = "create-node", !.node = n,
                                   !.label = l, !.address = a]
    <2>2. job \in Request /\ JobOK(job) /\ job.pc = "node"
      BY DEF Free, Request, JobOK, Maybe, NodeKinds, ProfileKinds
    <2> QED
      BY <2>1, <2>2, ArriveTypes, SamePage
  <1>2. CASE NodeUpdate(s)
    <2>1. PICK n \in Nodes, l \in Maybe(Labels), a \in Maybe(Addresses) :
             /\ PageStays
             /\ Arrive(s, [Free EXCEPT !.kind = "update-node", !.node = n,
                                       !.label = l, !.address = a])
      BY <1>2 DEF NodeUpdate
    <2> DEFINE job == [Free EXCEPT !.kind = "update-node", !.node = n,
                                   !.label = l, !.address = a]
    <2>2. job \in Request /\ JobOK(job) /\ job.pc = "node"
      BY DEF Free, Request, JobOK, Maybe, NodeKinds, ProfileKinds
    <2> QED
      BY <2>1, <2>2, ArriveTypes, SamePage
  <1>3. CASE SaveConfig(s)
    <2>1. PICK n \in Nodes, c \in Configs :
             /\ PageStays
             /\ Arrive(s, [Free EXCEPT !.kind = "save-config", !.node = n, !.config = c])
      BY <1>3 DEF SaveConfig
    <2> DEFINE job == [Free EXCEPT !.kind = "save-config", !.node = n, !.config = c]
    <2>2. job \in Request /\ JobOK(job) /\ job.pc = "node"
      BY DEF Free, Request, JobOK, Maybe, NodeKinds, ProfileKinds
    <2> QED
      BY <2>1, <2>2, ArriveTypes, SamePage
  <1>4. CASE Mint(s)
    <2>1. PICK n \in Nodes :
             /\ page' = [page EXCEPT ![n].minting = TRUE, ![n].waits = @ \cup {s}]
             /\ UNCHANGED unheard
             /\ Arrive(s, [Free EXCEPT !.kind = "token", !.node = n])
      BY <1>4 DEF Mint
    <2> DEFINE job == [Free EXCEPT !.kind = "token", !.node = n]
    <2>2. job \in Request /\ JobOK(job) /\ job.pc = "node"
      BY DEF Free, Request, JobOK, Maybe, NodeKinds, ProfileKinds
    <2>3. PageTyped'
      BY <2>1 DEF TypeOK, PageTyped
    <2> QED
      BY <2>1, <2>2, <2>3, ArriveTypes
  <1>5. CASE Enroll(s)
    <2>1. PICK n \in Nodes, t \in 1 .. minted, r \in Reports :
             /\ PageStays
             /\ Arrive(s, [Free EXCEPT !.kind = "enroll", !.node = n, !.token = t,
                              !.reported = r,
                              !.dead = nodes[n] = Null \/ nodes[n].token # t])
      BY <1>5 DEF Enroll
    <2> DEFINE job == [Free EXCEPT !.kind = "enroll", !.node = n, !.token = t,
                              !.reported = r,
                              !.dead = nodes[n] = Null \/ nodes[n].token # t]
    <2>2. t \in Nat /\ (nodes[n] = Null \/ nodes[n].token # t) \in BOOLEAN
      BY DEF TypeOK
    <2>3. job \in Request /\ JobOK(job) /\ job.pc = "node"
      BY <2>2 DEF Free, Request, JobOK, Maybe, NodeKinds, ProfileKinds
    <2> QED
      BY <2>1, <2>3, ArriveTypes, SamePage
  <1>6. CASE LinkProfileIn(s)
    <2>1. PICK n \in Nodes, i \in Ids, t \in Tags, l \in Labels :
             /\ PageStays
             /\ Arrive(s, [Free EXCEPT !.kind = "create-profile", !.node = n, !.id = i,
                                       !.tag = t, !.label = l])
      BY <1>6 DEF LinkProfileIn
    <2> DEFINE job == [Free EXCEPT !.kind = "create-profile", !.node = n, !.id = i,
                                   !.tag = t, !.label = l]
    <2>2. job \in Request /\ JobOK(job) /\ job.pc = "node"
      BY DEF Free, Request, JobOK, Maybe, NodeKinds, ProfileKinds
    <2> QED
      BY <2>1, <2>2, ArriveTypes, SamePage
  <1>7. CASE LinkProfileUpdate(s)
    <2>1. PICK n \in Nodes, i \in Ids, t \in Maybe(Tags), l \in Maybe(Labels) :
             /\ PageStays
             /\ Arrive(s, [Free EXCEPT !.kind = "update-profile", !.node = n, !.id = i,
                                       !.tag = t, !.label = l])
      BY <1>7 DEF LinkProfileUpdate
    <2> DEFINE job == [Free EXCEPT !.kind = "update-profile", !.node = n, !.id = i,
                                   !.tag = t, !.label = l]
    <2>2. job \in Request /\ JobOK(job) /\ job.pc = "node"
      BY DEF Free, Request, JobOK, Maybe, NodeKinds, ProfileKinds
    <2> QED
      BY <2>1, <2>2, ArriveTypes, SamePage
  <1>8. CASE LinkProfileDelete(s)
    <2>1. PICK n \in Nodes, i \in Ids :
             /\ PageStays
             /\ Arrive(s, [Free EXCEPT !.kind = "delete-profile", !.node = n, !.id = i])
      BY <1>8 DEF LinkProfileDelete
    <2> DEFINE job == [Free EXCEPT !.kind = "delete-profile", !.node = n, !.id = i]
    <2>2. job \in Request /\ JobOK(job) /\ job.pc = "node"
      BY DEF Free, Request, JobOK, Maybe, NodeKinds, ProfileKinds
    <2> QED
      BY <2>1, <2>2, ArriveTypes, SamePage
  <1>9. CASE MintElsewhere(s)
    <2>1. PICK n \in Nodes :
             PageStays /\ Arrive(s, [Free EXCEPT !.kind = "token", !.node = n])
      BY <1>9 DEF MintElsewhere
    <2> DEFINE job == [Free EXCEPT !.kind = "token", !.node = n]
    <2>2. job \in Request /\ JobOK(job) /\ job.pc = "node"
      BY DEF Free, Request, JobOK, Maybe, NodeKinds, ProfileKinds
    <2> QED
      BY <2>1, <2>2, ArriveTypes, SamePage
  <1> QED
    BY <1>1, <1>2, <1>3, <1>4, <1>5, <1>6, <1>7, <1>8, <1>9 DEF Arrivals

\* A request at some statement has the fields of one.
LEMMA OfJob ==
    ASSUME TypeOK, NEW s \in Slots, jobs[s].kind # "none"
    PROVE  /\ jobs[s] \in Request /\ JobOK(jobs[s]) /\ FoundNode(jobs[s], nodes)
           /\ jobs[s].node \in Nodes
           /\ nodes[jobs[s].node] \in Maybe(NodeRow)
           /\ profiles[jobs[s].node] \in [Ids -> Maybe(ProfileRow)]
  BY DEF TypeOK, JobOK

LEMMA GetNodeTypes ==
    ASSUME TypeOK, NEW s \in Slots, GetNode(s)
    PROVE  TypeOK'
  <1> DEFINE job == jobs[s]
             row == nodes[job.node]
             next == IF job.kind \in ProfileKinds THEN [job EXCEPT !.pc = "profile"]
                     ELSE [job EXCEPT !.pc = "store", !.row = row]
  <1>1. /\ job \in Request /\ JobOK(job) /\ job.kind # "none" /\ job.node \in Nodes
        /\ row \in Maybe(NodeRow) /\ job.pc = "node"
    BY OfJob DEF GetNode, At
  <1>2. UNCHANGED <<nodes, profiles, declared, counters>>
    BY DEF GetNode
  <1>3. CASE Refused(job, row) \/ Unneeded(job, row)
    <2>1. Fails(s)
      BY <1>3 DEF GetNode
    <2>2. PageTyped' /\ JobsTyped'
      BY <1>2, <2>1, FailStep, EndStep
    <2> QED
      BY <1>2, <2>2, TypesFromParts, SameCounters
  <1>4. CASE ~(Refused(job, row) \/ Unneeded(job, row))
    <2>1. Becomes(s, next) /\ PageStays
      BY <1>4 DEF GetNode
    <2>2. job.kind # "create-node" => row \in NodeRow
      BY <1>1, <1>4 DEF Refused, Maybe
    <2> HIDE DEF next
    <2>3. ASSUME job.kind \in ProfileKinds
          PROVE  next \in Request /\ JobOK(next) /\ FoundNode(next, nodes')
      <3>1. next = [job EXCEPT !.pc = "profile"]
        BY <2>3 DEF next
      <3>2. next \in Request /\ next.kind = job.kind /\ next.pc = "profile"
        BY <1>1, <3>1 DEF Request
      <3>3. JobOK(next)
        BY <1>1, <2>3, <3>1 DEF Request, JobOK, ProfileKinds
      <3>4. FoundNode(next, nodes')
        BY <3>2 DEF FoundNode
      <3> QED
        BY <3>2, <3>3, <3>4
    <2>4. ASSUME job.kind \notin ProfileKinds
          PROVE  next \in Request /\ JobOK(next) /\ FoundNode(next, nodes')
      <3>1. next = [job EXCEPT !.pc = "store", !.row = row]
        BY <2>4 DEF next
      <3>2. next \in Request /\ next.kind = job.kind /\ next.node = job.node
        BY <1>1, <3>1 DEF Request, Maybe
      <3>3. JobOK(next)
        BY <1>1, <2>2, <2>4, <3>1 DEF Request, JobOK, ProfileKinds
      <3>4. job.kind # "create-node" => row # Null
        BY <2>2, RowsAssumption
      <3>5. FoundNode(next, nodes')
        BY <1>2, <3>2, <3>4 DEF FoundNode
      <3> QED
        BY <3>2, <3>3, <3>5
    <2>5. next \in Request /\ JobOK(next) /\ FoundNode(next, nodes')
      BY <2>3, <2>4
    <2>6. JobsTyped'
      BY <1>2, <2>1, <2>5, JobStep
    <2> QED
      BY <1>2, <2>1, <2>6, TypesFromParts, SamePage, SameCounters DEF PageStays
  <1> QED
    BY <1>3, <1>4

LEMMA GetLinkProfileTypes ==
    ASSUME TypeOK, NEW s \in Slots, GetLinkProfile(s)
    PROVE  TypeOK'
  <1> DEFINE job == jobs[s]
             row == profiles[job.node][job.id]
             next == [job EXCEPT !.pc = "store", !.row = row]
  <1>1. /\ job \in Request /\ JobOK(job) /\ job.kind \in ProfileKinds
        /\ row \in Maybe(ProfileRow)
    BY OfJob DEF GetLinkProfile, At, JobOK
  <1>2. UNCHANGED <<nodes, profiles, declared, page, unheard, counters>>
    BY DEF GetLinkProfile
  <1>3. CASE (job.kind = "create-profile") # (row = Null)
    <2>1. Ends(s)
      BY <1>3 DEF GetLinkProfile, Ends
    <2>2. JobsTyped'
      BY <1>2, <2>1, EndStep
    <2> QED
      BY <1>2, <2>2, TypesFromParts, SamePage, SameCounters DEF PageStays
  <1>4. CASE ~((job.kind = "create-profile") # (row = Null))
    <2>1. Becomes(s, next)
      BY <1>4 DEF GetLinkProfile
    <2>2. next \in Request
      BY <1>1 DEF Request, Maybe
    <2>3. job.kind = "update-profile" => row \in ProfileRow
      BY <1>1, <1>4 DEF Maybe
    <2>4. JobOK(next)
      BY <1>1, <2>3 DEF Request, JobOK, ProfileKinds
    <2>6. next.kind \in ProfileKinds
      BY <1>1 DEF Request
    <2>7. FoundNode(next, nodes')
      BY <2>6 DEF FoundNode, ProfileKinds, NodeKinds
    <2>5. JobsTyped'
      BY <1>2, <2>1, <2>2, <2>4, <2>7, JobStep
    <2> QED
      BY <1>2, <2>5, TypesFromParts, SamePage, SameCounters DEF PageStays
  <1> QED
    BY <1>3, <1>4

\* The tables after a statement that stores, and the request it ends.
LEMMA StoreTypes ==
    ASSUME TypeOK, JobsTyped', PageTyped',
           nodes' \in [Nodes -> Maybe(NodeRow)],
           profiles' \in [Nodes -> [Ids -> Maybe(ProfileRow)]],
           declared' \in [Nodes -> SUBSET Tags],
           minted' \in Nat, requests' \in Nat, deaths' \in Nat, giveUps' \in Nat
    PROVE  TypeOK'
  BY DEF TypeOK, JobsTyped, PageTyped

\* A row written over a row: nothing vanishes.
LEMMA RowWritten ==
    ASSUME TypeOK, NEW n \in Nodes, NEW row \in NodeRow,
           nodes' = [nodes EXCEPT ![n] = row]
    PROVE  /\ nodes' \in [Nodes -> Maybe(NodeRow)]
           /\ \A m \in Nodes : nodes[m] # Null => nodes'[m] # Null
  BY RowsAssumption DEF TypeOK, Maybe

LEMMA ProfileWritten ==
    ASSUME TypeOK, NEW n \in Nodes, NEW i \in Ids, NEW row \in Maybe(ProfileRow),
           profiles' = [profiles EXCEPT ![n][i] = row]
    PROVE  profiles' \in [Nodes -> [Ids -> Maybe(ProfileRow)]]
  BY DEF TypeOK

\* Merging a payload into a node row, and into a profile row.
LEMMA ReplacedIsRow ==
    ASSUME NEW job \in Request, job.row \in NodeRow, NEW now \in NodeRow
    PROVE  Replaced(job, now) \in NodeRow
  BY DEF Replaced, Request, NodeRow, Or, Maybe

LEMMA UpdatedIsRow ==
    ASSUME NEW job \in Request, job.row \in ProfileRow, NEW now \in Maybe(ProfileRow)
    PROVE  Updated(job, now) \in Maybe(ProfileRow)
  <1>1. MergedProfile(job) \in ProfileRow
    BY DEF MergedProfile, Request, ProfileRow, Or, Maybe
  <1> QED
    BY <1>1 DEF Updated, ProfileRow, Maybe

LEMMA CreateNodeTypes ==
    ASSUME TypeOK, NEW s \in Slots, CreateNode(s)
    PROVE  TypeOK'
  <1> DEFINE job == jobs[s]
             row == [label |-> job.label, address |-> job.address, config |-> Null,
                     token |-> Null, reported |-> Null]
  <1>1. job \in Request /\ JobOK(job) /\ job.kind = "create-node" /\ job.node \in Nodes
    BY OfJob DEF CreateNode, Stores, At
  <1>2. row \in NodeRow
    BY <1>1 DEF JobOK, NodeRow, Maybe
  <1>3. /\ nodes' = IF nodes[job.node] # Null THEN nodes
                    ELSE [nodes EXCEPT ![job.node] = row]
        /\ Ends(s) /\ UNCHANGED <<profiles, declared, page, unheard, counters>>
    BY DEF CreateNode
  <1>4. /\ nodes' \in [Nodes -> Maybe(NodeRow)]
        /\ \A m \in Nodes : nodes[m] # Null => nodes'[m] # Null
    <2>1. CASE nodes[job.node] # Null
      BY <1>3, <2>1 DEF TypeOK
    <2>2. CASE nodes[job.node] = Null
      <3>1. nodes' = [nodes EXCEPT ![job.node] = row]
        BY <1>3, <2>2
      <3> QED
        BY <1>1, <1>2, <3>1, RowWritten
    <2> QED
      BY <2>1, <2>2
  <1>5. JobsTyped'
    BY <1>3, <1>4, EndStep
  <1> QED
    BY <1>3, <1>4, <1>5, StoreTypes, SamePage, SameCounters DEF TypeOK, PageStays

LEMMA ReplaceNodeTypes ==
    ASSUME TypeOK, NEW s \in Slots, ReplaceNode(s)
    PROVE  TypeOK'
  <1> DEFINE job == jobs[s]
  <1>1. /\ job \in Request /\ JobOK(job) /\ job.kind = "update-node" /\ job.pc = "store"
        /\ job.node \in Nodes /\ nodes[job.node] \in Maybe(NodeRow)
        /\ FoundNode(job, nodes)
    BY OfJob DEF ReplaceNode, Stores, At
  <1>2. nodes[job.node] \in NodeRow /\ job.row \in NodeRow
    BY <1>1 DEF FoundNode, NodeKinds, Maybe, JobOK
  <1>3. Replaced(job, nodes[job.node]) \in NodeRow
    BY <1>1, <1>2, ReplacedIsRow
  <1>4. /\ nodes' = [nodes EXCEPT ![job.node] = Replaced(job, nodes[job.node])]
        /\ Ends(s) /\ UNCHANGED <<profiles, declared, page, unheard, counters>>
    BY DEF ReplaceNode
  <1>5. /\ nodes' \in [Nodes -> Maybe(NodeRow)]
        /\ \A m \in Nodes : nodes[m] # Null => nodes'[m] # Null
    BY <1>1, <1>3, <1>4, RowWritten
  <1>6. JobsTyped'
    BY <1>4, <1>5, EndStep
  <1> QED
    BY <1>4, <1>5, <1>6, StoreTypes, SamePage, SameCounters DEF TypeOK, PageStays

LEMMA SetNodeConfigTypes ==
    ASSUME TypeOK, NEW s \in Slots, SetNodeConfig(s)
    PROVE  TypeOK'
  <1> DEFINE job == jobs[s]
             row == [nodes[job.node] EXCEPT !.config = job.config]
  <1>1. /\ job \in Request /\ JobOK(job) /\ job.kind = "save-config" /\ job.pc = "store"
        /\ job.node \in Nodes /\ nodes[job.node] \in Maybe(NodeRow)
        /\ FoundNode(job, nodes)
    BY OfJob DEF SetNodeConfig, Stores, At
  <1>2. nodes[job.node] \in NodeRow /\ job.config \in Configs
    BY <1>1 DEF FoundNode, NodeKinds, Maybe, JobOK
  <1>3. row \in NodeRow
    BY <1>2 DEF NodeRow, Maybe
  <1>4. /\ nodes' = [nodes EXCEPT ![job.node] = row]
        /\ declared' = [declared EXCEPT ![job.node] = @ \cup job.config]
        /\ Ends(s) /\ UNCHANGED <<profiles, page, unheard, counters>>
    BY DEF SetNodeConfig
  <1>5. /\ nodes' \in [Nodes -> Maybe(NodeRow)]
        /\ \A m \in Nodes : nodes[m] # Null => nodes'[m] # Null
    BY <1>1, <1>3, <1>4, RowWritten
  <1>6. JobsTyped'
    BY <1>4, <1>5, EndStep
  <1>7. declared' \in [Nodes -> SUBSET Tags]
    BY <1>2, <1>4, NodesAssumption DEF TypeOK
  <1> QED
    BY <1>4, <1>5, <1>6, <1>7, StoreTypes, SamePage, SameCounters DEF TypeOK, PageStays

LEMMA SetTokenHashTypes ==
    ASSUME TypeOK, NEW s \in Slots, SetTokenHash(s)
    PROVE  TypeOK'
  <1> DEFINE job == jobs[s]
             row == [nodes[job.node] EXCEPT !.token = minted + 1]
             next == [job EXCEPT !.pc = "answer", !.token = minted + 1]
  <1>1. /\ job \in Request /\ JobOK(job) /\ job.kind = "token" /\ job.pc = "store"
        /\ job.node \in Nodes /\ nodes[job.node] \in Maybe(NodeRow)
        /\ FoundNode(job, nodes)
    BY OfJob DEF SetTokenHash, Stores, At
  <1>2. nodes[job.node] \in NodeRow
    BY <1>1 DEF FoundNode, NodeKinds, Maybe
  <1> minted + 1 \in Nat
    BY DEF TypeOK
  <1> HIDE DEF row
  <1>3. row \in NodeRow /\ minted + 1 \in Nat
    BY <1>2 DEF NodeRow, Maybe, row
  <1>4. /\ nodes' = [nodes EXCEPT ![job.node] = row] /\ minted' = minted + 1
        /\ Becomes(s, next)
        /\ unheard' = [unheard EXCEPT ![job.node] = s \notin page[job.node].waits]
        /\ UNCHANGED <<profiles, declared, page, requests, deaths, giveUps>>
    BY DEF SetTokenHash, row
  <1>5. /\ nodes' \in [Nodes -> Maybe(NodeRow)]
        /\ \A m \in Nodes : nodes[m] # Null => nodes'[m] # Null
    BY <1>1, <1>3, <1>4, RowWritten
  <1>6. next \in Request
    BY <1>1, <1>3 DEF Request, Maybe
  <1>7. next.kind = "token" /\ next.node = job.node /\ next.pc = "answer"
        /\ next.token = minted + 1
    BY <1>1 DEF Request
  <1>8. JobOK(next)
    BY <1>1, <1>3, <1>7 DEF JobOK, ProfileKinds
  <1>9. FoundNode(next, nodes')
    <2>1. nodes'[job.node] # Null
      BY <1>1, <1>2, <1>5, RowsAssumption
    <2> QED
      BY <1>7, <2>1 DEF FoundNode
  <1>10. JobsTyped'
    BY <1>4, <1>5, <1>6, <1>8, <1>9, JobStep
  <1>11. PageTyped'
    BY <1>4 DEF TypeOK, PageTyped
  <1> QED
    BY <1>3, <1>4, <1>5, <1>10, <1>11, StoreTypes DEF TypeOK

LEMMA SetReportedTypes ==
    ASSUME TypeOK, NEW s \in Slots, SetReportedAddress(s)
    PROVE  TypeOK'
  <1> DEFINE job == jobs[s]
             row == [nodes[job.node] EXCEPT !.reported = job.reported]
  <1>1. /\ job \in Request /\ JobOK(job) /\ job.kind = "enroll" /\ job.pc = "store"
        /\ job.node \in Nodes /\ nodes[job.node] \in Maybe(NodeRow)
        /\ FoundNode(job, nodes)
    BY OfJob DEF SetReportedAddress, Stores, At
  <1>2. nodes[job.node] \in NodeRow /\ job.reported \in Reports
    BY <1>1 DEF FoundNode, NodeKinds, Maybe, JobOK
  <1>3. row \in NodeRow
    BY <1>2 DEF NodeRow, Maybe
  <1>4. /\ nodes' = [nodes EXCEPT ![job.node] = row]
        /\ Ends(s) /\ UNCHANGED <<profiles, declared, page, unheard, counters>>
    BY DEF SetReportedAddress
  <1>5. /\ nodes' \in [Nodes -> Maybe(NodeRow)]
        /\ \A m \in Nodes : nodes[m] # Null => nodes'[m] # Null
    BY <1>1, <1>3, <1>4, RowWritten
  <1>6. JobsTyped'
    BY <1>4, <1>5, EndStep
  <1> QED
    BY <1>4, <1>5, <1>6, StoreTypes, SamePage, SameCounters DEF TypeOK, PageStays

LEMMA ProfileStoreTypes ==
    ASSUME TypeOK, NEW s \in Slots,
           CreateLinkProfile(s) \/ UpdateLinkProfile(s) \/ DeleteLinkProfile(s)
    PROVE  TypeOK'
  <1> DEFINE job == jobs[s]
             now == profiles[job.node][job.id]
  <1>1. /\ job \in Request /\ JobOK(job) /\ job.kind \in ProfileKinds /\ job.pc = "store"
        /\ job.node \in Nodes /\ job.id \in Ids /\ now \in Maybe(ProfileRow)
    BY OfJob
    DEF CreateLinkProfile, UpdateLinkProfile, DeleteLinkProfile, Stores, At,
        ProfileKinds, JobOK
  <1>2. Ends(s) /\ UNCHANGED <<nodes, declared, page, unheard, counters>>
    BY DEF CreateLinkProfile, UpdateLinkProfile, DeleteLinkProfile
  <1>3. profiles' \in [Nodes -> [Ids -> Maybe(ProfileRow)]]
    <2>1. CASE CreateLinkProfile(s) /\ now # Null
      BY <2>1 DEF CreateLinkProfile, TypeOK
    <2>2. CASE CreateLinkProfile(s) /\ now = Null
      <3> DEFINE row == [inbound_tag |-> job.tag, label |-> job.label,
                         created |-> requests]
      <3>1. profiles' = [profiles EXCEPT ![job.node][job.id] = row]
        BY <2>2 DEF CreateLinkProfile
      <3>2. row \in Maybe(ProfileRow)
        BY <1>1, <2>2 DEF JobOK, TypeOK, ProfileRow, Maybe, CreateLinkProfile, Stores
      <3> QED
        BY <1>1, <3>1, <3>2, ProfileWritten
    <2>3. CASE UpdateLinkProfile(s)
      <3>1. profiles' = [profiles EXCEPT ![job.node][job.id] = Updated(job, now)]
        BY <2>3 DEF UpdateLinkProfile
      <3>2. job.row \in ProfileRow
        BY <1>1, <2>3 DEF JobOK, UpdateLinkProfile, Stores
      <3>3. Updated(job, now) \in Maybe(ProfileRow)
        BY <1>1, <3>2, UpdatedIsRow
      <3> QED
        BY <1>1, <3>1, <3>3, ProfileWritten
    <2>4. CASE DeleteLinkProfile(s)
      <3>1. profiles' = [profiles EXCEPT ![job.node][job.id] = Null]
        BY <2>4 DEF DeleteLinkProfile
      <3>2. Null \in Maybe(ProfileRow)
        BY DEF Maybe
      <3> QED
        BY <1>1, <3>1, <3>2, ProfileWritten
    <2> QED
      BY <2>1, <2>2, <2>3, <2>4
  <1>4. JobsTyped'
    BY <1>2, EndStep
  <1> QED
    BY <1>2, <1>3, <1>4, StoreTypes, SamePage, SameCounters DEF TypeOK, PageStays

LEMMA AnswerTypes ==
    ASSUME TypeOK, NEW s \in Slots, TokenAnswer(s)
    PROVE  TypeOK'
  <1>1. jobs[s] \in Request /\ jobs[s].token \in Maybe(Nat)
    BY DEF TypeOK, Request
  <1>2. PageTyped'
    BY <1>1 DEF TokenAnswer, TypeOK, PageTyped
  <1>3. Ends(s) /\ UNCHANGED <<nodes, profiles, declared, counters>>
    BY DEF TokenAnswer
  <1>4. JobsTyped'
    BY <1>3, EndStep
  <1> QED
    BY <1>2, <1>3, <1>4, TypesFromParts, SameCounters

LEMMA PageTypes ==
    ASSUME TypeOK, NEW n \in Nodes,
           CloseDialog(n) \/ Reload(n) \/ ReloadFails(n) \/ Leave(n)
    PROVE  TypeOK'
  <1>1. UNCHANGED <<nodes, profiles, declared, jobs, unheard, minted, requests, deaths>>
        /\ giveUps' \in Nat
    BY DEF TypeOK, CloseDialog, Reload, ReloadFails, Leave, counters
  <1>2. Opened \in [minting : BOOLEAN, error : BOOLEAN, token : Maybe(Nat),
                    waits : SUBSET Slots]
    BY DEF Opened, Maybe
  <1>3. PageTyped'
    <2>1. CASE Leave(n)
      BY <1>1, <1>2, <2>1 DEF TypeOK, Leave, PageTyped
    <2>2. CASE CloseDialog(n)
      BY <1>1, <2>2 DEF TypeOK, CloseDialog, PageTyped, Maybe
    <2>3. CASE Reload(n)
      BY <1>1, <2>3 DEF TypeOK, Reload, PageTyped
    <2>4. CASE ReloadFails(n)
      BY <1>1, <2>4 DEF TypeOK, ReloadFails, PageTyped
    <2> QED
      BY <2>1, <2>2, <2>3, <2>4
  <1> QED
    BY <1>1, <1>3 DEF TypeOK, PageTyped

LEMMA BreakTypes ==
    ASSUME TypeOK, NEW s \in Slots, Break(s)
    PROVE  TypeOK'
  <1>1. NoAnswer(s) /\ UNCHANGED <<nodes, profiles, declared, jobs, minted, requests, deaths>>
        /\ giveUps' \in Nat
    BY DEF Break, TypeOK
  <1>2. PageTyped'
    BY <1>1, UnansweredTypes
  <1> QED
    BY <1>1, <1>2 DEF TypeOK, PageTyped

LEMMA DieTypes ==
    ASSUME TypeOK, NEW s \in Slots, Die(s)
    PROVE  TypeOK'
  <1>1. PageTyped' /\ Ends(s) /\ UNCHANGED <<nodes, profiles, declared>>
    BY FailStep DEF Die
  <1>2. JobsTyped'
    BY <1>1, EndStep
  <1>3. minted' \in Nat /\ requests' \in Nat /\ deaths' \in Nat /\ giveUps' \in Nat
    BY DEF Die, TypeOK
  <1> QED
    BY <1>1, <1>2, <1>3, TypesFromParts

LEMMA NextTypes == TypeOK /\ [Next]_vars => TypeOK'
  <1> SUFFICES ASSUME TypeOK, [Next]_vars PROVE TypeOK'
    OBVIOUS
  <1>1. ASSUME NEW s \in Slots, Statements(s) PROVE TypeOK'
    BY <1>1, GetNodeTypes, GetLinkProfileTypes, CreateNodeTypes, ReplaceNodeTypes,
       SetNodeConfigTypes, SetTokenHashTypes, SetReportedTypes, ProfileStoreTypes
    DEF Statements
  <1>2. CASE UNCHANGED vars
    BY <1>2 DEF vars, TypeOK
  <1> QED
    BY <1>1, <1>2, ArrivalsTypes, AnswerTypes, DieTypes, PageTypes, BreakTypes
    DEF Next

\* Rows, requests and the page keep their shape, and a request that stores has
\* read the row it merges with: no node row is ever deleted under a request.
THEOREM TypeCorrect == Spec => []TypeOK
  <1>1. Init => TypeOK
    <2> SUFFICES ASSUME Init PROVE TypeOK
      OBVIOUS
    <2>1. \A s \in Slots : jobs[s] = Free
      BY DEF Init
    <2>2. FoundNode(Free, nodes)
      BY DEF FoundNode, Free, NodeKinds
    <2>3. jobs \in [Slots -> Request] /\ \A s \in Slots : JobOK(jobs[s]) /\ FoundNode(jobs[s], nodes)
      BY <2>1, <2>2, FreeIsRequest DEF Init
    <2>4. PageTyped
      BY DEF Init, PageTyped, Opened, Maybe
    <2> QED
      BY <2>3, <2>4 DEF Init, TypeOK, PageTyped, Maybe
  <1> QED
    BY <1>1, NextTypes, PTL DEF Spec

-----------------------------------------------------------------------------
(* Who writes what.                                                        *)

NodeWriter(s) ==
    \/ CreateNode(s) \/ ReplaceNode(s) \/ SetNodeConfig(s) \/ SetTokenHash(s)
    \/ SetReportedAddress(s)

\* The rows change in no other statement.
LEMMA NodesWritten ==
    ASSUME Next, ~\E s \in Slots : NodeWriter(s)
    PROVE  nodes' = nodes
  <1>1. ASSUME NEW s \in Slots, Arrivals(s) PROVE nodes' = nodes
    BY <1>1
    DEF Arrivals, NodeCreate, NodeUpdate, SaveConfig, Mint, MintElsewhere, Enroll,
        LinkProfileIn, LinkProfileUpdate, LinkProfileDelete, Arrive
  <1>2. ASSUME NEW s \in Slots, Statements(s) PROVE nodes' = nodes
    BY <1>2
    DEF Statements, NodeWriter, GetNode, GetLinkProfile, CreateLinkProfile,
        UpdateLinkProfile, DeleteLinkProfile
  <1> QED
    BY <1>1, <1>2 DEF Next, TokenAnswer, Die, CloseDialog, Reload, ReloadFails, Leave, Break

\* A statement that writes to a node finds it there.
LEMMA Found ==
    ASSUME TypeOK, NEW s \in Slots,
           ReplaceNode(s) \/ SetNodeConfig(s) \/ SetTokenHash(s) \/ SetReportedAddress(s)
    PROVE  jobs[s].node \in Nodes /\ nodes[jobs[s].node] \in NodeRow
  <1>1. jobs[s].kind \in NodeKinds \ {"create-node"} /\ jobs[s].pc = "store"
    BY DEF ReplaceNode, SetNodeConfig, SetTokenHash, SetReportedAddress, Stores, At,
           NodeKinds
  <1> QED
    BY <1>1, OfJob DEF FoundNode, NodeKinds, Maybe

LEMMA StepColumns ==
    ASSUME TypeOK, Next, NEW n \in Nodes, nodes[n] # Null
    PROVE  /\ nodes'[n] # Null
           /\ Changes(n, "label") \/ Changes(n, "address") => \E s \in Slots : ReplaceNode(s)
           /\ Changes(n, "config") => \E s \in Slots : SetNodeConfig(s)
           /\ Changes(n, "token") => \E s \in Slots : SetTokenHash(s)
           /\ Changes(n, "reported") => \E s \in Slots : SetReportedAddress(s)
  <1>1. CASE ~\E s \in Slots : NodeWriter(s)
    BY <1>1, NodesWritten DEF Changes
  <1>2. ASSUME NEW s \in Slots, CreateNode(s) PROVE nodes'[n] = nodes[n]
    <2>1. jobs[s].node \in Nodes
      BY <1>2, OfJob DEF CreateNode, Stores, At
    <2> QED
      BY <1>2, <2>1 DEF CreateNode, TypeOK
  <1>3. ASSUME NEW s \in Slots, ReplaceNode(s)
        PROVE  nodes'[n] # Null /\ ~Changes(n, "config") /\ ~Changes(n, "token")
               /\ ~Changes(n, "reported")
    <2>1. Replaced(jobs[s], nodes[jobs[s].node]) \in NodeRow /\ jobs[s].node \in Nodes
      <3>1. jobs[s] \in Request /\ jobs[s].row \in NodeRow
        BY <1>3, OfJob DEF ReplaceNode, Stores, At, JobOK
      <3> QED
        BY <1>3, <3>1, Found, ReplacedIsRow DEF ReplaceNode
    <2>2. nodes' = [nodes EXCEPT ![jobs[s].node] = Replaced(jobs[s], nodes[jobs[s].node])]
      BY <1>3 DEF ReplaceNode
    <2>3. /\ Replaced(jobs[s], nodes[jobs[s].node]).config = nodes[jobs[s].node].config
          /\ Replaced(jobs[s], nodes[jobs[s].node]).token = nodes[jobs[s].node].token
          /\ Replaced(jobs[s], nodes[jobs[s].node]).reported = nodes[jobs[s].node].reported
      BY <1>3, Found DEF Replaced, NodeRow
    <2> QED
      BY <2>1, <2>2, <2>3, RowWritten DEF TypeOK, Changes
  <1>4. ASSUME NEW s \in Slots, SetNodeConfig(s)
        PROVE  nodes'[n] # Null /\ ~Changes(n, "label") /\ ~Changes(n, "address")
               /\ ~Changes(n, "token") /\ ~Changes(n, "reported")
    <2> DEFINE m == jobs[s].node
               row == [nodes[m] EXCEPT !.config = jobs[s].config]
    <2>1. m \in Nodes /\ nodes[m] \in NodeRow /\ jobs[s].config \in Configs
      BY <1>4, Found, OfJob DEF SetNodeConfig, Stores, At, JobOK
    <2>2. row \in NodeRow
      BY <2>1 DEF NodeRow, Maybe
    <2>3. nodes' = [nodes EXCEPT ![m] = row]
      BY <1>4 DEF SetNodeConfig
    <2>4. /\ row.label = nodes[m].label /\ row.address = nodes[m].address
          /\ row.token = nodes[m].token /\ row.reported = nodes[m].reported
      BY <2>1 DEF NodeRow
    <2> HIDE DEF row, m
    <2> QED
      BY <2>1, <2>2, <2>3, <2>4, RowWritten DEF TypeOK, Changes
  <1>5. ASSUME NEW s \in Slots, SetTokenHash(s)
        PROVE  nodes'[n] # Null /\ ~Changes(n, "label") /\ ~Changes(n, "address")
               /\ ~Changes(n, "config") /\ ~Changes(n, "reported")
    <2> DEFINE m == jobs[s].node
               row == [nodes[m] EXCEPT !.token = minted + 1]
    <2>1. m \in Nodes /\ nodes[m] \in NodeRow
      BY <1>5, Found DEF SetTokenHash
    <2> minted + 1 \in Nat
      BY DEF TypeOK
    <2>2. row \in NodeRow
      BY <2>1 DEF NodeRow, Maybe
    <2>3. nodes' = [nodes EXCEPT ![m] = row]
      BY <1>5 DEF SetTokenHash
    <2>4. /\ row.label = nodes[m].label /\ row.address = nodes[m].address
          /\ row.config = nodes[m].config /\ row.reported = nodes[m].reported
      BY <2>1 DEF NodeRow
    <2> HIDE DEF row, m
    <2> QED
      BY <2>1, <2>2, <2>3, <2>4, RowWritten DEF TypeOK, Changes
  <1>6. ASSUME NEW s \in Slots, SetReportedAddress(s)
        PROVE  nodes'[n] # Null /\ ~Changes(n, "label") /\ ~Changes(n, "address")
               /\ ~Changes(n, "config") /\ ~Changes(n, "token")
    <2> DEFINE m == jobs[s].node
               row == [nodes[m] EXCEPT !.reported = jobs[s].reported]
    <2>1. m \in Nodes /\ nodes[m] \in NodeRow /\ jobs[s].reported \in Reports
      BY <1>6, Found, OfJob DEF SetReportedAddress, Stores, At, JobOK
    <2>2. row \in NodeRow
      BY <2>1 DEF NodeRow, Maybe
    <2>3. nodes' = [nodes EXCEPT ![m] = row]
      BY <1>6 DEF SetReportedAddress
    <2>4. /\ row.label = nodes[m].label /\ row.address = nodes[m].address
          /\ row.config = nodes[m].config /\ row.token = nodes[m].token
      BY <2>1 DEF NodeRow
    <2> HIDE DEF row, m
    <2> QED
      BY <2>1, <2>2, <2>3, <2>4, RowWritten DEF TypeOK, Changes
  <1>7. CASE \E s \in Slots : CreateNode(s)
    BY <1>2, <1>7 DEF Changes
  <1>8. CASE \E s \in Slots : ReplaceNode(s)
    BY <1>3, <1>8
  <1>9. CASE \E s \in Slots : SetNodeConfig(s)
    BY <1>4, <1>9
  <1>10. CASE \E s \in Slots : SetTokenHash(s)
    BY <1>5, <1>10
  <1>11. CASE \E s \in Slots : SetReportedAddress(s)
    BY <1>6, <1>11
  <1> QED
    BY <1>1, <1>7, <1>8, <1>9, <1>10, <1>11 DEF NodeWriter

\* A node that appears is a new one, without config or token.
LEMMA NewNodes ==
    ASSUME TypeOK, Next, NEW n \in Nodes, nodes[n] = Null, nodes'[n] # Null
    PROVE  nodes'[n].config = Null /\ nodes'[n].token = Null
  <1>1. ASSUME NEW s \in Slots, NodeWriter(s), ~CreateNode(s) PROVE FALSE
    <2>1. jobs[s].node \in Nodes /\ nodes[jobs[s].node] # Null
      BY <1>1, Found, RowsAssumption DEF NodeWriter
    <2>2. nodes'[n] = nodes[n]
      BY <1>1, <2>1
      DEF NodeWriter, ReplaceNode, SetNodeConfig, SetTokenHash, SetReportedAddress, TypeOK
    <2> QED
      BY <2>2
  <1>2. ASSUME NEW s \in Slots, CreateNode(s)
        PROVE  nodes'[n].config = Null /\ nodes'[n].token = Null
    <2> DEFINE row == [label |-> jobs[s].label, address |-> jobs[s].address,
                       config |-> Null, token |-> Null, reported |-> Null]
    <2>1. jobs[s].node \in Nodes
      BY <1>2, OfJob DEF CreateNode, Stores, At
    <2>2. nodes' = nodes \/ nodes' = [nodes EXCEPT ![jobs[s].node] = row]
      BY <1>2 DEF CreateNode
    <2>3. nodes'[n] = row
      BY <2>1, <2>2 DEF TypeOK
    <2> QED
      BY <2>3
  <1> QED
    BY <1>1, <1>2, NodesWritten DEF NodeWriter

\* The admin's and the agent's columns are stored each by its own statement,
\* however many requests overlap, and a node never vanishes.
THEOREM ColumnsHaveOwners == Spec => ColumnOwners
  <1>1. TypeOK /\ [Next]_vars =>
          [\A n \in Nodes :
              /\ nodes[n] # Null => nodes'[n] # Null
              /\ Changes(n, "label") \/ Changes(n, "address") => \E s \in Slots : ReplaceNode(s)
              /\ Changes(n, "config") => \E s \in Slots : SetNodeConfig(s)
              /\ Changes(n, "token") => \E s \in Slots : SetTokenHash(s)
              /\ Changes(n, "reported") => \E s \in Slots : SetReportedAddress(s)]_vars
    BY StepColumns DEF Changes
  <1> QED
    BY <1>1, TypeCorrect, PTL DEF Spec, ColumnOwners

ProfileWriter(s) == CreateLinkProfile(s) \/ UpdateLinkProfile(s) \/ DeleteLinkProfile(s)

LEMMA ProfilesWritten ==
    ASSUME Next, ~\E s \in Slots : ProfileWriter(s)
    PROVE  profiles' = profiles
  <1>1. ASSUME NEW s \in Slots, Arrivals(s) PROVE profiles' = profiles
    BY <1>1
    DEF Arrivals, NodeCreate, NodeUpdate, SaveConfig, Mint, MintElsewhere, Enroll,
        LinkProfileIn, LinkProfileUpdate, LinkProfileDelete, Arrive
  <1>2. ASSUME NEW s \in Slots, Statements(s) PROVE profiles' = profiles
    BY <1>2
    DEF Statements, ProfileWriter, GetNode, GetLinkProfile, CreateNode, ReplaceNode,
        SetNodeConfig, SetTokenHash, SetReportedAddress
  <1> QED
    BY <1>1, <1>2 DEF Next, TokenAnswer, Die, CloseDialog, Reload, ReloadFails, Leave, Break

\* A request at a statement on profiles, and the row it finds.
LEMMA OfProfileWriter ==
    ASSUME TypeOK, NEW s \in Slots, ProfileWriter(s)
    PROVE  /\ jobs[s] \in Request /\ JobOK(jobs[s]) /\ jobs[s].pc = "store"
           /\ jobs[s].kind \in ProfileKinds
           /\ jobs[s].node \in Nodes /\ jobs[s].id \in Ids
           /\ profiles[jobs[s].node][jobs[s].id] \in Maybe(ProfileRow)
  BY OfJob
  DEF ProfileWriter, CreateLinkProfile, UpdateLinkProfile, DeleteLinkProfile, Stores,
      At, ProfileKinds, JobOK

\* Only a create makes a profile, however creates, updates and deletes of one
\* id overlap: an update does not bring a deleted row back, and leaves the
\* identity of the row it finds.
THEOREM OnlyCreates == Spec => OnlyCreatesMakeProfiles
  <1>1. TypeOK /\ [Next]_vars =>
          [\A n \in Nodes, i \in Ids :
             (/\ profiles'[n][i] # Null
              /\ profiles[n][i] = Null \/ profiles[n][i].created # profiles'[n][i].created)
                => \E s \in Slots : CreateLinkProfile(s) /\ profiles[n][i] = Null]_vars
    <2> SUFFICES ASSUME TypeOK, Next, NEW n \in Nodes, NEW i \in Ids,
                        profiles'[n][i] # Null,
                        profiles[n][i] = Null
                           \/ profiles[n][i].created # profiles'[n][i].created
                 PROVE  \E s \in Slots : CreateLinkProfile(s) /\ profiles[n][i] = Null
      OBVIOUS
    <2>1. PICK s \in Slots : ProfileWriter(s)
      BY ProfilesWritten
    <2> DEFINE m == jobs[s].node
               k == jobs[s].id
    <2>2. m \in Nodes /\ k \in Ids /\ profiles[m][k] \in Maybe(ProfileRow)
          /\ jobs[s] \in Request /\ JobOK(jobs[s]) /\ jobs[s].pc = "store"
      BY <2>1, OfProfileWriter
    <2>3. CASE CreateLinkProfile(s)
      <3>1. CASE profiles[m][k] # Null
        BY <2>3, <3>1 DEF CreateLinkProfile
      <3>2. CASE profiles[m][k] = Null
        <4> DEFINE row == [inbound_tag |-> jobs[s].tag, label |-> jobs[s].label,
                           created |-> requests]
        <4>1. profiles' = [profiles EXCEPT ![m][k] = row]
          BY <2>3, <3>2 DEF CreateLinkProfile
        <4>2. (n = m /\ i = k) \/ profiles'[n][i] = profiles[n][i]
          BY <2>2, <4>1 DEF TypeOK
        <4> QED
          BY <2>3, <3>2, <4>2
      <3> QED
        BY <3>1, <3>2
    <2>4. CASE UpdateLinkProfile(s)
      <3>1. profiles' = [profiles EXCEPT ![m][k] = Updated(jobs[s], profiles[m][k])]
        BY <2>4 DEF UpdateLinkProfile
      <3>2. jobs[s].row \in ProfileRow
        BY <2>2, <2>4 DEF JobOK, UpdateLinkProfile, Stores
      <3>3. MergedProfile(jobs[s]) \in ProfileRow
        BY <2>2, <3>2 DEF MergedProfile, Request, ProfileRow, Or, Maybe
      <3>4. profiles[m][k] = Null => Updated(jobs[s], profiles[m][k]) = Null
        BY DEF Updated
      <3>5. profiles[m][k] # Null =>
              Updated(jobs[s], profiles[m][k]).created = profiles[m][k].created
        BY <3>3 DEF Updated, ProfileRow
      <3>6. (n = m /\ i = k /\ profiles'[n][i] = Updated(jobs[s], profiles[m][k]))
              \/ profiles'[n][i] = profiles[n][i]
        BY <2>2, <3>1 DEF TypeOK
      <3> QED
        BY <3>4, <3>5, <3>6
    <2>5. CASE DeleteLinkProfile(s)
      <3>1. profiles' = [profiles EXCEPT ![m][k] = Null]
        BY <2>5 DEF DeleteLinkProfile
      <3>2. profiles'[n][i] = Null \/ profiles'[n][i] = profiles[n][i]
        BY <2>2, <3>1 DEF TypeOK
      <3> QED
        BY <3>2
    <2> QED
      BY <2>1, <2>3, <2>4, <2>5 DEF ProfileWriter
  <1> QED
    BY <1>1, TypeCorrect, PTL DEF Spec, OnlyCreatesMakeProfiles

-----------------------------------------------------------------------------
(* Profiles and the configs they were checked against.                     *)

\* Declared tags stay declared, so what was checked stays checked.
LEMMA DeclaredGrows ==
    ASSUME TypeOK, Next
    PROVE  \A n \in Nodes : declared[n] \subseteq declared'[n]
  <1>1. ASSUME NEW s \in Slots, Arrivals(s) PROVE declared' = declared
    BY <1>1
    DEF Arrivals, NodeCreate, NodeUpdate, SaveConfig, Mint, MintElsewhere, Enroll,
        LinkProfileIn, LinkProfileUpdate, LinkProfileDelete, Arrive
  <1>2. ASSUME NEW s \in Slots, SetNodeConfig(s)
        PROVE  \A n \in Nodes : declared[n] \subseteq declared'[n]
    BY <1>2 DEF SetNodeConfig, TypeOK
  <1>3. ASSUME NEW s \in Slots, Statements(s), ~SetNodeConfig(s) PROVE declared' = declared
    BY <1>3
    DEF Statements, GetNode, GetLinkProfile, CreateNode, ReplaceNode, SetTokenHash,
        SetReportedAddress, CreateLinkProfile, UpdateLinkProfile, DeleteLinkProfile
  <1> QED
    BY <1>1, <1>2, <1>3
    DEF Next, TokenAnswer, Die, CloseDialog, Reload, ReloadFails, Leave, Break

\* A request arrives to read its node first.
LEMMA ArrivesAtNode ==
    ASSUME NEW s \in Slots, Arrivals(s)
    PROVE  \E job : /\ Becomes(s, job) /\ job.pc = "node"
                    /\ Enroll(s) \/ job.kind # "enroll"
  <1>1. CASE NodeCreate(s)
    <2>1. PICK n \in Nodes, l \in Labels, a \in Addresses :
             jobs' = [jobs EXCEPT ![s] =
               [Free EXCEPT !.kind = "create-node", !.node = n, !.label = l,
                                   !.address = a]]
      BY <1>1 DEF NodeCreate, Arrive
    <2> DEFINE job == [Free EXCEPT !.kind = "create-node", !.node = n, !.label = l,
                                   !.address = a]
    <2>2. Becomes(s, job) /\ job.pc = "node" /\ job.kind # "enroll"
      BY <2>1 DEF Becomes, Free
    <2> HIDE DEF job
    <2> QED
      BY <2>2
  <1>2. CASE NodeUpdate(s)
    <2>1. PICK n \in Nodes, l \in Maybe(Labels), a \in Maybe(Addresses) :
             jobs' = [jobs EXCEPT ![s] =
               [Free EXCEPT !.kind = "update-node", !.node = n, !.label = l,
                                   !.address = a]]
      BY <1>2 DEF NodeUpdate, Arrive
    <2> DEFINE job == [Free EXCEPT !.kind = "update-node", !.node = n, !.label = l,
                                   !.address = a]
    <2>2. Becomes(s, job) /\ job.pc = "node" /\ job.kind # "enroll"
      BY <2>1 DEF Becomes, Free
    <2> HIDE DEF job
    <2> QED
      BY <2>2
  <1>3. CASE SaveConfig(s)
    <2>1. PICK n \in Nodes, c \in Configs :
             jobs' = [jobs EXCEPT ![s] =
               [Free EXCEPT !.kind = "save-config", !.node = n, !.config = c]]
      BY <1>3 DEF SaveConfig, Arrive
    <2> DEFINE job == [Free EXCEPT !.kind = "save-config", !.node = n, !.config = c]
    <2>2. Becomes(s, job) /\ job.pc = "node" /\ job.kind # "enroll"
      BY <2>1 DEF Becomes, Free
    <2> HIDE DEF job
    <2> QED
      BY <2>2
  <1>4. CASE Mint(s)
    <2>1. PICK n \in Nodes :
             jobs' = [jobs EXCEPT ![s] =
               [Free EXCEPT !.kind = "token", !.node = n]]
      BY <1>4 DEF Mint, Arrive
    <2> DEFINE job == [Free EXCEPT !.kind = "token", !.node = n]
    <2>2. Becomes(s, job) /\ job.pc = "node" /\ job.kind # "enroll"
      BY <2>1 DEF Becomes, Free
    <2> HIDE DEF job
    <2> QED
      BY <1>4, <2>2
  <1>5. CASE Enroll(s)
    <2>1. PICK n \in Nodes, t \in 1 .. minted, r \in Reports :
             Arrive(s, [Free EXCEPT !.kind = "enroll", !.node = n, !.token = t,
                              !.reported = r,
                              !.dead = nodes[n] = Null \/ nodes[n].token # t])
      BY <1>5 DEF Enroll
    <2> DEFINE job == [Free EXCEPT !.kind = "enroll", !.node = n, !.token = t,
                              !.reported = r,
                              !.dead = nodes[n] = Null \/ nodes[n].token # t]
    <2>2. job.pc = "node"
      BY DEF Free
    <2> HIDE DEF job
    <2>3. Becomes(s, job)
      BY <2>1 DEF Arrive, Becomes, job
    <2> QED
      BY <1>5, <2>2, <2>3
  <1>6. CASE LinkProfileIn(s)
    <2>1. PICK n \in Nodes, i \in Ids, t \in Tags, l \in Labels :
             jobs' = [jobs EXCEPT ![s] =
               [Free EXCEPT !.kind = "create-profile", !.node = n, !.id = i,
                                   !.tag = t, !.label = l]]
      BY <1>6 DEF LinkProfileIn, Arrive
    <2> DEFINE job == [Free EXCEPT !.kind = "create-profile", !.node = n, !.id = i,
                                   !.tag = t, !.label = l]
    <2>2. Becomes(s, job) /\ job.pc = "node" /\ job.kind # "enroll"
      BY <2>1 DEF Becomes, Free
    <2> HIDE DEF job
    <2> QED
      BY <2>2
  <1>7. CASE LinkProfileUpdate(s)
    <2>1. PICK n \in Nodes, i \in Ids, t \in Maybe(Tags), l \in Maybe(Labels) :
             jobs' = [jobs EXCEPT ![s] =
               [Free EXCEPT !.kind = "update-profile", !.node = n, !.id = i,
                                   !.tag = t, !.label = l]]
      BY <1>7 DEF LinkProfileUpdate, Arrive
    <2> DEFINE job == [Free EXCEPT !.kind = "update-profile", !.node = n, !.id = i,
                                   !.tag = t, !.label = l]
    <2>2. Becomes(s, job) /\ job.pc = "node" /\ job.kind # "enroll"
      BY <2>1 DEF Becomes, Free
    <2> HIDE DEF job
    <2> QED
      BY <2>2
  <1>8. CASE LinkProfileDelete(s)
    <2>1. PICK n \in Nodes, i \in Ids :
             jobs' = [jobs EXCEPT ![s] =
               [Free EXCEPT !.kind = "delete-profile", !.node = n, !.id = i]]
      BY <1>8 DEF LinkProfileDelete, Arrive
    <2> DEFINE job == [Free EXCEPT !.kind = "delete-profile", !.node = n, !.id = i]
    <2>2. Becomes(s, job) /\ job.pc = "node" /\ job.kind # "enroll"
      BY <2>1 DEF Becomes, Free
    <2> HIDE DEF job
    <2> QED
      BY <2>2
  <1>9. CASE MintElsewhere(s)
    <2>1. PICK n \in Nodes :
             jobs' = [jobs EXCEPT ![s] =
               [Free EXCEPT !.kind = "token", !.node = n]]
      BY <1>9 DEF MintElsewhere, Arrive
    <2> DEFINE job == [Free EXCEPT !.kind = "token", !.node = n]
    <2>2. Becomes(s, job) /\ job.pc = "node" /\ job.kind # "enroll"
      BY <2>1 DEF Becomes, Free
    <2> HIDE DEF job
    <2> QED
      BY <2>2
  <1> QED
    BY <1>1, <1>2, <1>3, <1>4, <1>5, <1>6, <1>7, <1>8, <1>9 DEF Arrivals

\* Every step leaves the requests of the other slots alone, and of a request
\* that has checked its tag it keeps the tag.
LEMMA StepChecks ==
    ASSUME TypeOK, DeclaredInv, Next, NEW r \in Slots
    PROVE  CheckedTag(jobs'[r], declared)
  <1>1. CheckedTag(jobs[r], declared)
    BY DEF DeclaredInv
  <1>2. CheckedTag(Free, declared)
    BY DEF CheckedTag, Free
  <1>3. ASSUME NEW s \in Slots, NEW job, Becomes(s, job), CheckedTag(job, declared)
        PROVE  CheckedTag(jobs'[r], declared)
    <2>1. jobs'[r] = job \/ jobs'[r] = jobs[r]
      BY <1>3 DEF Becomes, TypeOK
    <2> QED
      BY <1>1, <1>3, <2>1
  <1>4. ASSUME NEW s \in Slots, Ends(s) PROVE CheckedTag(jobs'[r], declared)
    BY <1>2, <1>3, <1>4 DEF Ends
  <1>6. ASSUME NEW s \in Slots, Arrivals(s) PROVE CheckedTag(jobs'[r], declared)
    <2>1. PICK job : Becomes(s, job) /\ job.pc = "node"
      BY <1>6, ArrivesAtNode
    <2>2. CheckedTag(job, declared)
      BY <2>1 DEF CheckedTag
    <2> QED
      BY <1>3, <2>1, <2>2
  <1>7. ASSUME NEW s \in Slots, GetNode(s) PROVE CheckedTag(jobs'[r], declared)
    <2> DEFINE job == jobs[s]
               row == nodes[job.node]
    <2>1. job \in Request /\ JobOK(job) /\ job.kind # "none" /\ job.node \in Nodes
      BY <1>7, OfJob DEF GetNode, At
    <2>2. CASE Refused(job, row) \/ Unneeded(job, row)
      BY <1>4, <1>7, <2>2 DEF GetNode, Fails
    <2>3. CASE ~Refused(job, row) /\ job.kind \in ProfileKinds
      <3> DEFINE next == [job EXCEPT !.pc = "profile"]
      <3>1. ~Unneeded(job, row)
        BY <2>3 DEF Unneeded, ProfileKinds
      <3>2. Becomes(s, next)
        BY <1>7, <2>3, <3>1 DEF GetNode
      <3>3. job.kind \in {"create-profile", "update-profile"} =>
              row # Null /\ Attaches(job, row)
        BY <2>3 DEF Refused
      <3>4. job.kind \in {"create-profile", "update-profile"} =>
              \/ job.kind = "update-profile" /\ job.tag = Null
              \/ job.tag \in declared[job.node]
        BY <2>1, <3>3 DEF Attaches, DeclaredInv
      <3>5. next.kind = job.kind /\ next.pc = "profile" /\ next.tag = job.tag
            /\ next.node = job.node
        BY <2>1 DEF Request
      <3>6. CheckedTag(next, declared)
        BY <3>4, <3>5 DEF CheckedTag
      <3> HIDE DEF next
      <3> QED
        BY <1>3, <3>2, <3>6
    <2>4. CASE ~Refused(job, row) /\ ~Unneeded(job, row) /\ job.kind \notin ProfileKinds
      <3> DEFINE next == [job EXCEPT !.pc = "store", !.row = row]
      <3>1. Becomes(s, next)
        BY <1>7, <2>4 DEF GetNode
      <3>2. next.kind = job.kind
        BY <2>1 DEF Request
      <3>3. CheckedTag(next, declared)
        BY <2>4, <3>2 DEF CheckedTag, ProfileKinds
      <3> HIDE DEF next
      <3> QED
        BY <1>3, <3>1, <3>3
    <2> QED
      BY <2>2, <2>3, <2>4
  <1>8. ASSUME NEW s \in Slots, GetLinkProfile(s) PROVE CheckedTag(jobs'[r], declared)
    <2> DEFINE job == jobs[s]
               row == profiles[job.node][job.id]
               next == [job EXCEPT !.pc = "store", !.row = row]
    <2>1. /\ job \in Request /\ JobOK(job) /\ job.kind \in ProfileKinds
          /\ job.node \in Nodes /\ job.id \in Ids /\ job.pc = "profile"
          /\ CheckedTag(job, declared)
      BY <1>8, OfJob DEF GetLinkProfile, At, JobOK, DeclaredInv
    <2>2. CASE (job.kind = "create-profile") # (row = Null)
      BY <1>8, <1>4, <2>2 DEF GetLinkProfile, Ends
    <2>3. CASE ~((job.kind = "create-profile") # (row = Null))
      <3>1. Becomes(s, next)
        BY <1>8, <2>3 DEF GetLinkProfile
      <3>2. next.kind = job.kind /\ next.pc = "store" /\ next.tag = job.tag
            /\ next.node = job.node /\ next.row = row
        BY <2>1 DEF Request
      <3>3. row # Null => row.inbound_tag \in declared[job.node]
        BY <2>1 DEF DeclaredInv, ProfilesNameDeclared
      <3>4. CheckedTag(next, declared)
        BY <2>1, <2>3, <3>2, <3>3 DEF CheckedTag
      <3> HIDE DEF next
      <3> QED
        BY <1>3, <3>1, <3>4
    <2> QED
      BY <2>2, <2>3
  <1>9. ASSUME NEW s \in Slots, SetTokenHash(s) PROVE CheckedTag(jobs'[r], declared)
    <2> DEFINE next == [jobs[s] EXCEPT !.pc = "answer", !.token = minted + 1]
    <2>1. jobs[s] \in Request /\ jobs[s].kind = "token" /\ Becomes(s, next)
      BY <1>9 DEF SetTokenHash, Stores, TypeOK
    <2>2. next.kind = "token"
      BY <2>1 DEF Request
    <2>3. CheckedTag(next, declared)
      BY <2>2 DEF CheckedTag
    <2> HIDE DEF next
    <2> QED
      BY <1>3, <2>1, <2>3
  <1>10. CASE jobs' = jobs
    BY <1>1, <1>10
  <1> QED
    BY <1>4, <1>6, <1>7, <1>8, <1>9, <1>10
    DEF Next, Statements, CreateNode, ReplaceNode, SetNodeConfig, SetReportedAddress,
        CreateLinkProfile, UpdateLinkProfile, DeleteLinkProfile, TokenAnswer, Die, Fails,
        CloseDialog, Reload, ReloadFails, Leave, Break

LEMMA DeclaredStep == TypeOK /\ DeclaredInv /\ [Next]_vars => DeclaredInv'
  <1> SUFFICES ASSUME TypeOK, DeclaredInv, [Next]_vars PROVE DeclaredInv'
    OBVIOUS
  <1>1. CASE UNCHANGED vars
    BY <1>1 DEF vars, DeclaredInv, ProfilesNameDeclared, CheckedTag
  <1>2. CASE Next
    <2>1. TypeOK' /\ \A n \in Nodes : declared[n] \subseteq declared'[n]
      BY <1>2, DeclaredGrows, NextTypes
    <2>2. ASSUME NEW r \in Slots PROVE CheckedTag(jobs'[r], declared')
      <3>1. CheckedTag(jobs'[r], declared)
        BY <1>2, StepChecks
      <3>2. jobs'[r].kind \in ProfileKinds => jobs'[r].node \in Nodes
        BY <2>1 DEF TypeOK, JobOK, ProfileKinds
      <3> QED
        BY <2>1, <3>1, <3>2 DEF CheckedTag, ProfileKinds
    <2>3. ASSUME NEW n \in Nodes, nodes'[n] # Null, nodes'[n].config # Null
          PROVE  nodes'[n].config \subseteq declared'[n]
      <3>1. CASE \E s \in Slots : SetNodeConfig(s)
        <4>1. PICK s \in Slots : SetNodeConfig(s)
          BY <3>1
        <4> DEFINE m == jobs[s].node
        <4>2. m \in Nodes /\ nodes[m] \in NodeRow
          BY <4>1, Found
        <4>3. /\ nodes' = [nodes EXCEPT ![m] = [nodes[m] EXCEPT !.config = jobs[s].config]]
              /\ declared' = [declared EXCEPT ![m] = @ \cup jobs[s].config]
          BY <4>1 DEF SetNodeConfig
        <4>4. CASE n = m
          <5>1. nodes'[n].config = jobs[s].config
            BY <4>2, <4>3, <4>4 DEF TypeOK, NodeRow
          <5>2. declared'[n] = declared[n] \cup jobs[s].config
            BY <4>3, <4>4 DEF TypeOK
          <5> QED
            BY <5>1, <5>2
        <4>5. CASE n # m
          BY <2>3, <4>3, <4>5 DEF TypeOK, DeclaredInv
        <4> QED
          BY <4>4, <4>5
      <3>2. CASE ~\E s \in Slots : SetNodeConfig(s)
        <4>1. nodes[n] # Null => nodes'[n].config = nodes[n].config
          BY <1>2, <3>2, StepColumns DEF Changes
        <4>2. nodes[n] = Null => nodes'[n].config = Null
          BY <1>2, <2>3, NewNodes
        <4> QED
          BY <2>1, <2>3, <4>1, <4>2 DEF DeclaredInv
      <3> QED
        BY <3>1, <3>2
    <2>4. ASSUME NEW n \in Nodes, NEW i \in Ids, profiles'[n][i] # Null
          PROVE  profiles'[n][i].inbound_tag \in declared'[n]
      <3>1. CASE profiles'[n][i] = profiles[n][i]
        BY <2>1, <2>4, <3>1 DEF DeclaredInv, ProfilesNameDeclared
      <3>2. CASE profiles'[n][i] # profiles[n][i]
        <4>1. PICK s \in Slots : ProfileWriter(s)
          BY <1>2, <3>2, ProfilesWritten
        <4> DEFINE m == jobs[s].node
                   k == jobs[s].id
        <4>2. /\ m \in Nodes /\ k \in Ids /\ profiles[m][k] \in Maybe(ProfileRow)
              /\ jobs[s] \in Request /\ JobOK(jobs[s]) /\ jobs[s].pc = "store"
              /\ CheckedTag(jobs[s], declared)
          BY <4>1, OfProfileWriter DEF DeclaredInv
        <4>3. CASE CreateLinkProfile(s)
          <5> DEFINE row == [inbound_tag |-> jobs[s].tag, label |-> jobs[s].label,
                             created |-> requests]
          <5>1. profiles' = [profiles EXCEPT ![m][k] = row]
            BY <3>2, <4>3 DEF CreateLinkProfile
          <5>2. n = m /\ profiles'[n][i].inbound_tag = jobs[s].tag
            BY <3>2, <4>2, <5>1 DEF TypeOK
          <5>3. jobs[s].tag \in declared[m]
            BY <4>2, <4>3 DEF CheckedTag, CreateLinkProfile, Stores
          <5> QED
            BY <2>1, <5>2, <5>3
        <4>4. CASE UpdateLinkProfile(s)
          <5> DEFINE row == MergedProfile(jobs[s])
          <5>1. profiles' = [profiles EXCEPT ![m][k] = Updated(jobs[s], profiles[m][k])]
            BY <4>4 DEF UpdateLinkProfile
          <5>2. n = m /\ profiles'[n][i] = Updated(jobs[s], profiles[m][k])
            BY <3>2, <4>2, <5>1 DEF TypeOK
          <5>3. jobs[s].row \in ProfileRow
            BY <4>2, <4>4 DEF JobOK, UpdateLinkProfile, Stores
          <5>4. row \in ProfileRow /\ row.inbound_tag = Or(jobs[s].tag, jobs[s].row.inbound_tag)
            BY <4>2, <5>3 DEF MergedProfile, Request, ProfileRow, Or, Maybe
          <5>5. profiles'[n][i].inbound_tag = row.inbound_tag
            BY <2>4, <5>2, <5>4 DEF Updated, ProfileRow
          <5>6. Or(jobs[s].tag, jobs[s].row.inbound_tag) \in declared[m]
            BY <4>2, <4>4 DEF CheckedTag, UpdateLinkProfile, Stores, Or
          <5> QED
            BY <2>1, <5>2, <5>4, <5>5, <5>6
        <4>5. CASE DeleteLinkProfile(s)
          BY <2>4, <3>2, <4>2, <4>5 DEF DeleteLinkProfile, TypeOK
        <4> QED
          BY <4>1, <4>3, <4>4, <4>5 DEF ProfileWriter
      <3> QED
        BY <3>1, <3>2
    <2> QED
      BY <2>2, <2>3, <2>4 DEF DeclaredInv, ProfilesNameDeclared
  <1> QED
    BY <1>1, <1>2

\* A stored profile names an inbound that some config of its node has declared,
\* however many requests overlap.
THEOREM ProfilesNamed == Spec => []ProfilesNameDeclared
  <1>1. Init => DeclaredInv
    BY DEF Init, DeclaredInv, ProfilesNameDeclared, CheckedTag, Free
  <1>2. DeclaredInv => ProfilesNameDeclared
    BY DEF DeclaredInv
  <1> QED
    BY <1>1, <1>2, DeclaredStep, TypeCorrect, PTL DEF Spec

-----------------------------------------------------------------------------
(* Tokens.                                                                 *)

\* Minting counts up, and what it stores is the number it has reached.
LEMMA TokensGrow ==
    ASSUME TypeOK, Next
    PROVE  /\ minted \in Nat /\ minted' \in Nat /\ minted <= minted'
           /\ \A n \in Nodes : (nodes[n] # Null /\ Changes(n, "token")) =>
                 nodes'[n].token = minted + 1
  <1>1. ASSUME NEW s \in Slots, Arrivals(s) PROVE minted' = minted
    BY <1>1
    DEF Arrivals, NodeCreate, NodeUpdate, SaveConfig, Mint, MintElsewhere, Enroll,
        LinkProfileIn, LinkProfileUpdate, LinkProfileDelete, Arrive
  <1>2. ASSUME NEW s \in Slots, Statements(s), ~SetTokenHash(s) PROVE minted' = minted
    BY <1>2
    DEF Statements, GetNode, GetLinkProfile, CreateNode, ReplaceNode, SetNodeConfig,
        SetReportedAddress, CreateLinkProfile, UpdateLinkProfile, DeleteLinkProfile,
        counters
  <1>3. ASSUME NEW s \in Slots, SetTokenHash(s) PROVE minted' = minted + 1
    BY <1>3 DEF SetTokenHash
  <1>4. (\E s \in Slots : SetTokenHash(s)) \/ minted' = minted
    BY <1>1, <1>2
    DEF Next, TokenAnswer, Die, CloseDialog, Reload, ReloadFails, Leave, Break, counters
  <1>5. minted \in Nat
    BY DEF TypeOK
  <1>6. ASSUME NEW n \in Nodes, nodes[n] # Null, Changes(n, "token")
        PROVE  nodes'[n].token = minted + 1
    <2>1. PICK s \in Slots : SetTokenHash(s)
      BY <1>6, StepColumns
    <2> DEFINE m == jobs[s].node
    <2>2. m \in Nodes /\ nodes[m] \in NodeRow
      BY <2>1, Found
    <2>3. nodes' = [nodes EXCEPT ![m] = [nodes[m] EXCEPT !.token = minted + 1]]
      BY <2>1 DEF SetTokenHash
    <2>4. n = m
      BY <1>6, <2>2, <2>3 DEF Changes, TypeOK
    <2>5. nodes'[n] = [nodes[m] EXCEPT !.token = minted + 1]
      BY <2>2, <2>3, <2>4 DEF TypeOK
    <2> QED
      BY <2>2, <2>5 DEF NodeRow
  <1> QED
    BY <1>3, <1>4, <1>5, <1>6

\* What an enroll under way was a moment before.
LEMMA EnrollSteps ==
    ASSUME TypeOK, Next, NEW r \in Slots, jobs'[r].kind = "enroll"
    PROVE  \/ jobs'[r] = jobs[r]
           \/ Enroll(r)
           \/ /\ GetNode(r) /\ jobs[r].kind = "enroll"
              /\ ~Refused(jobs[r], nodes[jobs[r].node])
              /\ jobs'[r] = [jobs[r] EXCEPT !.pc = "store", !.row = nodes[jobs[r].node]]
  <1>1. ASSUME NEW s \in Slots, NEW job, Becomes(s, job), job.kind # "enroll"
        PROVE  jobs'[r] = jobs[r]
    BY <1>1 DEF Becomes, TypeOK
  <1>2. ASSUME NEW s \in Slots, Ends(s) PROVE jobs'[r] = jobs[r]
    BY <1>1, <1>2 DEF Ends, Free
  <1>3. ASSUME NEW s \in Slots, Arrivals(s), ~Enroll(s) PROVE jobs'[r] = jobs[r]
    BY <1>1, <1>3, ArrivesAtNode
  <1>4. ASSUME NEW s \in Slots, Enroll(s) PROVE Enroll(r) \/ jobs'[r] = jobs[r]
    <2>1. \A q \in Slots : q # s => jobs'[q] = jobs[q]
      BY <1>4 DEF Enroll, Arrive, TypeOK
    <2> QED
      BY <1>4, <2>1
  <1>5. ASSUME NEW s \in Slots, GetNode(s)
        PROVE  \/ jobs'[r] = jobs[r]
               \/ /\ GetNode(r) /\ jobs[r].kind = "enroll"
                  /\ ~Refused(jobs[r], nodes[jobs[r].node])
                  /\ jobs'[r] = [jobs[r] EXCEPT !.pc = "store", !.row = nodes[jobs[r].node]]
    <2> DEFINE job == jobs[s]
               row == nodes[job.node]
    <2>1. job \in Request
      BY DEF TypeOK
    <2>2. CASE Refused(job, row) \/ Unneeded(job, row)
      BY <1>2, <1>5, <2>2 DEF GetNode, Fails
    <2>3. CASE ~Refused(job, row) /\ ~Unneeded(job, row) /\ job.kind \in ProfileKinds
      <3> DEFINE next == [job EXCEPT !.pc = "profile"]
      <3>1. Becomes(s, next) /\ next.kind = job.kind
        BY <1>5, <2>1, <2>3 DEF GetNode, Request
      <3>2. next.kind # "enroll"
        BY <2>3, <3>1 DEF ProfileKinds
      <3> HIDE DEF next
      <3> QED
        BY <1>1, <3>1, <3>2
    <2>4. CASE ~Refused(job, row) /\ ~Unneeded(job, row) /\ job.kind \notin ProfileKinds
      <3> DEFINE next == [job EXCEPT !.pc = "store", !.row = row]
      <3>1. Becomes(s, next) /\ next.kind = job.kind
        BY <1>5, <2>1, <2>4 DEF GetNode, Request
      <3>2. jobs'[r] = IF r = s THEN next ELSE jobs[r]
        BY <3>1 DEF Becomes, TypeOK
      <3> QED
        BY <1>5, <2>4, <3>1, <3>2
    <2> QED
      BY <2>2, <2>3, <2>4
  <1>6. ASSUME NEW s \in Slots, GetLinkProfile(s) PROVE jobs'[r] = jobs[r]
    <2> DEFINE next == [jobs[s] EXCEPT !.pc = "store",
                                       !.row = profiles[jobs[s].node][jobs[s].id]]
    <2>1. jobs[s].kind \in ProfileKinds /\ jobs[s] \in Request
      BY <1>6 DEF GetLinkProfile, At, TypeOK, JobOK
    <2>2. Ends(s) \/ Becomes(s, next)
      BY <1>6 DEF GetLinkProfile, Ends, Becomes
    <2>3. next.kind # "enroll"
      BY <2>1 DEF Request, ProfileKinds
    <2> HIDE DEF next
    <2> QED
      BY <1>1, <1>2, <2>2, <2>3
  <1>7. ASSUME NEW s \in Slots, SetTokenHash(s) PROVE jobs'[r] = jobs[r]
    <2> DEFINE next == [jobs[s] EXCEPT !.pc = "answer", !.token = minted + 1]
    <2>1. jobs[s] \in Request /\ jobs[s].kind = "token" /\ Becomes(s, next)
      BY <1>7 DEF SetTokenHash, Stores, TypeOK
    <2>2. next.kind # "enroll"
      BY <2>1 DEF Request
    <2> HIDE DEF next
    <2> QED
      BY <1>1, <2>1, <2>2
  <1> QED
    BY <1>2, <1>3, <1>4, <1>5, <1>6, <1>7
    DEF Next, Statements, CreateNode, ReplaceNode, SetNodeConfig, SetReportedAddress,
        CreateLinkProfile, UpdateLinkProfile, DeleteLinkProfile, TokenAnswer, Die, Fails,
        CloseDialog, Reload, ReloadFails, Leave, Break

LEMMA TokensStep == TypeOK /\ TokensInv /\ [Next]_vars => TokensInv'
  <1> SUFFICES ASSUME TypeOK, TokensInv, [Next]_vars PROVE TokensInv'
    OBVIOUS
  <1>1. CASE UNCHANGED vars
    BY <1>1 DEF vars, TokensInv
  <1>2. CASE Next
    <2> SUFFICES ASSUME NEW r \in Slots, jobs'[r].kind = "enroll"
                 PROVE  /\ jobs'[r].token \in 1 .. minted'
                        /\ jobs'[r].dead =>
                              /\ jobs'[r].pc = "node"
                              /\ nodes'[jobs'[r].node] = Null
                                 \/ nodes'[jobs'[r].node].token # jobs'[r].token
      BY DEF TokensInv
    <2>1. minted \in Nat /\ minted' \in Nat /\ minted <= minted'
      BY <1>2, TokensGrow
    <2>2. CASE jobs'[r] = jobs[r]
      <3> DEFINE n == jobs[r].node
                 t == jobs[r].token
      <3>1. n \in Nodes /\ t \in 1 .. minted
        BY <2>2, OfJob DEF TokensInv
      <3>2. t \in Nat /\ t # Null /\ t # minted + 1 /\ t \in 1 .. minted'
        BY <2>1, <3>1, NodesAssumption
      <3>3. jobs[r].dead => /\ jobs[r].pc = "node"
                            /\ nodes[n] = Null \/ nodes[n].token # t
        BY <2>2 DEF TokensInv
      <3>4. ASSUME jobs[r].dead PROVE nodes'[n] = Null \/ nodes'[n].token # t
        <4>1. CASE nodes[n] = Null
          BY <1>2, <3>1, <3>2, <4>1, NewNodes
        <4>2. CASE nodes[n] # Null
          <5>1. nodes'[n].token = nodes[n].token \/ nodes'[n].token = minted + 1
            BY <1>2, <3>1, <4>2, TokensGrow DEF Changes
          <5> QED
            BY <3>2, <3>3, <3>4, <4>2, <5>1
        <4> QED
          BY <4>1, <4>2
      <3> QED
        BY <2>2, <3>2, <3>3, <3>4
    <2>3. CASE Enroll(r)
      <3>1. PICK n \in Nodes, t \in 1 .. minted, a \in Reports :
               Arrive(r, [Free EXCEPT !.kind = "enroll", !.node = n, !.token = t,
                              !.reported = a,
                              !.dead = nodes[n] = Null \/ nodes[n].token # t])
        BY <2>3 DEF Enroll
      <3> DEFINE job == [Free EXCEPT !.kind = "enroll", !.node = n, !.token = t,
                              !.reported = a,
                              !.dead = nodes[n] = Null \/ nodes[n].token # t]
      <3>2. /\ job.token = t /\ job.pc = "node" /\ job.node = n
            /\ job.dead = (nodes[n] = Null \/ nodes[n].token # t)
        BY DEF Free
      <3> HIDE DEF job
      <3>3. jobs'[r] = job /\ nodes' = nodes /\ minted' = minted
        BY <3>1 DEF Arrive, TypeOK, job
      <3> QED
        BY <3>2, <3>3
    <2>4. CASE /\ GetNode(r) /\ jobs[r].kind = "enroll"
               /\ ~Refused(jobs[r], nodes[jobs[r].node])
               /\ jobs'[r] = [jobs[r] EXCEPT !.pc = "store", !.row = nodes[jobs[r].node]]
      <3>1. jobs'[r].dead = jobs[r].dead /\ jobs'[r].token = jobs[r].token
        BY <2>4 DEF TypeOK, Request
      <3>2. jobs[r].token \in 1 .. minted
        BY <2>4 DEF TokensInv
      <3>3. /\ nodes[jobs[r].node] # Null
            /\ nodes[jobs[r].node].token = jobs[r].token
        BY <2>4 DEF Refused, VerifyToken
      <3>4. ~jobs[r].dead
        BY <2>4, <3>3 DEF TokensInv
      <3> QED
        BY <2>1, <3>1, <3>2, <3>4
    <2> QED
      BY <1>2, <2>2, <2>3, <2>4, EnrollSteps
  <1> QED
    BY <1>1, <1>2

\* "rotation invalidates immediately": however many rotations and enrolls
\* overlap, an enroll is let through only if its token was still the node's
\* when it arrived.
THEOREM RotationImmediate == Spec => []RotationIsImmediate
  <1>1. Init => TokensInv
    BY DEF Init, TokensInv, Free
  <1>2. TokensInv => RotationIsImmediate
    BY DEF TokensInv, RotationIsImmediate
  <1> QED
    BY <1>1, <1>2, TokensStep, TypeCorrect, PTL DEF Spec

-----------------------------------------------------------------------------
(* The token the page shows.                                               *)

\* A step that leaves the page of a node alone, and of the mint it waits for
\* keeps whether it has an answer.
LEMMA SameMint ==
    ASSUME TypeOK, NEW n \in Nodes, OneMint(n), page'[n] = page[n],
           \A r \in page[n].waits :
              /\ jobs'[r].kind = jobs[r].kind /\ jobs'[r].node = jobs[r].node
              /\ jobs'[r].pc = "answer" <=> jobs[r].pc = "answer"
              /\ jobs'[r].pc = "answer" => jobs'[r].token = jobs[r].token,
           nodes[n] # Null =>
              nodes'[n] # Null /\ (nodes'[n].token = nodes[n].token \/ unheard'[n]),
           unheard[n] => unheard'[n]
    PROVE  OneMint(n)'
  <1>1. \A s \in page'[n].waits : jobs'[s].kind = "token" /\ jobs'[s].node = n
    BY DEF OneMint
  <1>2. ASSUME NEW s \in page'[n].waits, jobs'[s].pc = "answer"
        PROVE  nodes'[n].token = jobs'[s].token \/ unheard'[n]
    <2>1. s \in Slots /\ s \in page[n].waits
      BY <1>2 DEF TypeOK
    <2>2. /\ jobs[s].pc = "answer" /\ jobs'[s].token = jobs[s].token
          /\ jobs[s].kind = "token" /\ jobs[s].node = n
      BY <1>2, <2>1 DEF OneMint
    <2>3. nodes[n] # Null
      BY <2>1, <2>2 DEF TypeOK, FoundNode, NodeKinds
    <2> QED
      BY <2>1, <2>2, <2>3 DEF OneMint
  <1>3. /\ \A r, s \in page'[n].waits : r = s
        /\ page'[n].minting <=> page'[n].waits # {}
    BY DEF OneMint
  <1>4. Shows(n)'
    BY DEF OneMint, Shows
  <1> QED
    BY <1>1, <1>2, <1>3, <1>4 DEF OneMint

\* A request the page does not wait for goes on, or ends, without the page.
LEMMA NoMint ==
    ASSUME TypeOK, NEW n \in Nodes, OneMint(n), NEW s \in Slots, NEW job,
           Becomes(s, job), s \notin page[n].waits, page' = page,
           nodes[n] # Null =>
              nodes'[n] # Null /\ (nodes'[n].token = nodes[n].token \/ unheard'[n]),
           unheard[n] => unheard'[n]
    PROVE  OneMint(n)'
  <1>1. page[n].waits \subseteq Slots
    BY DEF TypeOK
  <1>2. \A r \in page[n].waits : jobs'[r] = jobs[r]
    BY <1>1 DEF Becomes, TypeOK
  <1> QED
    BY <1>2, SameMint

\* The page stops waiting for a mint that has no answer: if it had stored its
\* hash, the token the node has is one the page never heard of.
LEMMA UnansweredMint ==
    ASSUME TypeOK, NEW n \in Nodes, OneMint(n), NEW s \in Slots, NoAnswer(s),
           nodes' = nodes, \A r \in Slots \ {s} : jobs'[r] = jobs[r]
    PROVE  OneMint(n)'
  <1>1. unheard'[n] = (unheard[n] \/ (s \in page[n].waits /\ jobs[s].pc = "answer"))
    BY DEF NoAnswer, TypeOK
  <1>2. CASE s \notin page[n].waits
    <2>1. page'[n] = page[n]
      BY <1>2 DEF NoAnswer, TypeOK
    <2>2. \A r \in page[n].waits : jobs'[r] = jobs[r]
      BY <1>2 DEF TypeOK
    <2> QED
      BY <1>1, <2>1, <2>2, SameMint
  <1>3. CASE s \in page[n].waits
    <2>1. page[n].waits = {s}
      BY <1>3 DEF OneMint
    <2>2. page'[n] = [page[n] EXCEPT !.minting = FALSE, !.error = TRUE, !.waits = @ \ {s}]
      BY <1>3 DEF NoAnswer
    <2>3. /\ page'[n].waits = {} /\ page'[n].minting = FALSE
          /\ page'[n].token = page[n].token
      BY <2>1, <2>2 DEF TypeOK
    <2>4. nodes[n] # Null \/ jobs[s].pc # "answer"
      BY <1>3 DEF OneMint, TypeOK, FoundNode, NodeKinds
    <2>5. Shows(n)'
      BY <1>1, <1>3, <2>1, <2>3, <2>4 DEF OneMint, Shows
    <2> QED
      BY <2>3, <2>5 DEF OneMint
  <1> QED
    BY <1>2, <1>3

LEMMA FailedMint ==
    ASSUME TypeOK, NEW n \in Nodes, OneMint(n), NEW s \in Slots, Fails(s), nodes' = nodes
    PROVE  OneMint(n)'
  <1>1. \A r \in Slots \ {s} : jobs'[r] = jobs[r]
    BY DEF Fails, Ends, Becomes, TypeOK
  <1> QED
    BY <1>1, UnansweredMint DEF Fails

LEMMA AnsweredMint ==
    ASSUME TypeOK, NEW n \in Nodes, OneMint(n), NEW s \in Slots, TokenAnswer(s)
    PROVE  OneMint(n)'
  <1>1. /\ jobs[s].pc = "answer" /\ nodes' = nodes /\ unheard' = unheard
        /\ \A r \in Slots \ {s} : jobs'[r] = jobs[r]
    BY DEF TokenAnswer, At, Ends, Becomes, TypeOK
  <1>2. CASE s \notin page[n].waits
    <2>1. page'[n] = page[n]
      BY <1>2 DEF TokenAnswer, TypeOK
    <2>2. \A r \in page[n].waits : jobs'[r] = jobs[r]
      BY <1>1, <1>2 DEF TypeOK
    <2> QED
      BY <1>1, <2>1, <2>2, SameMint
  <1>3. CASE s \in page[n].waits
    <2>1. page[n].waits = {s}
      BY <1>3 DEF OneMint
    <2>2. page'[n] = [page[n] EXCEPT !.minting = FALSE, !.token = jobs[s].token,
                                     !.waits = @ \ {s}]
      BY <1>3 DEF TokenAnswer
    <2>3. /\ page'[n].waits = {} /\ page'[n].minting = FALSE
          /\ page'[n].token = jobs[s].token
      BY <2>1, <2>2 DEF TypeOK
    <2>4. nodes[n] # Null /\ (nodes[n].token = jobs[s].token \/ unheard[n])
      BY <1>1, <1>3 DEF OneMint, TypeOK, FoundNode, NodeKinds
    <2>5. Shows(n)'
      BY <1>1, <2>3, <2>4 DEF Shows
    <2> QED
      BY <2>3, <2>5 DEF OneMint
  <1> QED
    BY <1>2, <1>3

LEMMA StartedMint ==
    ASSUME TypeOK, NEW n \in Nodes, OneMint(n), NEW s \in Slots, Mint(s)
    PROVE  OneMint(n)'
  <1>1. PICK m \in Nodes :
           /\ ~page[m].minting
           /\ jobs[s].kind = "none"
           /\ jobs' = [jobs EXCEPT ![s] = [Free EXCEPT !.kind = "token", !.node = m]]
           /\ page' = [page EXCEPT ![m].minting = TRUE, ![m].waits = @ \cup {s}]
           /\ nodes' = nodes /\ unheard' = unheard
    BY DEF Mint, Arrive, MintReady
  <1> DEFINE job == [Free EXCEPT !.kind = "token", !.node = m]
  <1>2. job.kind = "token" /\ job.node = m /\ job.pc = "node"
    BY DEF Free
  <1>3. \A r \in Slots : jobs'[r] = IF r = s THEN job ELSE jobs[r]
    BY <1>1 DEF TypeOK
  <1> HIDE DEF job
  <1>4. CASE n # m
    <2>1. page'[n] = page[n]
      BY <1>1, <1>4 DEF TypeOK
    <2>2. page[n].waits \subseteq Slots /\ s \notin page[n].waits
      BY <1>1 DEF OneMint, TypeOK
    <2>3. \A r \in page[n].waits : jobs'[r] = jobs[r]
      BY <1>3, <2>2
    <2> QED
      BY <1>1, <2>1, <2>3, SameMint
  <1>5. CASE n = m
    <2>1. page[n].waits = {}
      BY <1>1, <1>5 DEF OneMint
    <2>2. /\ page'[n].waits = {s} /\ page'[n].minting = TRUE
          /\ page'[n].token = page[n].token
      BY <1>1, <1>5, <2>1 DEF TypeOK
    <2>3. jobs'[s].kind = "token" /\ jobs'[s].node = n /\ jobs'[s].pc = "node"
      BY <1>2, <1>3, <1>5
    <2>4. Shows(n)'
      BY <1>1, <2>1, <2>2 DEF OneMint, Shows
    <2> QED
      BY <2>2, <2>3, <2>4 DEF OneMint
  <1> QED
    BY <1>4, <1>5

\* The hash is written: by the mint the page waits for, or by one it does not
\* hear of.
LEMMA WrittenMint ==
    ASSUME TypeOK, NEW n \in Nodes, OneMint(n), NEW s \in Slots, SetTokenHash(s)
    PROVE  OneMint(n)'
  <1> DEFINE m == jobs[s].node
             next == [jobs[s] EXCEPT !.pc = "answer", !.token = minted + 1]
             row == [nodes[m] EXCEPT !.token = minted + 1]
  <1>1. /\ m \in Nodes /\ nodes[m] \in NodeRow /\ jobs[s] \in Request
        /\ jobs[s].kind = "token"
    BY Found DEF SetTokenHash, Stores, TypeOK
  <1>2. /\ next.kind = "token" /\ next.node = m /\ next.pc = "answer"
        /\ next.token = minted + 1
    BY <1>1 DEF Request
  <1> minted + 1 \in Nat
    BY DEF TypeOK
  <1>3. row.token = minted + 1 /\ row # Null
    <2>1. row \in NodeRow
      BY <1>1 DEF NodeRow, Maybe
    <2> QED
      BY <1>1, <2>1, RowsAssumption DEF NodeRow
  <1>4. /\ nodes' = [nodes EXCEPT ![m] = row] /\ page' = page
        /\ unheard' = [unheard EXCEPT ![m] = s \notin page[m].waits]
        /\ Becomes(s, next)
    BY DEF SetTokenHash
  <1> HIDE DEF next, row
  <1>5. CASE s \notin page[n].waits
    <2>1. /\ nodes'[n] = IF n = m THEN row ELSE nodes[n]
          /\ unheard'[n] = IF n = m THEN TRUE ELSE unheard[n]
      BY <1>4, <1>5 DEF TypeOK
    <2> QED
      BY <1>3, <1>4, <1>5, <2>1, NoMint
  <1>6. CASE s \in page[n].waits
    <2>1. n = m /\ page[n].waits = {s} /\ page[n].minting
      BY <1>6 DEF OneMint
    <2>2. nodes'[n].token = minted + 1 /\ jobs'[s] = next
      BY <1>3, <1>4, <2>1 DEF Becomes, TypeOK
    <2>3. Shows(n)'
      BY <1>2, <1>4, <2>1, <2>2 DEF Shows
    <2> QED
      BY <1>2, <1>4, <2>1, <2>2, <2>3 DEF OneMint
  <1> QED
    BY <1>5, <1>6

LEMMA GotNodeMint ==
    ASSUME TypeOK, NEW n \in Nodes, OneMint(n), NEW s \in Slots, GetNode(s)
    PROVE  OneMint(n)'
  <1> DEFINE job == jobs[s]
             row == nodes[job.node]
  <1>1. job \in Request /\ job.pc = "node" /\ nodes' = nodes
    BY DEF TypeOK, GetNode, At
  <1>2. CASE Refused(job, row) \/ Unneeded(job, row)
    BY <1>1, <1>2, FailedMint DEF GetNode
  <1>3. ASSUME NEW next, Becomes(s, next), next.kind = job.kind, next.node = job.node,
               next.pc # "answer", PageStays
        PROVE  OneMint(n)'
    <2>1. \A r \in Slots : jobs'[r] = IF r = s THEN next ELSE jobs[r]
      BY <1>3 DEF Becomes, TypeOK
    <2>2. page[n].waits \subseteq Slots
      BY DEF TypeOK
    <2>3. \A r \in page[n].waits :
              /\ jobs'[r].kind = jobs[r].kind /\ jobs'[r].node = jobs[r].node
              /\ jobs'[r].pc = "answer" <=> jobs[r].pc = "answer"
              /\ jobs'[r].pc = "answer" => jobs'[r].token = jobs[r].token
      BY <1>1, <1>3, <2>1, <2>2
    <2> QED
      BY <1>1, <1>3, <2>3, SameMint DEF PageStays
  <1>4. CASE ~(Refused(job, row) \/ Unneeded(job, row)) /\ job.kind \in ProfileKinds
    <2> DEFINE next == [job EXCEPT !.pc = "profile"]
    <2>1. Becomes(s, next) /\ PageStays
      BY <1>4 DEF GetNode
    <2>2. next.kind = job.kind /\ next.node = job.node /\ next.pc # "answer"
      BY <1>1 DEF Request
    <2> HIDE DEF next
    <2> QED
      BY <1>3, <2>1, <2>2
  <1>5. CASE ~(Refused(job, row) \/ Unneeded(job, row)) /\ job.kind \notin ProfileKinds
    <2> DEFINE next == [job EXCEPT !.pc = "store", !.row = row]
    <2>1. Becomes(s, next) /\ PageStays
      BY <1>5 DEF GetNode
    <2>2. next.kind = job.kind /\ next.node = job.node /\ next.pc # "answer"
      BY <1>1 DEF Request
    <2> HIDE DEF next
    <2> QED
      BY <1>3, <2>1, <2>2
  <1> QED
    BY <1>2, <1>4, <1>5

\* What the admin does on the page: a dialog closed, a reload, a page left.
LEMMA UsedPage ==
    ASSUME TypeOK, NEW n \in Nodes, OneMint(n), NEW m \in Nodes,
           CloseDialog(m) \/ Reload(m) \/ ReloadFails(m) \/ Leave(m)
    PROVE  OneMint(n)'
  <1>1. UNCHANGED <<nodes, jobs, unheard>>
    BY DEF CloseDialog, Reload, ReloadFails, Leave
  <1>2. page'[n] = Opened
        \/ /\ page'[n].minting = page[n].minting /\ page'[n].waits = page[n].waits
           /\ page'[n].token = page[n].token \/ page'[n].token = Null
    <2>1. m # n => page'[n] = page[n]
      BY DEF CloseDialog, Reload, ReloadFails, Leave, TypeOK
    <2>2. CASE m = n
      BY <2>2 DEF CloseDialog, Reload, ReloadFails, Leave, TypeOK
    <2> QED
      BY <2>1, <2>2
  <1>3. CASE page'[n] = Opened
    BY <1>3 DEF OneMint, Shows, Opened
  <1>4. CASE page'[n] # Opened
    BY <1>1, <1>2, <1>4 DEF OneMint, Shows
  <1> QED
    BY <1>3, <1>4

LEMMA PageStep == TypeOK /\ PageInv /\ [Next]_vars => PageInv'
  <1> SUFFICES ASSUME TypeOK, PageInv, [Next]_vars, NEW n \in Nodes
               PROVE  OneMint(n)'
    BY DEF PageInv
  <1>1. OneMint(n)
    BY DEF PageInv
  <1>2. CASE UNCHANGED vars
    BY <1>1, <1>2 DEF vars, OneMint, Shows
  <1>3. CASE Next
    <2>1. ASSUME NEW s \in Slots, jobs[s].kind # "token" PROVE s \notin page[n].waits
      BY <1>1, <2>1 DEF OneMint
    <2>2. ASSUME NEW s \in Slots, Arrivals(s), ~Mint(s) PROVE OneMint(n)'
      <3>1. PICK job : Becomes(s, job)
        BY <2>2, ArrivesAtNode
      <3>2. jobs[s].kind = "none" /\ PageStays /\ nodes' = nodes
        BY <2>2
        DEF Arrivals, NodeCreate, NodeUpdate, SaveConfig, MintElsewhere, Enroll,
            LinkProfileIn, LinkProfileUpdate, LinkProfileDelete, Arrive
      <3> QED
        BY <1>1, <2>1, <3>1, <3>2, NoMint DEF PageStays
    <2>3. ASSUME NEW s \in Slots, GetLinkProfile(s) PROVE OneMint(n)'
      <3>1. /\ jobs[s].kind # "token"
            /\ page' = page /\ unheard' = unheard /\ nodes' = nodes
        BY <2>3 DEF GetLinkProfile, At, TypeOK, JobOK, ProfileKinds
      <3>2. \E job : Becomes(s, job)
        BY <2>3 DEF GetLinkProfile
      <3> QED
        BY <1>1, <2>1, <3>1, <3>2, NoMint
    <2>4. ASSUME NEW s \in Slots,
                 CreateNode(s) \/ ReplaceNode(s) \/ SetNodeConfig(s)
                    \/ SetReportedAddress(s) \/ ProfileWriter(s)
          PROVE  OneMint(n)'
      <3>1. /\ jobs[s].kind # "token" /\ Becomes(s, Free)
            /\ page' = page /\ unheard' = unheard
        BY <2>4
        DEF CreateNode, ReplaceNode, SetNodeConfig, SetReportedAddress, ProfileWriter,
            CreateLinkProfile, UpdateLinkProfile, DeleteLinkProfile, Stores, Ends
      <3>2. nodes[n] # Null => nodes'[n] # Null /\ nodes'[n].token = nodes[n].token
        <4>1. minted' = minted
          BY <2>4
          DEF CreateNode, ReplaceNode, SetNodeConfig, SetReportedAddress, ProfileWriter,
              CreateLinkProfile, UpdateLinkProfile, DeleteLinkProfile, counters
        <4>2. \A r \in Slots : ~SetTokenHash(r)
          BY <4>1 DEF SetTokenHash, TypeOK
        <4> QED
          BY <1>3, <4>2, StepColumns DEF Changes
      <3> QED
        BY <1>1, <2>1, <3>1, <3>2, NoMint
    <2>5. ASSUME NEW s \in Slots, Die(s) PROVE OneMint(n)'
      BY <1>1, <2>5, FailedMint DEF Die
    <2>6. ASSUME NEW s \in Slots, Break(s) PROVE OneMint(n)'
      BY <1>1, <2>6, UnansweredMint DEF Break
    <2> QED
      BY <1>1, <1>3, <2>2, <2>3, <2>4, <2>5, <2>6, StartedMint, WrittenMint, GotNodeMint,
         AnsweredMint, UsedPage
      DEF Next, Statements, ProfileWriter
  <1> QED
    BY <1>2, <1>3

\* "a double-fire would rotate twice and the admin would copy a plaintext that
\* is already dead" (NodeLayout.tsx): the token the page shows is the one its
\* node authenticates with, whatever fails, breaks or is left, unless a mint
\* the page has no answer of (another tab's, or one that broke) replaced it.
THEOREM ShownTokensWork == Spec => []ShownTokenWorks
  <1>1. Init => PageInv
    BY DEF Init, PageInv, OneMint, Shows, Opened
  <1>2. PageInv => ShownTokenWorks
    <2> SUFFICES ASSUME PageInv, NEW n \in Nodes, page[n].token # Null, ~page[n].minting
                 PROVE  nodes[n] # Null /\ (nodes[n].token = page[n].token \/ unheard[n])
      BY DEF ShownTokenWorks
    <2>1. OneMint(n)
      BY DEF PageInv
    <2> QED
      BY <2>1 DEF OneMint, Shows
  <1> QED
    BY <1>1, <1>2, PageStep, TypeCorrect, PTL DEF Spec
=============================================================================
