--------------------------- MODULE UserAdmin_proofs ---------------------------
(***************************************************************************)
(* Proofs about UserAdmin.  For any number of requests at a time, whatever *)
(* dies: rows keep their shape, every granted outbound has a uuid, only a  *)
(* rotation changes a subscription token, and a uuid that the writes under *)
(* way agree on is never minted again.  For one request at a time, any of  *)
(* which may die between two statements: no access row without a user, and *)
(* revocations before grants; two at a time break the former (the run      *)
(* UserAdmin_orphan).                                                      *)
(***************************************************************************)
EXTENDS UserAdmin, WellFoundedInduction, TLAPS

\* The next node in order is one of those that are left.
LEMMA FirstIn == ASSUME NEW ns \in SUBSET Nodes, ns # {} PROVE First(ns) \in ns
  <1>1. ns \subseteq Nat
    BY UsersAssumption DEF Nodes
  <1>2. PICK n \in ns : \A m \in ns : ~ (<<m, n>> \in OpToRel(<, Nat))
    BY <1>1, NatLessThanWellFounded, WFMin, Zenon
  <1>3. \A m \in ns : <<m, n>> \in Nat \X Nat /\ ~ (m < n)
    BY <1>1, <1>2 DEF OpToRel
  <1>4. \A m \in ns : n <= m
    <2> SUFFICES ASSUME NEW m \in ns PROVE n <= m
      OBVIOUS
    <2>1. m \in Nat /\ n \in Nat /\ ~ (m < n)
      BY <1>1, <1>3
    <2> QED
      BY <2>1
  <1> QED
    BY <1>4 DEF First

LEMMA FreeIsRequest == Free \in Request /\ JobOK(Free)
  BY DEF Free, Request, JobOK, Steps, NoUuids, Nodes

-----------------------------------------------------------------------------
(* Type correctness.                                                       *)

\* A slot that takes a proper request leaves the requests proper.
LEMMA JobStep ==
    ASSUME TypeOK, NEW s \in Slots, NEW job \in Request, JobOK(job), Becomes(s, job)
    PROVE  jobs' \in [Slots -> Request] /\ \A r \in Slots : JobOK(jobs'[r])
  BY DEF TypeOK, Becomes

\* As long as the tables stay, a proper request is all there is to show.
LEMMA JobStepTypes ==
    ASSUME TypeOK, NEW s \in Slots, NEW job \in Request, JobOK(job), Becomes(s, job),
           UNCHANGED <<users, access>>, minted' \in Nat
    PROVE  TypeOK'
  <1>1. jobs' \in [Slots -> Request] /\ \A r \in Slots : JobOK(jobs'[r])
    BY JobStep
  <1> QED
    BY <1>1 DEF TypeOK

LEMMA WritingIsRequest ==
    ASSUME NEW job \in Request, NEW todo \in SUBSET Nodes,
           JobOK(job), job.kind # "none", job.access \in AccessIn,
           todo \subseteq Listed(job.access)
    PROVE  Writing(job, todo) \in Request /\ JobOK(Writing(job, todo))
  <1>1. CASE todo = {}
    BY <1>1, FreeIsRequest DEF Writing
  <1>2. CASE todo # {}
    <2> DEFINE next == [job EXCEPT !.todo = todo, !.pc = "get"]
    <2>1. next \in Request
      BY DEF Request, Steps
    <2>2. JobOK(next)
      BY <1>2 DEF Request, JobOK, Listed
    <2> QED
      BY <1>2, <2>1, <2>2 DEF Writing
  <1> QED
    BY <1>1, <1>2

LEMMA ArriveTypes ==
    ASSUME TypeOK, NEW s \in Slots, NEW job \in Request, JobOK(job), Arrive(s, job)
    PROVE  TypeOK'
  <1>1. Becomes(s, job) /\ UNCHANGED <<users, access, minted>>
    BY DEF Arrive, Becomes
  <1> QED
    BY <1>1, JobStepTypes DEF TypeOK

LEMMA StartTypes ==
    ASSUME TypeOK, NEW s \in Slots,
           StartCreate(s) \/ StartUpdate(s) \/ StartDelete(s) \/ StartSubToken(s)
    PROVE  TypeOK'
  <1>1. CASE StartCreate(s)
    <2>1. PICK u \in Users, st \in Status, note \in Notes, a \in Payloads :
             Arrive(s, [Free EXCEPT !.kind = "create", !.user = u, !.status = st,
                                    !.note = note, !.access = a])
      BY <1>1 DEF StartCreate
    <2> DEFINE job == [Free EXCEPT !.kind = "create", !.user = u, !.status = st,
                                   !.note = note, !.access = a]
    <2>2. job \in Request /\ JobOK(job)
      BY UsersAssumption
      DEF Free, Request, JobOK, Steps, AllKinds, NoUuids
    <2> QED
      BY <2>1, <2>2, ArriveTypes
  <1>2. CASE StartUpdate(s)
    <2>1. PICK u \in Users, st \in Status \cup {Null}, note \in Notes \cup {Null},
               a \in Payloads \cup {Null} :
             Arrive(s, [Free EXCEPT !.kind = "update", !.user = u, !.status = st,
                                    !.note = note, !.access = a])
      BY <1>2 DEF StartUpdate
    <2> DEFINE job == [Free EXCEPT !.kind = "update", !.user = u, !.status = st,
                                   !.note = note, !.access = a]
    <2>2. job \in Request /\ JobOK(job)
      BY UsersAssumption
      DEF Free, Request, JobOK, Steps, AllKinds, NoUuids
    <2> QED
      BY <2>1, <2>2, ArriveTypes
  <1>3. CASE StartDelete(s)
    <2>1. PICK u \in Users : Arrive(s, [Free EXCEPT !.kind = "delete", !.user = u])
      BY <1>3 DEF StartDelete
    <2>2. [Free EXCEPT !.kind = "delete", !.user = u] \in Request
          /\ JobOK([Free EXCEPT !.kind = "delete", !.user = u])
      BY DEF Free, Request, JobOK, Steps, AllKinds, NoUuids
    <2> QED
      BY <2>1, <2>2, ArriveTypes
  <1>4. CASE StartSubToken(s)
    <2>1. PICK u \in Users : Arrive(s, [Free EXCEPT !.kind = "sub-token", !.user = u])
      BY <1>4 DEF StartSubToken
    <2>2. [Free EXCEPT !.kind = "sub-token", !.user = u] \in Request
          /\ JobOK([Free EXCEPT !.kind = "sub-token", !.user = u])
      BY DEF Free, Request, JobOK, Steps, AllKinds, NoUuids
    <2> QED
      BY <2>1, <2>2, ArriveTypes
  <1> QED
    BY <1>1, <1>2, <1>3, <1>4

\* A request at some statement has the fields of one.
LEMMA OfJob ==
    ASSUME TypeOK, NEW s \in Slots, jobs[s].kind # "none"
    PROVE  /\ jobs[s] \in Request /\ JobOK(jobs[s]) /\ jobs[s].user \in Users
           /\ users[jobs[s].user] \in UserRow \cup {Null}
           /\ access[jobs[s].user] \in [Nodes -> AccessRow \cup {Null}]
  BY DEF TypeOK, JobOK

LEMMA CheckTypes ==
    ASSUME TypeOK, NEW s \in Slots, Check(s)
    PROVE  TypeOK'
  <1> DEFINE job == jobs[s]
             next == [job EXCEPT !.row = users[job.user], !.pc = AfterCheck(job.kind)]
  <1>1. job \in Request /\ JobOK(job) /\ job.kind # "none" /\ job.user \in Users
        /\ users[job.user] \in UserRow \cup {Null}
    BY OfJob DEF Check, At
  <1>2. ASSUME (job.kind = "create") = (users[job.user] = Null)
        PROVE  next \in Request /\ JobOK(next)
    <2>1. job.kind \in AllKinds
      BY <1>1 DEF Request
    <2>2. CASE job.kind = "create"
      BY <1>1, <2>2 DEF Request, JobOK, AfterCheck, Steps, UserRow
    <2>3. CASE job.kind = "update"
      BY <1>1, <1>2, <2>3 DEF Request, JobOK, AfterCheck, Steps, UserRow
    <2>4. CASE job.kind \in {"delete", "sub-token"}
      BY <1>1, <2>4 DEF Request, JobOK, AfterCheck, Steps, UserRow
    <2> QED
      BY <2>1, <2>2, <2>3, <2>4 DEF AllKinds
  <1>3. CASE (job.kind = "create") = (users[job.user] = Null)
    <2>1. Becomes(s, next)
      BY <1>3 DEF Check
    <2> QED
      BY <1>2, <1>3, <2>1, JobStepTypes DEF Check, TypeOK
  <1>4. CASE ~((job.kind = "create") = (users[job.user] = Null))
    <2>1. Becomes(s, Free)
      BY <1>4 DEF Check
    <2> QED
      BY <2>1, FreeIsRequest, JobStepTypes DEF Check, TypeOK
  <1> QED
    BY <1>3, <1>4

LEMMA InsertTypes ==
    ASSUME TypeOK, NEW s \in Slots, Insert(s)
    PROVE  TypeOK'
  <1> DEFINE job == jobs[s]
  <1>1. job \in Request /\ JobOK(job) /\ job.kind = "create" /\ job.user \in Users
    BY OfJob DEF Insert, At, JobOK
  <1>2. CASE users[job.user] # Null
    <2>1. Becomes(s, Free) /\ UNCHANGED <<users, access, minted>>
      BY <1>2 DEF Insert
    <2> QED
      BY <2>1, FreeIsRequest, JobStepTypes DEF TypeOK
  <1>3. CASE users[job.user] = Null
    <2> DEFINE row == [status |-> job.status, note |-> job.note, token |-> minted + 1]
    <2>1. /\ minted' = minted + 1 /\ access' = access
          /\ users' = [users EXCEPT ![job.user] = row]
          /\ Becomes(s, Writing(job, Listed(job.access)))
      BY <1>3 DEF Insert
    <2>2. row \in UserRow
      BY <1>1 DEF TypeOK, UserRow, JobOK
    <2>3. Listed(job.access) \in SUBSET Nodes
      BY DEF Listed
    <2>4. /\ Writing(job, Listed(job.access)) \in Request
          /\ JobOK(Writing(job, Listed(job.access)))
      BY <1>1, <2>3, WritingIsRequest DEF JobOK
    <2>5. jobs' \in [Slots -> Request] /\ \A r \in Slots : JobOK(jobs'[r])
      BY <2>1, <2>4, JobStep
    <2>6. users' \in [Users -> UserRow \cup {Null}]
      BY <1>1, <2>1, <2>2 DEF TypeOK
    <2> QED
      BY <2>1, <2>5, <2>6 DEF TypeOK
  <1> QED
    BY <1>2, <1>3

\* Merging a payload into a row that has been read makes a row.
LEMMA ReplacedIsRow ==
    ASSUME NEW job \in Request, job.row \in UserRow, NEW now \in UserRow
    PROVE  Replaced(job, now) \in UserRow /\ Replaced(job, now).token = now.token
  <1>1. Or(job.status, job.row.status) \in Status /\ Or(job.note, job.row.note) \in Notes
    BY DEF Or, Request, UserRow
  <1> QED
    BY <1>1 DEF Replaced, UserRow

LEMMA ReplaceTypes ==
    ASSUME TypeOK, NEW s \in Slots, Replace(s)
    PROVE  TypeOK'
  <1> DEFINE job == jobs[s]
  <1>1. /\ job \in Request /\ JobOK(job) /\ job.kind = "update" /\ job.row \in UserRow
        /\ job.user \in Users /\ users[job.user] \in UserRow \cup {Null}
    BY OfJob DEF Replace, At, JobOK
  <1>2. users' \in [Users -> UserRow \cup {Null}]
    <2>1. users[job.user] # Null => Replaced(job, users[job.user]) \in UserRow
      BY <1>1, ReplacedIsRow
    <2> QED
      BY <1>1, <2>1 DEF Replace, TypeOK
  <1>3. jobs' \in [Slots -> Request] /\ \A r \in Slots : JobOK(jobs'[r])
    <2>1. CASE job.access = Null
      BY <2>1, FreeIsRequest, JobStep DEF Replace
    <2>2. CASE job.access # Null
      <3>1. [job EXCEPT !.pc = "list"] \in Request /\ JobOK([job EXCEPT !.pc = "list"])
        BY <1>1, <2>2 DEF Request, JobOK, Steps
      <3> QED
        BY <2>2, <3>1, JobStep DEF Replace
    <2> QED
      BY <2>1, <2>2
  <1> QED
    BY <1>2, <1>3 DEF Replace, TypeOK

\* A request that writes access rows has an access map.
LEMMA WritesAccess ==
    ASSUME TypeOK, NEW s \in Slots, jobs[s].kind # "none",
           jobs[s].pc \in {"list", "remove", "get", "upsert"}
    PROVE  /\ jobs[s] \in Request /\ JobOK(jobs[s]) /\ jobs[s].kind # "none"
           /\ jobs[s].user \in Users /\ jobs[s].access \in AccessIn
           /\ jobs[s].todo \in SUBSET Nodes
           /\ jobs[s].pc # "list" =>
                 First(jobs[s].todo) \in jobs[s].todo /\ First(jobs[s].todo) \in Nodes
  <1>1. jobs[s] \in Request /\ JobOK(jobs[s]) /\ jobs[s].user \in Users
    BY OfJob
  <1>2. jobs[s].todo \in SUBSET Nodes
    BY <1>1 DEF Request
  <1>3. jobs[s].pc # "list" => jobs[s].todo # {}
    BY <1>1 DEF JobOK
  <1> QED
    BY <1>1, <1>2, <1>3, FirstIn DEF JobOK

LEMMA ListTypes ==
    ASSUME TypeOK, NEW s \in Slots, List(s)
    PROVE  TypeOK'
  <1> DEFINE job == jobs[s]
             next == [job EXCEPT !.todo = ToRemove(job), !.pc = "remove"]
  <1>1. /\ job \in Request /\ JobOK(job) /\ job.kind # "none" /\ job.user \in Users
        /\ job.access \in AccessIn
    BY WritesAccess DEF List, At
  <1>2. CASE ToRemove(job) = {}
    <2>1. Listed(job.access) \in SUBSET Nodes
      BY DEF Listed
    <2>2. /\ Writing(job, Listed(job.access)) \in Request
          /\ JobOK(Writing(job, Listed(job.access)))
      BY <1>1, <2>1, WritingIsRequest
    <2> QED
      BY <1>2, <2>2, JobStepTypes DEF List, TypeOK
  <1>3. CASE ToRemove(job) # {}
    <2>1. ToRemove(job) \in SUBSET Nodes
      BY DEF ToRemove
    <2>2. next \in Request /\ JobOK(next)
      BY <1>1, <1>3, <2>1 DEF Request, JobOK, Steps
    <2> QED
      BY <1>3, <2>2, JobStepTypes DEF List, TypeOK
  <1> QED
    BY <1>2, <1>3

LEMMA RemoveTypes ==
    ASSUME TypeOK, NEW s \in Slots, Remove(s)
    PROVE  TypeOK'
  <1> DEFINE job == jobs[s]
             n == First(job.todo)
             next == [job EXCEPT !.todo = @ \ {n}]
  <1>1. /\ job \in Request /\ JobOK(job) /\ job.kind # "none" /\ job.user \in Users
        /\ job.access \in AccessIn /\ job.todo \in SUBSET Nodes
        /\ n \in job.todo /\ n \in Nodes /\ job.pc = "remove"
    BY WritesAccess DEF Remove, At
  <1>2. access' \in [Users -> [Nodes -> AccessRow \cup {Null}]]
    BY <1>1 DEF Remove, TypeOK
  <1>3. jobs' \in [Slots -> Request] /\ \A r \in Slots : JobOK(jobs'[r])
    <2>1. CASE job.todo = {n}
      <3>1. Listed(job.access) \in SUBSET Nodes
        BY DEF Listed
      <3>2. /\ Writing(job, Listed(job.access)) \in Request
            /\ JobOK(Writing(job, Listed(job.access)))
        BY <1>1, <3>1, WritingIsRequest
      <3> QED
        BY <2>1, <3>2, JobStep DEF Remove
    <2>2. CASE job.todo # {n}
      <3>1. next \in Request /\ next.todo # {} /\ next.pc = "remove"
        BY <1>1, <2>2 DEF Request
      <3>2. JobOK(next)
        BY <1>1, <3>1 DEF Request, JobOK
      <3> QED
        BY <2>2, <3>1, <3>2, JobStep DEF Remove
    <2> QED
      BY <2>1, <2>2
  <1> QED
    BY <1>2, <1>3 DEF Remove, TypeOK

LEMMA GetAccessTypes ==
    ASSUME TypeOK, NEW s \in Slots, GetAccess(s)
    PROVE  TypeOK'
  <1> DEFINE job == jobs[s]
             old == Stored(access[job.user][First(job.todo)])
             next == [job EXCEPT !.pc = "upsert", !.old = old]
  <1>1. /\ job \in Request /\ JobOK(job) /\ job.kind # "none" /\ job.user \in Users
        /\ First(job.todo) \in Nodes /\ job.pc = "get"
    BY WritesAccess DEF GetAccess, At
  <1>2. old \in [Tags -> Nat]
    BY <1>1 DEF TypeOK, Stored, NoUuids, AccessRow
  <1>3. next \in Request
    BY <1>1, <1>2 DEF Request, Steps
  <1>4. JobOK(next)
    BY <1>1 DEF Request, JobOK
  <1> QED
    BY <1>3, <1>4, JobStepTypes DEF GetAccess, TypeOK

\* The row that upsertAccess stores: the grant of the payload, a uuid for each
\* tag of it, and every uuid that was read.
Upserted(job) == [grant |-> job.access[First(job.todo)],
                  uuids |-> EnsureUuids(job.access[First(job.todo)], job.old, minted + 1)]

LEMMA UpsertedRow ==
    ASSUME TypeOK, NEW s \in Slots, At(s, "upsert")
    PROVE  /\ Upserted(jobs[s]) \in AccessRow
           /\ \A t \in Upserted(jobs[s]).grant : Upserted(jobs[s]).uuids[t] # 0
           /\ \A t \in Tags : jobs[s].old[t] # 0 => Upserted(jobs[s]).uuids[t] = jobs[s].old[t]
  <1> DEFINE job == jobs[s]
             n == First(job.todo)
  <1>1. /\ job \in Request /\ JobOK(job) /\ job.access \in AccessIn
        /\ n \in job.todo /\ n \in Nodes /\ job.pc = "upsert" /\ minted \in Nat
    BY WritesAccess DEF At, TypeOK
  <1>2. job.access[n] \in SUBSET Tags
    BY <1>1 DEF JobOK, Listed, AccessIn
  <1>3. job.old \in [Tags -> Nat]
    BY <1>1 DEF Request
  <1>4. EnsureUuids(job.access[n], job.old, minted + 1) \in [Tags -> Nat]
    BY <1>1, <1>3 DEF EnsureUuids
  <1> QED
    BY <1>1, <1>2, <1>3, <1>4 DEF Upserted, AccessRow, EnsureUuids

LEMMA UpsertTypes ==
    ASSUME TypeOK, NEW s \in Slots, UpsertAccess(s)
    PROVE  TypeOK'
  <1> DEFINE job == jobs[s]
             n == First(job.todo)
             done == [job EXCEPT !.old = NoUuids]
  <1>1. /\ job \in Request /\ JobOK(job) /\ job.kind # "none" /\ job.user \in Users
        /\ job.access \in AccessIn /\ job.todo \in SUBSET Nodes
        /\ n \in job.todo /\ n \in Nodes /\ job.pc = "upsert"
    BY WritesAccess DEF UpsertAccess, At
  <1>2. Upserted(job) \in AccessRow
    BY UpsertedRow DEF UpsertAccess
  <1>3. access' = [access EXCEPT ![job.user][n] = Upserted(job)]
    BY DEF UpsertAccess, Upserted
  <1>4. access' \in [Users -> [Nodes -> AccessRow \cup {Null}]]
    BY <1>1, <1>2, <1>3 DEF TypeOK
  <1>5. done \in Request /\ JobOK(done) /\ done.kind # "none" /\ done.access \in AccessIn
    BY <1>1 DEF Request, JobOK, NoUuids
  <1>6. (job.todo \ {n}) \in SUBSET Nodes /\ job.todo \ {n} \subseteq Listed(done.access)
    BY <1>1 DEF JobOK, Request
  <1>7. /\ Writing(done, job.todo \ {n}) \in Request
        /\ JobOK(Writing(done, job.todo \ {n}))
    BY <1>5, <1>6, WritingIsRequest
  <1>8. jobs' \in [Slots -> Request] /\ \A r \in Slots : JobOK(jobs'[r])
    BY <1>7, JobStep DEF UpsertAccess
  <1> QED
    BY <1>4, <1>8 DEF UpsertAccess, TypeOK

LEMMA DeleteTypes ==
    ASSUME TypeOK, NEW s \in Slots, DeleteAccessRows(s) \/ DeleteUserRow(s)
    PROVE  TypeOK'
  <1> DEFINE job == jobs[s]
             next == [job EXCEPT !.pc = "delete-user"]
  <1>1. job \in Request /\ JobOK(job) /\ job.user \in Users /\ job.kind # "none"
    BY OfJob DEF DeleteAccessRows, DeleteUserRow, At
  <1>2. CASE DeleteAccessRows(s)
    <2>1. next \in Request /\ JobOK(next)
      BY <1>1 DEF Request, JobOK, Steps
    <2>2. jobs' \in [Slots -> Request] /\ \A r \in Slots : JobOK(jobs'[r])
      BY <1>2, <2>1, JobStep DEF DeleteAccessRows
    <2> QED
      BY <1>1, <1>2, <2>2 DEF DeleteAccessRows, TypeOK
  <1>3. CASE DeleteUserRow(s)
    <2>1. jobs' \in [Slots -> Request] /\ \A r \in Slots : JobOK(jobs'[r])
      BY <1>3, FreeIsRequest, JobStep DEF DeleteUserRow
    <2> QED
      BY <1>1, <1>3, <2>1 DEF DeleteUserRow, TypeOK
  <1> QED
    BY <1>2, <1>3

LEMMA SetSubTokenTypes ==
    ASSUME TypeOK, NEW s \in Slots, SetSubToken(s)
    PROVE  TypeOK'
  <1> DEFINE u == jobs[s].user
  <1>1. u \in Users /\ users[u] \in UserRow \cup {Null} /\ minted \in Nat
    BY OfJob DEF SetSubToken, At, TypeOK
  <1>2. jobs' \in [Slots -> Request] /\ \A r \in Slots : JobOK(jobs'[r])
    BY FreeIsRequest, JobStep DEF SetSubToken
  <1>3. users' \in [Users -> UserRow \cup {Null}]
    BY <1>1 DEF SetSubToken, TypeOK, UserRow
  <1> QED
    BY <1>1, <1>2, <1>3 DEF SetSubToken, TypeOK

LEMMA DieTypes ==
    ASSUME TypeOK, NEW s \in Slots, Die(s)
    PROVE  TypeOK'
  BY FreeIsRequest, JobStepTypes DEF Die, TypeOK

LEMMA StepTypes == TypeOK /\ [Next]_vars => TypeOK'
  <1> SUFFICES ASSUME TypeOK, [Next]_vars PROVE TypeOK'
    OBVIOUS
  <1>1. CASE UNCHANGED vars
    BY <1>1 DEF vars, TypeOK
  <1>2. ASSUME NEW s \in Slots,
               \/ StartCreate(s) \/ StartUpdate(s) \/ StartDelete(s) \/ StartSubToken(s)
        PROVE  TypeOK'
    BY <1>2, StartTypes
  <1>3. ASSUME NEW s \in Slots,
               \/ Check(s) \/ Insert(s) \/ Replace(s) \/ List(s) \/ Remove(s)
               \/ GetAccess(s) \/ UpsertAccess(s)
        PROVE  TypeOK'
    BY <1>3, CheckTypes, InsertTypes, ReplaceTypes, ListTypes, RemoveTypes,
       GetAccessTypes, UpsertTypes
  <1>4. ASSUME NEW s \in Slots,
               DeleteAccessRows(s) \/ DeleteUserRow(s) \/ SetSubToken(s) \/ Die(s)
        PROVE  TypeOK'
    BY <1>4, DeleteTypes, SetSubTokenTypes, DieTypes
  <1> QED
    BY <1>1, <1>2, <1>3, <1>4 DEF Next

LEMMA InitTypes == Init => TypeOK
  BY FreeIsRequest DEF Init, TypeOK

\* The tables and the requests keep their shape (TypeOK), for any number of
\* requests at a time.
THEOREM TypeCorrect == Spec => []TypeOK
  BY InitTypes, StepTypes, PTL DEF Spec

-----------------------------------------------------------------------------
(* Uuids and tokens, for any number of requests at a time.                 *)

\* Steps that store no access row of a payload change no grant.
LEMMA KeepsGrants ==
    ASSUME NEW s \in Slots,
           \/ StartCreate(s) \/ StartUpdate(s) \/ StartDelete(s) \/ StartSubToken(s)
           \/ Check(s) \/ Insert(s) \/ Replace(s) \/ List(s) \/ GetAccess(s)
           \/ DeleteUserRow(s) \/ SetSubToken(s) \/ Die(s)
    PROVE  access' = access
  BY DEF StartCreate, StartUpdate, StartDelete, StartSubToken, Arrive, Check, Insert,
     Replace, List, GetAccess, DeleteUserRow, SetSubToken, Die

LEMMA StepGrants == TypeOK /\ UuidForEveryGrant /\ [Next]_vars => UuidForEveryGrant'
  <1> SUFFICES ASSUME TypeOK, UuidForEveryGrant, [Next]_vars PROVE UuidForEveryGrant'
    OBVIOUS
  <1>1. CASE access' = access
    BY <1>1 DEF UuidForEveryGrant
  <1>2. ASSUME NEW s \in Slots, Remove(s) PROVE UuidForEveryGrant'
    <2>1. /\ jobs[s].user \in Users /\ First(jobs[s].todo) \in Nodes
          /\ access' = [access EXCEPT ![jobs[s].user][First(jobs[s].todo)] = Null]
      BY <1>2, WritesAccess DEF Remove, At
    <2> QED
      BY <2>1 DEF UuidForEveryGrant, TypeOK
  <1>3. ASSUME NEW s \in Slots, UpsertAccess(s) PROVE UuidForEveryGrant'
    <2>1. /\ jobs[s].user \in Users /\ First(jobs[s].todo) \in Nodes
          /\ access' = [access EXCEPT ![jobs[s].user][First(jobs[s].todo)] = Upserted(jobs[s])]
      BY <1>3, WritesAccess DEF UpsertAccess, Upserted, At
    <2>2. \A t \in Upserted(jobs[s]).grant : Upserted(jobs[s]).uuids[t] # 0
      BY <1>3, UpsertedRow DEF UpsertAccess
    <2> QED
      BY <2>1, <2>2 DEF UuidForEveryGrant, TypeOK
  <1>4. ASSUME NEW s \in Slots, DeleteAccessRows(s) PROVE UuidForEveryGrant'
    <2>1. /\ jobs[s].user \in Users
          /\ access' = [access EXCEPT ![jobs[s].user] = [n \in Nodes |-> Null]]
      BY <1>4, OfJob DEF DeleteAccessRows, At
    <2> QED
      BY <2>1 DEF UuidForEveryGrant, TypeOK
  <1>5. CASE UNCHANGED vars
    BY <1>1, <1>5 DEF vars
  <1> QED
    BY <1>1, <1>2, <1>3, <1>4, <1>5, KeepsGrants DEF Next

\* "An outbound a user is granted always has a uuid" (UuidForEveryGrant), also
\* when any number of updates, creates and deletes of one user interleave.
THEOREM EveryGrantHasUuid == Spec => []UuidForEveryGrant
  <1>1. Init => UuidForEveryGrant
    BY DEF Init, UuidForEveryGrant
  <1> QED
    BY <1>1, StepGrants, TypeCorrect, PTL DEF Spec

\* A step that is no rotation leaves the token of a user that stays.
LEMMA StepTokens ==
    ASSUME TypeOK, NEW s \in Slots, NEW u \in Users, users[u] # Null, users'[u] # Null,
           \/ StartCreate(s) \/ StartUpdate(s) \/ StartDelete(s) \/ StartSubToken(s)
           \/ Check(s) \/ Insert(s) \/ Replace(s) \/ List(s) \/ Remove(s)
           \/ GetAccess(s) \/ UpsertAccess(s)
           \/ DeleteAccessRows(s) \/ DeleteUserRow(s) \/ Die(s)
    PROVE  users'[u].token = users[u].token
  <1>1. CASE users' = users
    BY <1>1
  <1>2. CASE Insert(s)
    <2>1. jobs[s].user \in Users
      BY <1>2, OfJob DEF Insert, At
    <2>2. users' = users \/ (users[jobs[s].user] = Null
             /\ \E row : users' = [users EXCEPT ![jobs[s].user] = row])
      BY <1>2 DEF Insert
    <2> QED
      BY <2>1, <2>2 DEF TypeOK
  <1>3. CASE Replace(s)
    <2>1. /\ jobs[s] \in Request /\ jobs[s].user \in Users /\ jobs[s].row \in UserRow
      BY <1>3, OfJob DEF Replace, At, JobOK
    <2>2. users[u] \in UserRow
      BY DEF TypeOK
    <2>3. Replaced(jobs[s], users[u]).token = users[u].token
      BY <2>1, <2>2, ReplacedIsRow
    <2>4. users'[u] = users[u] \/ users'[u] = Replaced(jobs[s], users[u])
      BY <1>3, <2>1 DEF Replace, TypeOK
    <2> QED
      BY <2>3, <2>4
  <1>4. CASE DeleteUserRow(s)
    <2>1. jobs[s].user \in Users /\ users' = [users EXCEPT ![jobs[s].user] = Null]
      BY <1>4, OfJob DEF DeleteUserRow, At
    <2> QED
      BY <2>1 DEF TypeOK
  <1>5. CASE Insert(s) \/ Replace(s) \/ DeleteUserRow(s) \/ users' = users
    BY <1>1, <1>2, <1>3, <1>4, <1>5
  <1> QED
    BY <1>5 DEF StartCreate, StartUpdate, StartDelete, StartSubToken, Arrive, Check,
       List, Remove, GetAccess, UpsertAccess, DeleteAccessRows, Die

\* "the profile edit path ... must never clobber the token" (EditsKeepToken),
\* whatever interleaves.
THEOREM OnlyRotationChangesToken == Spec => EditsKeepToken
  <1> DEFINE Keeps == \A u \in Users :
                 (users[u] # Null /\ users'[u] # Null /\ users'[u].token # users[u].token)
                    => \E s \in Slots : SetSubToken(s)
  <1>1. TypeOK /\ [Next]_vars => [Keeps]_vars
    <2> SUFFICES ASSUME TypeOK, Next, NEW u \in Users, users[u] # Null, users'[u] # Null,
                        users'[u].token # users[u].token
                 PROVE  \E s \in Slots : SetSubToken(s)
      OBVIOUS
    <2> QED
      BY StepTokens DEF Next
  <1>2. Spec => [][Keeps]_vars
    BY <1>1, TypeCorrect, PTL DEF Spec
  <1> QED
    BY <1>2 DEF EditsKeepToken

-----------------------------------------------------------------------------
(* Uuids that have settled, for any number of requests at a time.          *)

StepOf(s) ==
    \/ StartCreate(s) \/ StartUpdate(s) \/ StartDelete(s) \/ StartSubToken(s)
    \/ Check(s) \/ Insert(s) \/ Replace(s) \/ List(s) \/ Remove(s)
    \/ GetAccess(s) \/ UpsertAccess(s)
    \/ DeleteAccessRows(s) \/ DeleteUserRow(s) \/ SetSubToken(s)
    \/ Die(s)

LEMMA NextSteps == Next <=> \E s \in Slots : StepOf(s)
  BY DEF Next, StepOf

\* A step of one slot leaves the requests in the others.
LEMMA OwnSlot ==
    ASSUME TypeOK, NEW s \in Slots, StepOf(s), NEW r \in Slots \ {s}
    PROVE  jobs'[r] = jobs[r]
  <1>1. \E job : jobs' = [jobs EXCEPT ![s] = job]
    <2>1. CASE StartCreate(s) \/ StartUpdate(s) \/ StartDelete(s) \/ StartSubToken(s)
      BY <2>1 DEF StartCreate, StartUpdate, StartDelete, StartSubToken, Arrive
    <2>2. CASE \/ Check(s) \/ Insert(s) \/ Replace(s) \/ List(s) \/ Remove(s) \/ GetAccess(s)
      BY <2>2 DEF Check, Insert, Replace, List, Remove, GetAccess, Becomes
    <2>3. CASE \/ UpsertAccess(s) \/ DeleteAccessRows(s) \/ DeleteUserRow(s) \/ SetSubToken(s)
               \/ Die(s)
      BY <2>3 DEF UpsertAccess, DeleteAccessRows, DeleteUserRow, SetSubToken, Die, Becomes
    <2> QED
      BY <2>1, <2>2, <2>3 DEF StepOf
  <1> QED
    BY <1>1 DEF TypeOK

\* Only getAccess takes a request to upsertAccess, and what it read is there.
LEMMA OnlyReadsArm ==
    ASSUME TypeOK, NEW s \in Slots, StepOf(s), jobs'[s].pc = "upsert"
    PROVE  \/ jobs'[s].kind = "none"
           \/ /\ jobs'[s].user \in Users /\ First(jobs'[s].todo) \in Nodes
              /\ jobs'[s].old = Stored(access[jobs'[s].user][First(jobs'[s].todo)])
              /\ access' = access
  <1> DEFINE job == jobs[s]
             Arms(next) == next.pc = "upsert"
  <1>1. job \in Request /\ jobs \in [Slots -> Request] /\ ~ Arms(Free)
    BY DEF TypeOK, Free
  <1>2. ASSUME NEW next, Becomes(s, next), ~ Arms(next) PROVE FALSE
    BY <1>1, <1>2 DEF Becomes
  <1>3. ASSUME NEW base \in Request, NEW todo PROVE ~ Arms(Writing(base, todo))
    BY <1>1, <1>3 DEF Writing, Request
  <1>4. ~ (StartCreate(s) \/ StartUpdate(s) \/ StartDelete(s) \/ StartSubToken(s))
    <2>0. ASSUME NEW next, jobs' = [jobs EXCEPT ![s] = next], next.pc = "check" PROVE FALSE
      BY <1>1, <2>0
    <2>1. ~ StartCreate(s)
      BY <2>0 DEF StartCreate, Arrive, Free
    <2>2. ~ StartUpdate(s)
      BY <2>0 DEF StartUpdate, Arrive, Free
    <2>3. ~ StartDelete(s)
      BY <2>0 DEF StartDelete, Arrive, Free
    <2>4. ~ StartSubToken(s)
      BY <2>0 DEF StartSubToken, Arrive, Free
    <2> QED
      BY <2>1, <2>2, <2>3, <2>4
  <1>5. ~ Check(s)
    <2>1. Check(s) => job.kind \in AllKinds
      BY <1>1 DEF Check, At, Request
    <2>2. job.kind \in AllKinds =>
             ~ Arms([job EXCEPT !.row = users[job.user], !.pc = AfterCheck(job.kind)])
      BY <1>1 DEF AfterCheck, AllKinds, Request
    <2> QED
      BY <1>1, <1>2, <2>1, <2>2 DEF Check
  <1>6. ~ Insert(s)
    BY <1>1, <1>2, <1>3 DEF Insert
  <1>7. ~ Replace(s)
    BY <1>1, <1>2 DEF Replace, Request
  <1>8. ~ List(s)
    <2>1. ~ Arms([job EXCEPT !.todo = ToRemove(job), !.pc = "remove"])
      BY <1>1 DEF Request
    <2> QED
      BY <1>1, <1>2, <1>3, <2>1 DEF List
  <1>9. ~ Remove(s)
    BY <1>1, <1>2, <1>3 DEF Remove, At, Request
  <1>10. ~ UpsertAccess(s)
    <2>1. [job EXCEPT !.old = NoUuids] \in Request
      BY <1>1 DEF Request, NoUuids
    <2> QED
      BY <1>2, <1>3, <2>1 DEF UpsertAccess
  <1>11. ~ DeleteAccessRows(s)
    BY <1>1, <1>2 DEF DeleteAccessRows, Request
  <1>12. ~ (DeleteUserRow(s) \/ SetSubToken(s) \/ Die(s))
    BY <1>1, <1>2 DEF DeleteUserRow, SetSubToken, Die
  <1>13. GetAccess(s)
    BY <1>4, <1>5, <1>6, <1>7, <1>8, <1>9, <1>10, <1>11, <1>12 DEF StepOf
  <1>14. /\ job.user \in Users /\ First(job.todo) \in Nodes /\ access' = access
         /\ jobs'[s] = [job EXCEPT !.pc = "upsert",
                                   !.old = Stored(access[job.user][First(job.todo)])]
    BY <1>1, <1>13, WritesAccess DEF GetAccess, At, Becomes
  <1> QED
    BY <1>1, <1>14 DEF Request

\* A write that read the uuid of a tag stores that uuid again.
LEMMA StoresAgreed ==
    ASSUME TypeOK, NEW s \in Slots, StepOf(s), NEW u \in Users, NEW n \in Nodes,
           NEW t \in Tags, Agreed(u, n, t), access'[u][n] # Null
    PROVE  access'[u][n].uuids[t] = access[u][n].uuids[t]
  <1>1. CASE access' = access
    BY <1>1
  <1>2. CASE Remove(s)
    <2>1. /\ jobs[s].user \in Users /\ First(jobs[s].todo) \in Nodes
          /\ access' = [access EXCEPT ![jobs[s].user][First(jobs[s].todo)] = Null]
      BY <1>2, WritesAccess DEF Remove, At
    <2> QED
      BY <2>1 DEF TypeOK
  <1>3. CASE DeleteAccessRows(s)
    <2>1. /\ jobs[s].user \in Users
          /\ access' = [access EXCEPT ![jobs[s].user] = [m \in Nodes |-> Null]]
      BY <1>3, OfJob DEF DeleteAccessRows, At
    <2> QED
      BY <2>1 DEF TypeOK
  <1>4. CASE UpsertAccess(s)
    <2> DEFINE job == jobs[s]
               m == First(job.todo)
    <2>1. /\ job.user \in Users /\ m \in Nodes /\ At(s, "upsert")
          /\ access' = [access EXCEPT ![job.user][m] = Upserted(job)]
      BY <1>4, WritesAccess DEF UpsertAccess, Upserted, At
    <2>2. CASE u = job.user /\ n = m
      <3>1. access[u][n].uuids[t] # 0 /\ job.old[t] = access[u][n].uuids[t]
        BY <2>1, <2>2 DEF Agreed
      <3>2. Upserted(job).uuids[t] = job.old[t]
        BY <2>1, <3>1, UpsertedRow
      <3>3. access'[u][n] = Upserted(job)
        BY <2>1, <2>2 DEF TypeOK
      <3> QED
        BY <3>1, <3>2, <3>3
    <2>3. CASE ~(u = job.user /\ n = m)
      BY <2>1, <2>3 DEF TypeOK
    <2> QED
      BY <2>2, <2>3
  <1> QED
    BY <1>1, <1>2, <1>3, <1>4, KeepsGrants DEF StepOf

\* Uuids agreed on stay agreed on as long as the row stays.
LEMMA StepSettles ==
    ASSUME TypeOK, NEW s \in Slots, StepOf(s), NEW u \in Users, NEW n \in Nodes,
           NEW t \in Tags, Agreed(u, n, t), access'[u][n] # Null
    PROVE  Agreed(u, n, t)' /\ access'[u][n].uuids[t] = access[u][n].uuids[t]
  <1>1. access'[u][n].uuids[t] = access[u][n].uuids[t]
    BY StoresAgreed
  <1>2. ASSUME NEW r \in Slots, jobs'[r].user = u, jobs'[r].kind # "none",
               jobs'[r].pc = "upsert", n = First(jobs'[r].todo)
        PROVE  jobs'[r].old[t] = access'[u][n].uuids[t]
    <2>1. CASE r = s
      <3>1. jobs'[s].old = Stored(access[u][n]) /\ access' = access
        BY <1>2, <2>1, OnlyReadsArm
      <3> QED
        BY <2>1, <3>1 DEF Stored, Agreed
    <2>2. CASE r # s
      <3>1. jobs'[r] = jobs[r]
        BY <2>2, OwnSlot
      <3>2. jobs[r].old[t] = access[u][n].uuids[t]
        BY <1>2, <3>1 DEF Agreed, At
      <3> QED
        BY <1>1, <3>1, <3>2
    <2> QED
      BY <2>1, <2>2
  <1> QED
    BY <1>1, <1>2 DEF Agreed, At

\* "configs already shared with a user keep working after edits" (UuidsSettle):
\* with any number of creates, updates and deletes under way for one user, a
\* uuid is final once the writes that read the row before it are through.
THEOREM UuidsSettleForGood == Spec => UuidsSettle
  <1> DEFINE Settles == \A u \in Users, n \in Nodes, t \in Tags :
          (Agreed(u, n, t) /\ access'[u][n] # Null)
             => Agreed(u, n, t)' /\ access'[u][n].uuids[t] = access[u][n].uuids[t]
  <1>1. TypeOK /\ [Next]_vars => [Settles]_vars
    BY StepSettles, NextSteps
  <1>2. Spec => [][Settles]_vars
    BY <1>1, TypeCorrect, PTL DEF Spec
  <1> QED
    BY <1>2 DEF UuidsSettle

-----------------------------------------------------------------------------
(* One request at a time: what a request relies on from one statement to   *)
(* the next.  Two at a time break the orphan rule (the run UserAdmin_orphan *)
(* shows it), so these theorems assume a single slot; UserPage puts         *)
(* rotations of the token beside it.                                       *)

SerialOK(job) ==
    /\ job.pc \in {"replace", "list", "remove", "get", "upsert"} => users[job.user] # Null
    /\ job.pc \in {"list", "remove"} => job.kind = "update"
    /\ job.pc = "delete-user" => \A n \in Nodes : access[job.user][n] = Null
    /\ job.pc = "remove" =>
          \A n \in Nodes : access[job.user][n] # Null => n \in job.todo \cup Listed(job.access)
    /\ (job.kind = "update" /\ job.pc \in {"get", "upsert"}) =>
          \A n \in Nodes : access[job.user][n] # Null => n \in Listed(job.access)

SerialInv(r) == TypeOK /\ NoOrphanAccess /\ SerialOK(jobs[r])

LEMMA SerialStep ==
    ASSUME NEW r \in Slots, TypeOK, TypeOK', NoOrphanAccess', SerialOK(jobs[r])'
    PROVE  SerialInv(r)'
  BY DEF SerialInv

LEMMA FreeSerial ==
    ASSUME NEW s \in Slots, TypeOK, Becomes(s, Free)
    PROVE  SerialOK(jobs[s])'
  BY DEF SerialOK, Free, Becomes, TypeOK

\* Requests arrive, pass their checks and end while the tables stay.
LEMMA SerialQuiet ==
    ASSUME NEW r \in Slots, SerialInv(r), TypeOK', UNCHANGED <<users, access>>,
           \/ StartCreate(r) \/ StartUpdate(r) \/ StartDelete(r) \/ StartSubToken(r)
           \/ Check(r) \/ Die(r)
    PROVE  SerialInv(r)'
  <1>1. NoOrphanAccess'
    BY DEF SerialInv, NoOrphanAccess
  <1>2. CASE \/ StartCreate(r) \/ StartUpdate(r) \/ StartDelete(r) \/ StartSubToken(r)
    <2>1. jobs'[r].pc = "check"
      <3> DEFINE Arrived == \E job : job.pc = "check" /\ jobs' = [jobs EXCEPT ![r] = job]
      <3>1. StartCreate(r) => Arrived
        BY DEF StartCreate, Arrive, Free
      <3>2. StartUpdate(r) => Arrived
        BY DEF StartUpdate, Arrive, Free
      <3>3. StartDelete(r) => Arrived
        BY DEF StartDelete, Arrive, Free
      <3>4. StartSubToken(r) => Arrived
        BY DEF StartSubToken, Arrive, Free
      <3>5. r \in Slots /\ jobs \in [Slots -> Request]
        BY DEF SerialInv, TypeOK
      <3> QED
        BY <1>2, <3>1, <3>2, <3>3, <3>4, <3>5
    <2>2. SerialOK(jobs[r])'
      BY <2>1 DEF SerialOK
    <2> QED
      BY <1>1, <2>2, SerialStep DEF SerialInv
  <1>3. CASE Check(r)
    <2> DEFINE job == jobs[r]
    <2>1. job \in Request /\ job.kind \in AllKinds
      BY <1>3 DEF Check, At, SerialInv, TypeOK, Request
    <2>2. CASE (job.kind = "create") = (users[job.user] = Null)
      <3>1. /\ jobs'[r].pc = AfterCheck(job.kind) /\ jobs'[r].user = job.user
            /\ jobs'[r].kind = job.kind /\ jobs'[r].row = users[job.user]
        BY <1>3, <2>1, <2>2 DEF Check, Becomes, SerialInv, TypeOK, Request
      <3>2. jobs'[r].pc \in {"insert", "replace", "delete-access", "set-token"}
            /\ (jobs'[r].pc = "replace" => job.kind # "create")
        BY <2>1, <3>1 DEF AfterCheck, AllKinds
      <3>3. SerialOK(jobs[r])'
        BY <2>2, <3>1, <3>2 DEF SerialOK
      <3> QED
        BY <1>1, <3>3, SerialStep DEF SerialInv
    <2>3. CASE ~((job.kind = "create") = (users[job.user] = Null))
      BY <1>1, <1>3, <2>3, FreeSerial, SerialStep DEF Check, SerialInv
    <2> QED
      BY <2>2, <2>3
  <1>4. CASE Die(r)
    BY <1>1, <1>4, FreeSerial, SerialStep DEF Die, SerialInv
  <1> QED
    BY <1>2, <1>3, <1>4

\* A request that goes on to write has what it needs.
LEMMA SerialWriting ==
    ASSUME NEW s \in Slots, TypeOK, NEW job \in Request, NEW todo \in SUBSET Nodes,
           Becomes(s, Writing(job, todo)), users'[job.user] # Null,
           todo \subseteq Listed(job.access),
           job.kind = "update" =>
              \A n \in Nodes : access'[job.user][n] # Null => n \in Listed(job.access)
    PROVE  SerialOK(jobs[s])'
  <1>1. CASE todo = {}
    BY <1>1, FreeSerial DEF Writing
  <1>2. CASE todo # {}
    <2>1. /\ jobs'[s] = [job EXCEPT !.todo = todo, !.pc = "get"]
          /\ jobs'[s].pc = "get" /\ jobs'[s].todo = todo /\ jobs'[s].user = job.user
          /\ jobs'[s].access = job.access /\ jobs'[s].kind = job.kind
      BY <1>2 DEF Becomes, Writing, TypeOK, Request
    <2> QED
      BY <2>1 DEF SerialOK
  <1> QED
    BY <1>1, <1>2

LEMMA SerialInsert ==
    ASSUME NEW r \in Slots, SerialInv(r), TypeOK', Insert(r)
    PROVE  SerialInv(r)'
  <1> DEFINE job == jobs[r]
  <1> r \in Slots /\ TypeOK
    BY DEF SerialInv
  <1>1. job \in Request /\ JobOK(job) /\ job.kind = "create" /\ job.user \in Users
    BY OfJob DEF Insert, At, JobOK
  <1>2. CASE users[job.user] # Null
    BY <1>2, FreeSerial, SerialStep DEF Insert, SerialInv, NoOrphanAccess
  <1>3. CASE users[job.user] = Null
    <2> DEFINE row == [status |-> job.status, note |-> job.note, token |-> minted + 1]
    <2>1. /\ users' = [users EXCEPT ![job.user] = row] /\ access' = access
          /\ Becomes(r, Writing(job, Listed(job.access)))
      BY <1>3 DEF Insert
    <2>2. row \in UserRow /\ row # Null
      BY <1>1, UsersAssumption DEF JobOK, TypeOK, UserRow
    <2>3. users'[job.user] # Null
      BY <1>1, <2>1, <2>2 DEF TypeOK
    <2>4. NoOrphanAccess'
      BY <2>1, <2>2 DEF SerialInv, NoOrphanAccess, TypeOK
    <2>5. Listed(job.access) \in SUBSET Nodes
      BY DEF Listed
    <2>6. SerialOK(jobs[r])'
      BY <1>1, <2>1, <2>3, <2>5, SerialWriting
    <2> QED
      BY <2>4, <2>6, SerialStep
  <1> QED
    BY <1>2, <1>3

LEMMA SerialReplace ==
    ASSUME NEW r \in Slots, SerialInv(r), TypeOK', Replace(r)
    PROVE  SerialInv(r)'
  <1> DEFINE job == jobs[r]
             u == job.user
             next == [job EXCEPT !.pc = "list"]
  <1> r \in Slots /\ TypeOK
    BY DEF SerialInv
  <1>1. /\ job \in Request /\ JobOK(job) /\ job.kind = "update" /\ job.row \in UserRow
        /\ u \in Users /\ job.pc = "replace"
    BY OfJob DEF Replace, At, JobOK
  <1>2. users[u] \in UserRow
    BY <1>1 DEF SerialInv, SerialOK, TypeOK
  <1>3. Replaced(job, users[u]) \in UserRow /\ Replaced(job, users[u]) # Null
    BY <1>1, <1>2, ReplacedIsRow, UsersAssumption
  <1>4. access' = access /\ users' = [users EXCEPT ![u] = Replaced(job, users[u])]
    BY <1>2, UsersAssumption DEF Replace
  <1>5. NoOrphanAccess' /\ users'[u] # Null
    BY <1>1, <1>3, <1>4 DEF SerialInv, NoOrphanAccess, TypeOK
  <1>6. CASE job.access = Null
    BY <1>5, <1>6, FreeSerial, SerialStep DEF Replace
  <1>7. CASE job.access # Null
    <2>1. /\ jobs'[r] = next /\ next.pc = "list" /\ next.kind = "update" /\ next.user = u
      BY <1>1, <1>7 DEF Replace, Becomes, TypeOK, Request
    <2>2. SerialOK(jobs[r])'
      BY <1>5, <2>1 DEF SerialOK
    <2> QED
      BY <1>5, <2>2, SerialStep
  <1> QED
    BY <1>6, <1>7

LEMMA SerialList ==
    ASSUME NEW r \in Slots, SerialInv(r), TypeOK', List(r)
    PROVE  SerialInv(r)'
  <1> DEFINE job == jobs[r]
             u == job.user
             next == [job EXCEPT !.todo = ToRemove(job), !.pc = "remove"]
  <1> r \in Slots /\ TypeOK
    BY DEF SerialInv
  <1>1. /\ job \in Request /\ job.kind = "update" /\ u \in Users /\ users[u] # Null
        /\ UNCHANGED <<users, access>>
    BY WritesAccess DEF List, At, SerialInv, SerialOK
  <1>2. NoOrphanAccess'
    BY <1>1 DEF SerialInv, NoOrphanAccess
  <1>3. CASE ToRemove(job) = {}
    <2>1. \A n \in Nodes : access'[u][n] # Null => n \in Listed(job.access)
      BY <1>1, <1>3 DEF ToRemove
    <2>2. Listed(job.access) \in SUBSET Nodes
      BY DEF Listed
    <2>3. SerialOK(jobs[r])'
      BY <1>1, <1>3, <2>1, <2>2, SerialWriting DEF List
    <2> QED
      BY <1>2, <2>3, SerialStep
  <1>4. CASE ToRemove(job) # {}
    <2>1. /\ jobs'[r] = next /\ next.pc = "remove" /\ next.kind = "update"
          /\ next.user = u /\ next.todo = ToRemove(job) /\ next.access = job.access
      BY <1>1, <1>4 DEF List, Becomes, TypeOK, Request
    <2>2. \A n \in Nodes : access'[u][n] # Null => n \in ToRemove(job) \cup Listed(job.access)
      BY <1>1 DEF ToRemove
    <2>3. SerialOK(jobs[r])'
      BY <1>1, <2>1, <2>2 DEF SerialOK
    <2> QED
      BY <1>2, <2>3, SerialStep
  <1> QED
    BY <1>3, <1>4

LEMMA SerialRemove ==
    ASSUME NEW r \in Slots, SerialInv(r), TypeOK', Remove(r)
    PROVE  SerialInv(r)'
  <1> DEFINE job == jobs[r]
             u == job.user
             n == First(job.todo)
             next == [job EXCEPT !.todo = @ \ {n}]
  <1> r \in Slots /\ TypeOK
    BY DEF SerialInv
  <1>1. /\ job \in Request /\ job.kind = "update" /\ u \in Users /\ users[u] # Null
        /\ n \in Nodes /\ n \in job.todo /\ job.pc = "remove" /\ users' = users
        /\ access' = [access EXCEPT ![u][n] = Null]
    BY WritesAccess DEF Remove, At, SerialInv, SerialOK
  <1>2. NoOrphanAccess'
    BY <1>1 DEF SerialInv, NoOrphanAccess, TypeOK
  <1>3. \A m \in Nodes : access'[u][m] # Null => m \in (job.todo \ {n}) \cup Listed(job.access)
    BY <1>1 DEF SerialInv, SerialOK, TypeOK
  <1>4. CASE job.todo = {n}
    <2>1. Listed(job.access) \in SUBSET Nodes
      BY DEF Listed
    <2>2. SerialOK(jobs[r])'
      BY <1>1, <1>3, <1>4, <2>1, SerialWriting DEF Remove
    <2> QED
      BY <1>2, <2>2, SerialStep
  <1>5. CASE job.todo # {n}
    <2>1. /\ jobs'[r] = next /\ next.pc = "remove" /\ next.kind = "update"
          /\ next.user = u /\ next.todo = job.todo \ {n} /\ next.access = job.access
      BY <1>1, <1>5 DEF Remove, Becomes, TypeOK, Request
    <2>2. SerialOK(jobs[r])'
      BY <1>1, <1>3, <2>1 DEF SerialOK
    <2> QED
      BY <1>2, <2>2, SerialStep
  <1> QED
    BY <1>4, <1>5

LEMMA SerialGetAccess ==
    ASSUME NEW r \in Slots, SerialInv(r), TypeOK', GetAccess(r)
    PROVE  SerialInv(r)'
  <1> DEFINE job == jobs[r]
             u == job.user
             old == Stored(access[u][First(job.todo)])
             next == [job EXCEPT !.pc = "upsert", !.old = old]
  <1> r \in Slots /\ TypeOK
    BY DEF SerialInv
  <1>1. job \in Request /\ job.pc = "get" /\ UNCHANGED <<users, access>>
    BY WritesAccess DEF GetAccess, At
  <1>2. /\ jobs'[r] = next /\ next.pc = "upsert" /\ next.kind = job.kind /\ next.old = old
        /\ next.user = u /\ next.todo = job.todo /\ next.access = job.access
    BY <1>1 DEF GetAccess, Becomes, Stored, TypeOK, Request
  <1>3. SerialOK(jobs[r])'
    BY <1>1, <1>2 DEF SerialInv, SerialOK
  <1> QED
    BY <1>1, <1>3, SerialStep DEF SerialInv, NoOrphanAccess

\* The row that upsertAccess stores, seen from the table it is stored in.
LEMMA UpsertStores ==
    ASSUME NEW r \in Slots, SerialInv(r), UpsertAccess(r)
    PROVE  LET job == jobs[r]
               n == First(job.todo)
           IN /\ job \in Request /\ job.user \in Users /\ users[job.user] # Null
              /\ job.todo \in SUBSET Nodes /\ n \in job.todo /\ n \in Listed(job.access)
              /\ n \in Nodes /\ job.kind # "none" /\ job.pc = "upsert"
              /\ users' = users /\ Upserted(job) # Null
              /\ access' = [access EXCEPT ![job.user][n] = Upserted(job)]
              /\ Granted(access'[job.user][n]) = job.access[n]
              /\ \A m \in Nodes \ {n} : access'[job.user][m] = access[job.user][m]
  <1> DEFINE job == jobs[r]
             n == First(job.todo)
  <1> r \in Slots /\ TypeOK
    BY DEF SerialInv
  <1>1. /\ job \in Request /\ JobOK(job) /\ job.user \in Users /\ users[job.user] # Null
        /\ job.todo \in SUBSET Nodes /\ n \in job.todo /\ n \in Nodes
        /\ job.kind # "none" /\ job.pc = "upsert" /\ users' = users
        /\ access' = [access EXCEPT ![job.user][n] = Upserted(job)]
    BY WritesAccess DEF UpsertAccess, Upserted, At, SerialInv, SerialOK
  <1>2. n \in Listed(job.access)
    BY <1>1 DEF JobOK
  <1>3. Upserted(job) \in AccessRow /\ Upserted(job) # Null
    BY <1>1, UpsertedRow, UsersAssumption DEF At
  <1>4. access'[job.user][n] = Upserted(job)
    BY <1>1 DEF TypeOK
  <1>5. Granted(access'[job.user][n]) = job.access[n]
    BY <1>3, <1>4 DEF Granted, Upserted
  <1>6. \A m \in Nodes \ {n} : access'[job.user][m] = access[job.user][m]
    BY <1>1 DEF TypeOK
  <1> QED
    BY <1>1, <1>2, <1>3, <1>5, <1>6

LEMMA SerialUpsert ==
    ASSUME NEW r \in Slots, SerialInv(r), TypeOK', UpsertAccess(r)
    PROVE  SerialInv(r)'
  <1> DEFINE job == jobs[r]
             u == job.user
             n == First(job.todo)
             done == [job EXCEPT !.old = NoUuids]
             left == job.todo \ {n}
  <1> r \in Slots /\ TypeOK
    BY DEF SerialInv
  <1>1. /\ job \in Request /\ u \in Users /\ users[u] # Null /\ users' = users
        /\ job.todo \in SUBSET Nodes /\ n \in Listed(job.access) /\ n \in job.todo
        /\ job.pc = "upsert" /\ n \in Nodes
        /\ access' = [access EXCEPT ![u][n] = Upserted(job)]
        /\ Granted(access'[u][n]) = job.access[n]
        /\ \A m \in Nodes \ {n} : access'[u][m] = access[u][m]
    BY UpsertStores
  <1>2. NoOrphanAccess'
    BY <1>1 DEF SerialInv, NoOrphanAccess, TypeOK
  <1>3. /\ done \in Request /\ done.user = u /\ done.access = job.access
        /\ done.kind = job.kind
    BY <1>1 DEF Request, NoUuids
  <1>4. left \in SUBSET Nodes /\ left \subseteq Listed(done.access)
    BY <1>1, <1>3 DEF TypeOK, JobOK
  <1>5. done.kind = "update" =>
          \A m \in Nodes : access'[u][m] # Null => m \in Listed(done.access)
    BY <1>1, <1>3 DEF SerialInv, SerialOK
  <1>6. SerialOK(jobs[r])'
    <2>1. Becomes(r, Writing(done, left))
      BY DEF UpsertAccess
    <2>2. /\ users'[done.user] # Null
          /\ done.kind = "update" =>
                \A m \in Nodes : access'[done.user][m] # Null => m \in Listed(done.access)
      BY <1>1, <1>3, <1>5
    <2> HIDE DEF done, left
    <2> QED
      BY <1>3, <1>4, <2>1, <2>2, SerialWriting
  <1> QED
    BY <1>2, <1>6, SerialStep

LEMMA SerialDelete ==
    ASSUME NEW r \in Slots, SerialInv(r), TypeOK',
           DeleteAccessRows(r) \/ DeleteUserRow(r) \/ SetSubToken(r)
    PROVE  SerialInv(r)'
  <1> DEFINE job == jobs[r]
             u == job.user
  <1> r \in Slots /\ TypeOK
    BY DEF SerialInv
  <1>1. job \in Request /\ u \in Users /\ users[u] \in UserRow \cup {Null}
    BY OfJob DEF DeleteAccessRows, DeleteUserRow, SetSubToken, At
  <1>2. CASE DeleteAccessRows(r)
    <2>1. /\ jobs'[r] = [job EXCEPT !.pc = "delete-user"] /\ users' = users
          /\ access' = [access EXCEPT ![u] = [n \in Nodes |-> Null]]
      BY <1>2 DEF DeleteAccessRows, Becomes, TypeOK
    <2>2. jobs'[r].pc = "delete-user" /\ jobs'[r].user = u
      BY <1>1, <2>1 DEF Request
    <2>3. NoOrphanAccess' /\ \A n \in Nodes : access'[u][n] = Null
      BY <1>1, <2>1 DEF SerialInv, NoOrphanAccess, TypeOK
    <2>4. SerialOK(jobs[r])'
      BY <2>2, <2>3 DEF SerialOK
    <2> QED
      BY <2>3, <2>4, SerialStep
  <1>3. CASE DeleteUserRow(r)
    <2>1. \A n \in Nodes : access[u][n] = Null
      BY <1>3 DEF DeleteUserRow, At, SerialInv, SerialOK
    <2>2. users' = [users EXCEPT ![u] = Null] /\ access' = access
      BY <1>3 DEF DeleteUserRow
    <2>3. NoOrphanAccess'
      BY <1>1, <2>1, <2>2 DEF SerialInv, NoOrphanAccess, TypeOK
    <2> QED
      BY <1>3, <2>3, FreeSerial, SerialStep DEF DeleteUserRow
  <1>4. CASE SetSubToken(r)
    <2>1. \A w \in Users : users[w] # Null => users'[w] # Null
      BY <1>1, <1>4, UsersAssumption DEF SetSubToken, TypeOK, UserRow
    <2>2. NoOrphanAccess'
      BY <1>4, <2>1 DEF SetSubToken, SerialInv, NoOrphanAccess
    <2> QED
      BY <1>4, <2>2, FreeSerial, SerialStep DEF SetSubToken
  <1> QED
    BY <1>2, <1>3, <1>4

LEMMA SerialNext ==
    ASSUME NEW r \in Slots, SerialInv(r), StepOf(r) \/ UNCHANGED vars
    PROVE  SerialInv(r)'
  <1>1. TypeOK'
    BY StepTypes, NextSteps DEF SerialInv
  <1>2. CASE UNCHANGED vars
    BY <1>1, <1>2 DEF vars, SerialInv, NoOrphanAccess, SerialOK
  <1>3. CASE \/ StartCreate(r) \/ StartUpdate(r) \/ StartDelete(r) \/ StartSubToken(r)
             \/ Check(r) \/ Die(r)
    <2>1. UNCHANGED <<users, access>>
      BY <1>3 DEF StartCreate, StartUpdate, StartDelete, StartSubToken, Arrive, Check, Die
    <2> QED
      BY <1>1, <1>3, <2>1, SerialQuiet
  <1>4. CASE \/ Insert(r) \/ Replace(r) \/ List(r) \/ Remove(r)
             \/ GetAccess(r) \/ UpsertAccess(r)
    BY <1>1, <1>4, SerialInsert, SerialReplace, SerialList, SerialRemove,
       SerialGetAccess, SerialUpsert
  <1>5. CASE DeleteAccessRows(r) \/ DeleteUserRow(r) \/ SetSubToken(r)
    BY <1>1, <1>5, SerialDelete
  <1> QED
    BY <1>2, <1>3, <1>4, <1>5 DEF StepOf

LEMMA SerialInit == ASSUME NEW r \in Slots, Init PROVE SerialInv(r)
  BY InitTypes DEF Init, SerialInv, SerialOK, NoOrphanAccess, Free

\* With one request at a time there is never an access row of a missing user
\* (NoOrphanAccess), whatever dies.
THEOREM NoOrphansWhenSerial ==
    ASSUME NEW r, Slots = {r}
    PROVE  Spec => []NoOrphanAccess
  <1>1. Init => SerialInv(r)
    BY SerialInit
  <1>2. SerialInv(r) /\ [Next]_vars => SerialInv(r)'
    BY SerialNext, NextSteps
  <1>3. SerialInv(r) => NoOrphanAccess
    BY DEF SerialInv
  <1> QED
    BY <1>1, <1>2, <1>3, PTL DEF Spec

\* With one request at a time an update has taken away all it is to take
\* before it grants anything (RevokesFirst).
THEOREM RevokesFirstWhenSerial ==
    ASSUME NEW r, Slots = {r}
    PROVE  Spec => []RevokesFirst
  <1>1. Init => SerialInv(r)
    BY SerialInit
  <1>2. SerialInv(r) /\ [Next]_vars => SerialInv(r)'
    BY SerialNext, NextSteps
  <1>3. SerialInv(r) => RevokesFirst
    BY DEF SerialInv, SerialOK, RevokesFirst
  <1> QED
    BY <1>1, <1>2, <1>3, PTL DEF Spec
=============================================================================
