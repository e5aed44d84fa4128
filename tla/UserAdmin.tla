----------------------------- MODULE UserAdmin -----------------------------
(***************************************************************************)
(* The users and user_node_access tables under the admin's user endpoints  *)
(* (src/src/routers/admin_users.ts over user_service.ts and db.ts): create, *)
(* partial update with an authoritative access map, delete, and rotation   *)
(* of the subscription token.  One action per D1 statement: two requests   *)
(* of the admin interleave at every statement and a request may die        *)
(* between two of them.                                                    *)
(*                                                                         *)
(* A grant is the list of outbound tags of an access entry (the inbound    *)
(* list is stored beside it, verbatim, by the same statement).  A uuid is  *)
(* the number of its minting, a subscription token likewise.  Nodes are    *)
(* numbered in the order of their ids and are never deleted, so that       *)
(* unknownNodeIds finds every node of a payload.                           *)
(***************************************************************************)
EXTENDS Naturals

CONSTANTS
    Users,        \* usernames
    NumNodes,     \* how many nodes there are
    Tags,         \* outbound tags a grant may list
    Notes,        \* contents of the note and expire columns
    Payloads,     \* access maps that clients of the endpoints send
    Slots,        \* requests that may be open at once
    Kinds,        \* endpoints the admin uses
    MaxRequests,  \* bound on requests
    MaxDeaths,    \* bound on requests that die at an await
    Null

Nodes == 1 .. NumNodes
AllKinds == {"create", "update", "delete", "sub-token"}
Status == {"active", "disabled"}

UserRow == [status : Status, note : Notes, token : Nat]

\* A uuid of 0 stands for a tag without an entry in the map.
NoUuids == [t \in Tags |-> 0]
AccessRow == [grant : SUBSET Tags, uuids : [Tags -> Nat]]

\* An access payload: a grant for each node it lists, Null for the others.
AccessIn == [Nodes -> (SUBSET Tags) \cup {Null}]

ASSUME UsersAssumption ==
    /\ NumNodes \in Nat /\ MaxRequests \in Nat
    /\ Kinds \subseteq AllKinds /\ Payloads \subseteq AccessIn
    /\ Null \notin Users /\ Null \notin Notes /\ Null \notin Status
    /\ \A grant \in SUBSET Tags : Null # grant
    /\ Null \notin AccessIn /\ Null \notin UserRow /\ Null \notin AccessRow

VARIABLES
    users,     \* the users rows: [status, note, token], or Null for no row
    access,    \* the user_node_access rows: [grant, uuids], or Null
    jobs,      \* the requests under way
    minted,    \* how many tokens and uuids were drawn
    requests, deaths

vars == <<users, access, jobs, minted, requests, deaths>>

\* The nodes of a payload, and the first of some nodes by id.
Listed(payload) == {n \in Nodes : payload[n] # Null}
First(ns) == CHOOSE n \in ns : \A m \in ns : n <= m

Steps == {"check", "insert", "replace", "list", "remove", "get", "upsert",
          "delete-access", "delete-user", "set-token"}

\* A request and what it keeps between its statements.
Request ==
    [kind : AllKinds \cup {"none"}, pc : Steps, user : Users \cup {Null},
     status : Status \cup {Null}, note : Notes \cup {Null},
     access : AccessIn \cup {Null}, row : UserRow \cup {Null},
     todo : SUBSET Nodes, old : [Tags -> Nat]]
Free == [kind |-> "none", pc |-> "check", user |-> Null, status |-> Null,
         note |-> Null, access |-> Null, row |-> Null, todo |-> {}, old |-> NoUuids]

-----------------------------------------------------------------------------
(* Requests arrive with a payload.                                         *)

Arrive(s, job) ==
    /\ jobs[s].kind = "none" /\ requests < MaxRequests
    /\ job.kind \in Kinds
    /\ requests' = requests + 1
    /\ jobs' = [jobs EXCEPT ![s] = job]
    /\ UNCHANGED <<users, access, minted, deaths>>

\* UserCreate: every field is set and the access map may be empty.
StartCreate(s) ==
    \E u \in Users, st \in Status, note \in Notes, a \in Payloads :
        Arrive(s, [Free EXCEPT !.kind = "create", !.user = u, !.status = st,
                               !.note = note, !.access = a])

\* UserUpdate: null leaves a field, or the whole access map, unchanged.
StartUpdate(s) ==
    \E u \in Users, st \in Status \cup {Null}, note \in Notes \cup {Null},
       a \in Payloads \cup {Null} :
        Arrive(s, [Free EXCEPT !.kind = "update", !.user = u, !.status = st,
                               !.note = note, !.access = a])

StartDelete(s) ==
    \E u \in Users : Arrive(s, [Free EXCEPT !.kind = "delete", !.user = u])

StartSubToken(s) ==
    \E u \in Users : Arrive(s, [Free EXCEPT !.kind = "sub-token", !.user = u])

-----------------------------------------------------------------------------
(* The statements.                                                         *)

At(s, pc) == jobs[s].kind # "none" /\ jobs[s].pc = pc
Becomes(s, job) == jobs' = [jobs EXCEPT ![s] = job]

DeleteUserOnly(kind) ==
    CASE kind = "create" -> "insert" [] kind = "update" -> "replace"
      [] kind = "delete" -> "delete-user" [] kind = "sub-token" -> "set-token"
AfterCheck(kind) ==
    CASE kind = "create" -> "insert" [] kind = "update" -> "replace"
      [] kind = "delete" -> "delete-access" [] kind = "sub-token" -> "set-token"

\* getUser: create wants no row (409), the others want one (404).
Check(s) ==
    LET job == jobs[s] IN
    /\ At(s, "check")
    /\ Becomes(s, IF (job.kind = "create") = (users[job.user] = Null)
                  THEN [job EXCEPT !.row = users[job.user], !.pc = AfterCheck(job.kind)]
                  ELSE Free)
    /\ UNCHANGED <<users, access, minted, requests, deaths>>

\* Where a request goes with nodes left to write an access row for, or none.
Writing(job, todo) ==
    IF todo = {} THEN Free ELSE [job EXCEPT !.todo = todo, !.pc = "get"]

\* db.createUser with a fresh token; the primary key refuses a second row (500).
Insert(s) ==
    LET job == jobs[s] IN
    /\ At(s, "insert")
    /\ \/ /\ users[job.user] # Null
          /\ Becomes(s, Free)
          /\ UNCHANGED <<users, minted>>
       \/ /\ users[job.user] = Null
          /\ minted' = minted + 1
          /\ users' = [users EXCEPT ![job.user] =
                [status |-> job.status, note |-> job.note, token |-> minted + 1]]
          /\ Becomes(s, Writing(job, Listed(job.access)))
    /\ UNCHANGED <<access, requests, deaths>>

Or(new, old) == IF new # Null THEN new ELSE old

\* What replaceUser leaves in a row `now`, the request having read `read`.
ReplaceAll(job, now) ==
    [job.row EXCEPT !.status = Or(job.status, job.row.status),
                    !.note = Or(job.note, job.row.note)]
ReplaceWithPayload(job, now) ==
    [now EXCEPT !.status = job.status, !.note = Or(job.note, job.row.note)]
Replaced(job, now) ==
    [now EXCEPT !.status = Or(job.status, job.row.status),
                !.note = Or(job.note, job.row.note)]

\* replaceUser: the merged editable columns; no row is touched if it is gone.
Replace(s) ==
    LET job == jobs[s] IN
    /\ At(s, "replace")
    /\ users' = IF users[job.user] = Null THEN users
                ELSE [users EXCEPT ![job.user] = Replaced(job, @)]
    /\ Becomes(s, IF job.access = Null THEN Free ELSE [job EXCEPT !.pc = "list"])
    /\ UNCHANGED <<access, minted, requests, deaths>>

\* listAccessForUser: the nodes whose row the payload leaves out lose it.
ToRemoveNothing(job) == {}
ToRemove(job) ==
    {n \in Nodes : access[job.user][n] # Null} \ Listed(job.access)

List(s) ==
    LET job == jobs[s] IN
    /\ At(s, "list")
    /\ Becomes(s, IF ToRemove(job) = {} THEN Writing(job, Listed(job.access))
                  ELSE [job EXCEPT !.todo = ToRemove(job), !.pc = "remove"])
    /\ UNCHANGED <<users, access, minted, requests, deaths>>

\* deleteAccess of the next node in order.
Remove(s) ==
    LET job == jobs[s]
        n == First(job.todo)
    IN /\ At(s, "remove")
       /\ access' = [access EXCEPT ![job.user][n] = Null]
       /\ Becomes(s, IF job.todo = {n} THEN Writing(job, Listed(job.access))
                     ELSE [job EXCEPT !.todo = @ \ {n}])
       /\ UNCHANGED <<users, minted, requests, deaths>>

\* writeAccess: getAccess of the next node in order.
ReadNothing(row) == NoUuids
Stored(row) == IF row = Null THEN NoUuids ELSE row.uuids

GetAccess(s) ==
    LET job == jobs[s]
        n == First(job.todo)
    IN /\ At(s, "get")
       /\ Becomes(s, [job EXCEPT !.pc = "upsert", !.old = Stored(access[job.user][n])])
       /\ UNCHANGED <<users, access, minted, requests, deaths>>

\* ensureUuids: a tag with a uuid keeps it, every other granted tag gets one.
MintForNewRowsOnly(grant, old, next) ==
    IF old = NoUuids THEN [t \in Tags |-> IF t \in grant THEN next ELSE 0] ELSE old
MintAll(grant, old, next) == [t \in Tags |-> IF t \in grant THEN next ELSE old[t]]
EnsureUuids(grant, old, next) ==
    [t \in Tags |-> IF old[t] = 0 /\ t \in grant THEN next ELSE old[t]]

\* writeAccess: upsertAccess of that node.  The uuids minted by one statement
\* share a number: they are told apart by their node and tag.
UpsertAccess(s) ==
    LET job == jobs[s]
        n == First(job.todo)
    IN /\ At(s, "upsert")
       /\ minted' = minted + 1
       /\ access' = [access EXCEPT ![job.user][n] =
             [grant |-> job.access[n],
              uuids |-> EnsureUuids(job.access[n], job.old, minted + 1)]]
       /\ Becomes(s, Writing([job EXCEPT !.old = NoUuids], job.todo \ {n}))
       /\ UNCHANGED <<users, requests, deaths>>

\* db.deleteUser: the access rows first, the user row next.
DeleteAccessRows(s) ==
    LET job == jobs[s] IN
    /\ At(s, "delete-access")
    /\ access' = [access EXCEPT ![job.user] = [n \in Nodes |-> Null]]
    /\ Becomes(s, [job EXCEPT !.pc = "delete-user"])
    /\ UNCHANGED <<users, minted, requests, deaths>>

DeleteUserRow(s) ==
    /\ At(s, "delete-user")
    /\ users' = [users EXCEPT ![jobs[s].user] = Null]
    /\ Becomes(s, Free)
    /\ UNCHANGED <<access, minted, requests, deaths>>

\* setSubToken: the old token dies with the statement.
SetSubToken(s) ==
    LET u == jobs[s].user IN
    /\ At(s, "set-token")
    /\ minted' = minted + 1
    /\ users' = IF users[u] = Null THEN users
                ELSE [users EXCEPT ![u].token = minted + 1]
    /\ Becomes(s, Free)
    /\ UNCHANGED <<access, requests, deaths>>

\* A request dies at an await: a failed statement, an evicted isolate.
Die(s) ==
    /\ jobs[s].kind # "none" /\ deaths < MaxDeaths
    /\ deaths' = deaths + 1
    /\ Becomes(s, Free)
    /\ UNCHANGED <<users, access, minted, requests>>

Init ==
    /\ users = [u \in Users |-> Null]
    /\ access = [u \in Users |-> [n \in Nodes |-> Null]]
    /\ jobs = [s \in Slots |-> Free]
    /\ minted = 0 /\ requests = 0 /\ deaths = 0

Next ==
    \E s \in Slots :
        \/ StartCreate(s) \/ StartUpdate(s) \/ StartDelete(s) \/ StartSubToken(s)
        \/ Check(s) \/ Insert(s) \/ Replace(s) \/ List(s) \/ Remove(s)
        \/ GetAccess(s) \/ UpsertAccess(s)
        \/ DeleteAccessRows(s) \/ DeleteUserRow(s) \/ SetSubToken(s)
        \/ Die(s)

Spec == Init /\ [][Next]_vars

-----------------------------------------------------------------------------
(* Properties.                                                             *)

\* Rows and requests keep their shape; a request has read, been given and
\* still has to do what its next statement uses.
JobOK(job) ==
    /\ job.kind # "none" => job.user \in Users
    /\ job.kind = "create" =>
          job.status \in Status /\ job.note \in Notes /\ job.access \in AccessIn
    /\ job.pc = "insert" => job.kind = "create"
    /\ job.pc = "replace" => job.kind = "update" /\ job.row \in UserRow
    /\ job.pc \in {"list", "remove", "get", "upsert"} =>
          job.kind # "none" /\ job.access \in AccessIn
    /\ job.pc \in {"remove", "get", "upsert"} => job.todo # {}
    /\ job.pc \in {"get", "upsert"} => job.todo \subseteq Listed(job.access)

TypeOK ==
    /\ users \in [Users -> UserRow \cup {Null}]
    /\ access \in [Users -> [Nodes -> AccessRow \cup {Null}]]
    /\ jobs \in [Slots -> Request]
    /\ \A s \in Slots : JobOK(jobs[s])
    /\ minted \in Nat

\* Every outbound a user is granted has a uuid, so that the render gives the
\* user a client there (writeAccess, whatever else writes the row).
UuidForEveryGrant ==
    \A u \in Users, n \in Nodes : access[u][n] # Null =>
        \A t \in access[u][n].grant : access[u][n].uuids[t] # 0

\* "the profile edit path overwrites the user's editable columns and must
\* never clobber the token" (db.ts, setSubToken).
EditsKeepToken ==
    [][\A u \in Users :
          (users[u] # Null /\ users'[u] # Null /\ users'[u].token # users[u].token)
             => \E s \in Slots : SetSubToken(s)]_vars

\* "never an access row pointing at a missing user" (db.ts, deleteUser), also
\* when a request dies between two statements.
NoOrphanAccess ==
    \A u \in Users, n \in Nodes : access[u][n] # Null => users[u] # Null

\* "Existing tags keep their uuid - configs already shared with a user keep
\* working after edits" (user_service.ts, ensureUuids).
UuidsStable ==
    [][\A u \in Users, n \in Nodes, t \in Tags :
          (access[u][n] # Null /\ access'[u][n] # Null /\ access[u][n].uuids[t] # 0)
             => access'[u][n].uuids[t] = access[u][n].uuids[t]]_vars

\* The uuid of a tag is stored, and every write under way read that same uuid.
Agreed(u, n, t) ==
    /\ access[u][n] # Null /\ access[u][n].uuids[t] # 0
    /\ \A s \in Slots :
          (jobs[s].user = u /\ At(s, "upsert") /\ n = First(jobs[s].todo))
             => jobs[s].old[t] = access[u][n].uuids[t]

\* What is left of that promise when requests for one user overlap: two of them
\* may mint for the same tag and the later write wins, but once the writes that
\* read the row before are through, the uuid stays as long as the row does.
UuidsSettle ==
    [][\A u \in Users, n \in Nodes, t \in Tags :
          (Agreed(u, n, t) /\ access'[u][n] # Null)
             => Agreed(u, n, t)' /\ access'[u][n].uuids[t] = access[u][n].uuids[t]]_vars

Granted(row) == IF row = Null THEN Null ELSE row.grant

\* When an update with an access map has stored its last row, the user has
\* exactly the access of the payload: "the payload is the complete desired
\* state - nodes left out of it lose their row" (user_service.ts, updateUser).
AccessIsAuthoritative ==
    [][\A s \in Slots :
          (/\ jobs[s].kind = "update" /\ jobs[s].access # Null
           /\ jobs'[s].kind = "none" /\ (List(s) \/ Remove(s) \/ UpsertAccess(s)))
             => \A n \in Nodes :
                   Granted(access'[jobs[s].user][n]) = jobs[s].access[n]]_vars

\* An update takes access away before it grants any: cut short anywhere, it
\* never leaves a new grant beside one it was to revoke.
RevokesFirst ==
    \A s \in Slots :
        (/\ jobs[s].kind = "update" /\ jobs[s].pc \in {"get", "upsert"})
           => \A n \in Nodes : access[jobs[s].user][n] # Null => n \in Listed(jobs[s].access)
=============================================================================
