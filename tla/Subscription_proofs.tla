------------------------- MODULE Subscription_proofs -------------------------
(***************************************************************************)
(* Proofs about Subscription, for any fleet, any users and any contents of *)
(* the tables: the requests keep their shape, and a request no edit        *)
(* overlaps answers as of one moment.  What a node's links and its render  *)
(* are made of plays no part in either.                                    *)
(***************************************************************************)
EXTENDS Subscription, Render_proofs, TLAPS

-----------------------------------------------------------------------------
(* Type correctness.                                                       *)

Configured(read) == \A n \in DOMAIN read : read[n].config \in Configs

\* What a phase of the walk has read, and what it has still to read.
Phased(j) ==
    /\ j = [kind |-> j.kind, pc |-> j.pc, user |-> j.user, todo |-> j.todo,
            rows |-> j.rows, read |-> j.read, entries |-> j.entries, links |-> j.links]
    /\ j.kind \in Kinds \cup {"none"}
    /\ j.pc \in {"user", "access", "node", "profiles", "keys"}
    /\ j.user \in Users
    /\ DOMAIN j.entries \subseteq DOMAIN j.read /\ DOMAIN j.read \subseteq DOMAIN j.rows
    /\ DOMAIN j.rows \subseteq Nodes /\ j.todo \subseteq Nodes
    /\ j.pc \in {"user", "access"} => DOMAIN j.rows = {}
    /\ j.pc = "node" => j.todo \subseteq DOMAIN j.rows
    /\ j.pc = "profiles" => j.todo \subseteq DOMAIN j.read
    /\ j.pc = "keys" => j.todo \subseteq DOMAIN j.entries
    /\ Configured(j.read)

\* A phase of several nodes has one to read.
JobTyped(j) == Phased(j) /\ (j.pc \in {"node", "profiles", "keys"} => j.todo # {})

AnswerTyped ==
    answer.kind \in Kinds \cup {"none"} /\ answer.status \in {200, 404, 409, 500, 503}

\* The inductive type invariant.
TypeInv ==
    /\ NodeRows(node) /\ UserRows(users, minted)
    /\ minted \in Nat /\ clock \in Nat
    /\ JobTyped(job) /\ AnswerTyped

LEMMA TypeInvIsTypeOK == TypeInv => TypeOK
  BY DEF TypeInv, TypeOK, NodeRows, UserRows, JobTyped, Phased, Configured, AnswerTyped

LEMMA IdleTyped == JobTyped(Idle) /\ Idle.kind = "none"
  BY TablesAssumption DEF JobTyped, Phased, Configured, Idle

LEMMA InitTypes == Init => TypeInv
  <1> SUFFICES ASSUME Init PROVE TypeInv
    OBVIOUS
  <1>1. AnswerTyped /\ clock \in Nat /\ job = Idle
    BY DEF Init, AnswerTyped, Answer
  <1>2. NodeRows(node) /\ UserRows(users, minted) /\ minted \in Nat
    BY TablesAssumption DEF Init
  <1> QED
    BY <1>1, <1>2, IdleTyped DEF TypeInv

LEMMA NextOfMany == ASSUME NEW ns, ns # {} PROVE Next1(ns) \in ns
  BY DEF Next1

LEMMA ReplyTypes ==
    ASSUME NEW status \in {200, 404, 409, 500, 503}, NEW links,
           job.kind \in Kinds, Reply(status, links)
    PROVE  JobTyped(job') /\ AnswerTyped'
  BY IdleTyped DEF Reply, Answer, AnswerTyped

\* What a read leaves in hand is a proper job, or an answer, again.
LEMMA ProceedTypes ==
    ASSUME AnswerTyped, NEW done, Phased(done), done.pc \in {"node", "profiles", "keys"},
           job.kind \in Kinds, Proceed(done)
    PROVE  JobTyped(job') /\ AnswerTyped'
  <1>1. CASE done.todo # {}
    BY <1>1 DEF Proceed, JobTyped, Unanswered, AnswerTyped
  <1>2. CASE done.todo = {} /\ done.pc = "node" /\ DOMAIN done.read # {}
    <2>1. job' = [done EXCEPT !.pc = "profiles", !.todo = DOMAIN done.read] /\ Unanswered
      BY <1>2 DEF Proceed
    <2>2. job' = [kind |-> done.kind, pc |-> "profiles", user |-> done.user,
                  todo |-> DOMAIN done.read, rows |-> done.rows, read |-> done.read,
                  entries |-> done.entries, links |-> done.links]
      BY <2>1 DEF Phased
    <2>3. AnswerTyped'
      BY <2>1 DEF Unanswered, AnswerTyped
    <2>4. Phased(job')
      BY <1>2, <2>2 DEF Phased
    <2> QED
      BY <1>2, <2>2, <2>3, <2>4 DEF JobTyped
  <1>3. CASE done.todo = {} /\ done.pc = "profiles" /\ DOMAIN done.entries # {}
    <2>1. job' = [done EXCEPT !.pc = "keys", !.todo = DOMAIN done.entries] /\ Unanswered
      BY <1>3 DEF Proceed
    <2>2. job' = [kind |-> done.kind, pc |-> "keys", user |-> done.user,
                  todo |-> DOMAIN done.entries, rows |-> done.rows, read |-> done.read,
                  entries |-> done.entries, links |-> done.links]
      BY <2>1 DEF Phased
    <2>3. AnswerTyped'
      BY <2>1 DEF Unanswered, AnswerTyped
    <2>4. Phased(job')
      BY <1>3, <2>2 DEF Phased
    <2> QED
      BY <1>3, <2>2, <2>3, <2>4 DEF JobTyped
  <1>4. CASE Reply(Status(done), IF Status(done) = 200 THEN done.links ELSE {})
    <2>1. Status(done) \in {200, 404, 409, 500, 503}
      BY DEF Status
    <2> QED
      BY <1>4, <2>1, ReplyTypes
  <1> QED
    BY <1>1, <1>2, <1>3, <1>4 DEF Proceed

\* splitConfigPairs keeps the nodes that have a config.
LEMMA ReadConfigured ==
    ASSUME NodeRows(node), NEW n \in Nodes, Configured(job.read),
           NEW read,
           read = IF node[n].config = Absent THEN job.read ELSE With(job.read, n, node[n])
    PROVE  Configured(read)
  <1>1. node[n].config \in Configs \cup {Absent}
    BY DEF NodeRows
  <1> QED
    BY <1>1 DEF With, Configured

LEMMA WorkTypes ==
    ASSUME TypeInv, Work
    PROVE  JobTyped(job') /\ AnswerTyped'
  <1>1. job.kind \in Kinds /\ Phased(job) /\ AnswerTyped
    BY DEF TypeInv, JobTyped, Phased, Work, LookUp, ReadAccess, ReadNode, ReadProfiles,
           ReadKeys, At
  <1>2. CASE LookUp
    <2>1. CASE job' = Idle
      <3>1. \E status \in {200, 404} : Reply(status, {})
        BY <1>1, <1>2, <2>1, IdleTyped DEF LookUp, Kinds, Phased
      <3> QED
        BY <1>1, <3>1, ReplyTypes
    <2>2. CASE job' # Idle
      <3>1. \E u \in Users : job' = [job EXCEPT !.user = u, !.pc = "access"] /\ Unanswered
        BY <1>1, <1>2, <2>2 DEF LookUp, Reply, Owner, Phased
      <3>2. PICK u \in Users : job' = [job EXCEPT !.user = u, !.pc = "access"] /\ Unanswered
        BY <3>1
      <3>3. job' = [kind |-> job.kind, pc |-> "access", user |-> u, todo |-> job.todo,
                    rows |-> job.rows, read |-> job.read, entries |-> job.entries,
                    links |-> job.links]
        BY <1>1, <3>2 DEF Phased
      <3>4. AnswerTyped'
        BY <1>1, <3>2 DEF Unanswered, AnswerTyped
      <3>5. Phased(job') /\ job'.pc = "access"
        BY <1>1, <1>2, <3>3 DEF Phased, LookUp, At
      <3> QED
        BY <3>4, <3>5 DEF JobTyped
    <2> QED
      BY <2>1, <2>2
  <1>3. CASE ReadAccess
    <2> DEFINE granted == {n \in Nodes : access[job.user][n] # Absent}
    <2>1. PICK rows, done :
              /\ DOMAIN rows = granted
              /\ done = [job EXCEPT !.pc = "node", !.todo = granted, !.rows = rows]
              /\ Proceed(done)
      <3> DEFINE r == [n \in granted |-> access[job.user][n]]
                 d == [job EXCEPT !.pc = "node", !.todo = granted, !.rows = r]
      <3>1. DOMAIN r = granted /\ Proceed(d)
        BY <1>3 DEF ReadAccess
      <3> HIDE DEF r
      <3> QED
        BY <3>1
    <2>2. done = [kind |-> job.kind, pc |-> "node", user |-> job.user, todo |-> granted,
                  rows |-> rows, read |-> job.read, entries |-> job.entries,
                  links |-> job.links]
      <3> HIDE DEF granted
      <3> QED
        BY <1>1, <2>1 DEF Phased
    <2>3. job.pc = "access"
      BY <1>3 DEF ReadAccess, At
    <2>4. Phased(done)
      BY <1>1, <2>1, <2>2, <2>3 DEF Phased
    <2> QED
      BY <1>1, <2>1, <2>2, <2>4, ProceedTypes
  <1>4. CASE ReadNode
    <2> DEFINE n == Next1(job.todo)
    <2>1. job.pc = "node" /\ n \in job.todo
      BY <1>4, NextOfMany DEF ReadNode, At, TypeInv, JobTyped
    <2>2. PICK read, done :
              /\ read = IF node[n].config = Absent THEN job.read ELSE With(job.read, n, node[n])
              /\ done = [job EXCEPT !.todo = @ \ {n}, !.read = read]
              /\ Proceed(done)
      BY <1>4 DEF ReadNode
    <2>3. DOMAIN job.read \subseteq DOMAIN read /\ DOMAIN read \subseteq DOMAIN job.read \cup {n}
      BY <2>2 DEF With
    <2>6. Configured(read)
      <3>1. NodeRows(node) /\ n \in Nodes /\ Configured(job.read)
        BY <1>1, <2>1 DEF TypeInv, Phased
      <3> HIDE DEF n
      <3> QED
        BY <2>2, <3>1, ReadConfigured
    <2> HIDE DEF n
    <2>4. done = [kind |-> job.kind, pc |-> "node", user |-> job.user, todo |-> job.todo \ {n},
                  rows |-> job.rows, read |-> read, entries |-> job.entries,
                  links |-> job.links]
      BY <1>1, <2>1, <2>2 DEF Phased
    <2>5. Phased(done)
      BY <1>1, <2>1, <2>3, <2>4, <2>6 DEF Phased
    <2> QED
      BY <1>1, <2>2, <2>4, <2>5, ProceedTypes
  <1>5. CASE ReadProfiles
    <2> DEFINE n == Next1(job.todo)
    <2>1. job.pc = "profiles" /\ n \in job.todo
      BY <1>5, NextOfMany DEF ReadProfiles, At, TypeInv, JobTyped
    <2>2. CASE Reply(500, {})
      BY <1>1, <2>2, ReplyTypes
    <2>3. CASE ~Reply(500, {})
      <3> DEFINE row == job.read[n]
                 entries == IF HasUsableAddress(row.config, row.address, Overridden(profiles[n]))
                            THEN With(job.entries, n, profiles[n]) ELSE job.entries
      <3>1. PICK done : /\ done = [job EXCEPT !.todo = @ \ {n}, !.entries = entries]
                        /\ Proceed(done)
        BY <1>5, <2>3 DEF ReadProfiles
      <3>2. DOMAIN entries \subseteq DOMAIN job.entries \cup {n}
        BY DEF With
      <3> HIDE DEF n, entries
      <3>3. done = [kind |-> job.kind, pc |-> "profiles", user |-> job.user,
                    todo |-> job.todo \ {n}, rows |-> job.rows, read |-> job.read,
                    entries |-> entries, links |-> job.links]
        BY <1>1, <2>1, <3>1 DEF Phased
      <3>4. Phased(done)
        BY <1>1, <2>1, <3>2, <3>3 DEF Phased
      <3> QED
        BY <1>1, <3>1, <3>3, <3>4, ProceedTypes
    <2> QED
      BY <2>2, <2>3
  <1>6. CASE ReadKeys
    <2> DEFINE n == Next1(job.todo)
    <2>1. job.pc = "keys"
      BY <1>6 DEF ReadKeys, At
    <2>2. CASE Reply(500, {})
      BY <1>1, <2>2, ReplyTypes
    <2>3. CASE ~Reply(500, {})
      <3>1. PICK links, done : /\ done = [job EXCEPT !.todo = @ \ {n}, !.links = links]
                               /\ Proceed(done)
        BY <1>6, <2>3 DEF ReadKeys
      <3> HIDE DEF n
      <3>2. done = [kind |-> job.kind, pc |-> "keys", user |-> job.user,
                    todo |-> job.todo \ {n}, rows |-> job.rows, read |-> job.read,
                    entries |-> job.entries, links |-> links]
        BY <1>1, <2>1, <3>1 DEF Phased
      <3>3. Phased(done)
        BY <1>1, <2>1, <3>2 DEF Phased
      <3> QED
        BY <1>1, <3>1, <3>2, <3>3, ProceedTypes
    <2> QED
      BY <2>2, <2>3
  <1> QED
    BY <1>2, <1>3, <1>4, <1>5, <1>6 DEF Work

\* An edit leaves the request alone.
LEMMA UnheardTypes ==
    ASSUME TypeInv, Unheard, NodeRows(node'), UserRows(users', minted'), minted' \in Nat
    PROVE  TypeInv'
  <1>1. JobTyped(job)' /\ AnswerTyped' /\ clock' \in Nat
    BY DEF TypeInv, Unheard, AnswerTyped, JobTyped, Phased
  <1> QED
    BY <1>1 DEF TypeInv, NodeRows, UserRows

LEMMA NodeEditTypes ==
    ASSUME TypeInv, NEW n \in Nodes,
           SaveConfig(n) \/ SetAddress(n) \/ SetProfile(n) \/ DeleteProfile(n) \/ RotateKey(n)
             \/ RenderNode(n)
    PROVE  TypeInv'
  <1>1. Unheard
    BY DEF SaveConfig, SetAddress, SetProfile, DeleteProfile, RotateKey, RenderNode, Edit
  <1>2. users' = users /\ minted' \in {minted, minted + 1}
    BY DEF SaveConfig, SetAddress, SetProfile, DeleteProfile, RotateKey, RenderNode
  <1>3. UserRows(users', minted') /\ minted' \in Nat
    BY <1>2 DEF TypeInv, UserRows
  <1>4. NodeRows(node')
    <2>1. CASE SaveConfig(n)
      BY <2>1 DEF SaveConfig, TypeInv, NodeRows
    <2>2. CASE SetAddress(n)
      BY <2>2 DEF SetAddress, TypeInv, NodeRows
    <2>3. CASE node' = node
      BY <2>3 DEF TypeInv, NodeRows
    <2> QED
      BY <2>1, <2>2, <2>3 DEF SetProfile, DeleteProfile, RotateKey, RenderNode
  <1> QED
    BY <1>1, <1>3, <1>4, UnheardTypes

LEMMA UserEditTypes ==
    ASSUME TypeInv, NEW u,
           \/ \E n \in Nodes : SetAccess(u, n) \/ DeleteAccess(u, n)
           \/ SetUser(u) \/ RotateToken(u) \/ DeleteUser(u)
    PROVE  TypeInv'
  <1>1. Unheard /\ node' = node
    BY DEF SetAccess, DeleteAccess, SetUser, RotateToken, DeleteUser, Edit
  <1>2. NodeRows(node') /\ minted \in Nat
    BY <1>1 DEF TypeInv, NodeRows
  <1>3. UserRows(users', minted') /\ minted' \in Nat
    <2>1. CASE users' = users /\ minted' \in {minted, minted + 1}
      BY <2>1 DEF TypeInv, UserRows
    <2>2. CASE SetUser(u)
      BY <2>2, TablesAssumption DEF SetUser, TypeInv, UserRows
    <2>3. CASE RotateToken(u)
      BY <2>3 DEF RotateToken, TypeInv, UserRows
    <2>4. CASE DeleteUser(u)
      BY <2>4 DEF DeleteUser, TypeInv, UserRows
    <2> QED
      BY <2>1, <2>2, <2>3, <2>4 DEF SetAccess, DeleteAccess
  <1> QED
    BY <1>1, <1>2, <1>3, UnheardTypes

LEMMA RequestTypes ==
    ASSUME TypeInv, NEW kind \in Kinds, Request(kind)
    PROVE  TypeInv'
  <1>1. job' = [kind |-> kind, pc |-> "user", user |-> Viewed, todo |-> {}, rows |-> << >>,
                read |-> << >>, entries |-> << >>, links |-> {}]
    BY DEF Request, Idle
  <1>2. JobTyped(job')
    BY <1>1, TablesAssumption DEF JobTyped, Phased, Configured
  <1>3. AnswerTyped' /\ UNCHANGED <<node, users, minted, clock>>
    BY DEF Request, TypeInv, AnswerTyped, tables
  <1> QED
    BY <1>2, <1>3 DEF TypeInv, NodeRows, UserRows

LEMMA TypesStep == TypeInv /\ [Next]_vars => TypeInv'
  <1> SUFFICES ASSUME TypeInv, [Next]_vars PROVE TypeInv'
    OBVIOUS
  <1>1. CASE \E kind \in Kinds : Request(kind)
    BY <1>1, RequestTypes
  <1>2. CASE Work
    <2>1. UNCHANGED <<node, users, minted, clock>>
      BY <1>2 DEF Work, LookUp, ReadAccess, ReadNode, ReadProfiles, ReadKeys, Stays, tables
    <2> QED
      BY <1>2, <2>1, WorkTypes DEF TypeInv, NodeRows, UserRows
  <1>3. ASSUME NEW n \in Nodes,
               SaveConfig(n) \/ SetAddress(n) \/ SetProfile(n) \/ DeleteProfile(n)
                 \/ RotateKey(n) \/ RenderNode(n)
        PROVE  TypeInv'
    BY <1>3, NodeEditTypes
  <1>4. ASSUME NEW u \in Edited,
               \/ \E n \in Nodes : SetAccess(u, n) \/ DeleteAccess(u, n)
               \/ SetUser(u) \/ RotateToken(u) \/ DeleteUser(u)
        PROVE  TypeInv'
    BY <1>4, UserEditTypes
  <1>5. CASE Tick
    BY <1>5 DEF Tick, TypeInv, NodeRows, UserRows, AnswerTyped, JobTyped, Phased, tables
  <1>6. CASE UNCHANGED vars
    BY <1>6 DEF vars, tables, TypeInv, NodeRows, UserRows, AnswerTyped, JobTyped, Phased
  <1> QED
    BY <1>1, <1>2, <1>3, <1>4, <1>5, <1>6 DEF Next

LEMMA Types == Spec => []TypeInv
  BY InitTypes, TypesStep, PTL DEF Spec

\* A subscription or a links view under way never looks into a row it has not
\* read, and answers with a status the panel sends, whatever is edited meanwhile.
THEOREM TypeCorrect == Spec => []TypeOK
  BY Types, TypeInvIsTypeOK, PTL

-----------------------------------------------------------------------------
(* A request no edit overlaps.  Each phase has read the whole of a table   *)
(* for the nodes it is over with, and what it has is what is still there.  *)

\* The user whose links the request asks for.
Asked(j) ==
    IF j.kind = "sub" THEN Entitleds # {} /\ j.user = Holder
    ELSE j.user = Viewed /\ users[Viewed] # Absent

HasRows(j) == DOMAIN j.rows = Given(j.user) /\ \A n \in DOMAIN j.rows : j.rows[n] = Row(j.user, n)

HasNodes(j, ns) == DOMAIN j.read = ns /\ \A n \in ns : j.read[n] = node[n]

HasProfiles(j, ns) == DOMAIN j.entries = ns /\ \A n \in ns : j.entries[n] = profiles[n]

HasLinks(j, ns) == j.links = UNION {OnNode(n, LinksOn(j.user, n)) : n \in ns}

AddressesOk(ns) == \A n \in ns : ~AddressThrows(node[n].config, node[n].address)
BuildsOk(u, ns) == \A n \in ns : ~Build(u, n).throws

Walked(j) ==
    LET u == j.user IN
    /\ IF j.pc = "user" THEN u = Viewed ELSE Asked(j)
    /\ j.pc \in {"user", "access"} => HasNodes(j, {}) /\ HasProfiles(j, {}) /\ HasLinks(j, {})
    /\ j.pc = "node" =>
          HasRows(j) /\ HasNodes(j, WithConfig(u) \ j.todo) /\ HasProfiles(j, {}) /\ HasLinks(j, {})
    /\ j.pc = "profiles" =>
          /\ HasRows(j) /\ HasNodes(j, WithConfig(u)) /\ HasProfiles(j, Linked(u) \ j.todo)
          /\ HasLinks(j, {}) /\ AddressesOk(WithConfig(u) \ j.todo)
    /\ j.pc = "keys" =>
          /\ HasRows(j) /\ HasNodes(j, WithConfig(u)) /\ HasProfiles(j, Linked(u))
          /\ HasLinks(j, Linked(u) \ j.todo) /\ AddressesOk(WithConfig(u))
          /\ BuildsOk(u, Linked(u) \ j.todo)

\* The inductive invariant: as long as no edit was stored, the request has what
\* the tables have.
WalkInv == quiet /\ job # Idle => Walked(job)

\* A statement of the walk changes no table, so all that is said of them stands.
LEMMA SameTables ==
    ASSUME UNCHANGED <<tables, clock>>
    PROVE  /\ Entitleds' = Entitleds /\ Holder' = Holder /\ users' = users
           /\ \A u : /\ Given(u)' = Given(u) /\ WithConfig(u)' = WithConfig(u)
                     /\ Linked(u)' = Linked(u) /\ Links(u)' = Links(u) /\ Fails(u)' = Fails(u)
           /\ \A u, n : Row(u, n)' = Row(u, n) /\ Build(u, n)' = Build(u, n)
           /\ \A j, ns : /\ HasNodes(j, ns)' = HasNodes(j, ns)
                         /\ HasProfiles(j, ns)' = HasProfiles(j, ns)
                         /\ HasLinks(j, ns)' = HasLinks(j, ns)
           /\ \A ns : AddressesOk(ns)' = AddressesOk(ns)
           /\ \A u, ns : BuildsOk(u, ns)' = BuildsOk(u, ns)
           /\ \A j : HasRows(j)' = HasRows(j)
  <1>1. UNCHANGED <<node, profiles, keys, users, access, clock>>
    BY DEF tables
  <1>2. Entitleds' = Entitleds
    BY <1>1 DEF Entitleds, Owner, Entitled, ActiveUsers
  <1>3. \A u, n : Row(u, n)' = Row(u, n) /\ Build(u, n)' = Build(u, n)
    BY <1>1 DEF Row, Build
  <1>4. \A u, n : LinksOn(u, n)' = LinksOn(u, n)
    BY <1>3 DEF LinksOn
  <1>5. \A u : /\ Given(u)' = Given(u) /\ WithConfig(u)' = WithConfig(u)
               /\ Linked(u)' = Linked(u)
    BY <1>1, <1>3 DEF Given, WithConfig, Linked
  <1>6. \A u : Links(u)' = Links(u)
    BY <1>4, <1>5 DEF Links
  <1>7. \A u : Fails(u)' = Fails(u)
    BY <1>1, <1>3, <1>5 DEF Fails
  <1>8. \A j, ns : /\ HasNodes(j, ns)' = HasNodes(j, ns)
                   /\ HasProfiles(j, ns)' = HasProfiles(j, ns)
    BY <1>1 DEF HasNodes, HasProfiles
  <1>9. \A j, ns : HasLinks(j, ns)' = HasLinks(j, ns)
    BY <1>4 DEF HasLinks
  <1>10. \A ns : AddressesOk(ns)' = AddressesOk(ns)
    BY <1>1 DEF AddressesOk
  <1>11. \A u, ns : BuildsOk(u, ns)' = BuildsOk(u, ns)
    BY <1>3 DEF BuildsOk
  <1>12. \A j : HasRows(j)' = HasRows(j)
    BY <1>3, <1>5 DEF HasRows
  <1>13. Holder' = Holder
    BY <1>2 DEF Holder
  <1> QED
    BY <1>1, <1>2, <1>3, <1>5, <1>6, <1>7, <1>8, <1>9, <1>10, <1>11, <1>12,
       <1>13

LEMMA WalkedSame ==
    ASSUME UNCHANGED <<tables, clock>>, Walked(job')
    PROVE  Walked(job)'
  <1>1. Asked(job') => Asked(job)'
    BY SameTables DEF Asked
  <1> QED
    BY <1>1, SameTables DEF Walked

\* isEntitled says what the answers are compared with.
LEMMA EntitlementsAgree ==
    ASSUME TypeInv
    PROVE  {u \in Owner(Token) : IsEntitled(users[u], clock)} = Entitleds
  <1>1. ASSUME NEW u \in Owner(Token) PROVE IsEntitled(users[u], clock) <=> Entitled(u)
    <2>1. u \in Users /\ users[u] # Absent /\ users[u].expire \in Nat \cup {Absent} /\ clock \in Nat
      BY DEF Owner, TypeInv, UserRows
    <2>2. CASE users[u].expire = Absent
      BY <2>1, <2>2, TablesAssumption DEF IsEntitled, Entitled, ActiveUsers
    <2>3. CASE users[u].expire \in Nat
      BY <2>1, <2>3, TablesAssumption DEF IsEntitled, Entitled, ActiveUsers
    <2> QED
      BY <2>1, <2>2, <2>3
  <1> QED
    BY <1>1 DEF Entitleds

\* The status and the links the tables ask for.
Right(j, status, links) ==
    LET u == j.user IN
    IF Fails(u) THEN status = 500 /\ links = {}
    ELSE /\ links = Links(u)
         /\ status = IF j.kind = "sub" THEN 200
                     ELSE IF Given(u) # {} /\ WithConfig(u) = {} THEN 503
                     ELSE IF WithConfig(u) # {} /\ Linked(u) = {} THEN 409 ELSE 200

LEMMA RightReply ==
    ASSUME UNCHANGED <<tables, clock>>, NEW j, j.kind \in Kinds, Asked(j),
           NEW status, NEW links, Right(j, status, links), answer' = Answer(j.kind, status, links)
    PROVE  answer' = Current'
  <1>1. answer'.kind = j.kind
    BY DEF Answer
  <1>2. CASE j.kind = "sub"
    <2>1. Entitleds' # {} /\ Holder' = j.user
      BY <1>2, SameTables DEF Asked
    <2>2. Fails(j.user)' = Fails(j.user) /\ Links(j.user)' = Links(j.user)
      BY SameTables
    <2>3. SubAnswer' = IF Fails(j.user) THEN Answer("sub", 500, {})
                       ELSE Answer("sub", 200, Links(j.user))
      BY <2>1, <2>2 DEF SubAnswer
    <2> QED
      BY <1>1, <1>2, <2>3 DEF Current, Right
  <1>3. CASE j.kind = "view"
    <2>1. users'[Viewed] # Absent /\ j.user = Viewed
      BY <1>3, SameTables DEF Asked
    <2> QED
      BY <1>1, <1>3, <2>1, SameTables DEF Current, ViewAnswer, Right
  <1> QED
    BY <1>2, <1>3 DEF Kinds

\* With nothing left to read, the answer is right.
LEMMA LastRead ==
    ASSUME NEW j, Phased(j), j.kind \in Kinds, j.kind = job.kind, Walked(j), j.todo = {},
           \/ j.pc = "node" /\ DOMAIN j.read = {}
           \/ j.pc = "profiles" /\ DOMAIN j.entries = {}
           \/ j.pc = "keys" /\ DOMAIN j.entries # {}
    PROVE  Asked(j) /\ Right(j, Status(j), IF Status(j) = 200 THEN j.links ELSE {})
  <1> DEFINE u == j.user
  <1>1. Linked(u) \subseteq WithConfig(u) /\ WithConfig(u) \subseteq Given(u)
    BY DEF Linked, WithConfig, Given
  <1>2. Fails(u) <=> ~AddressesOk(WithConfig(u)) \/ ~BuildsOk(u, Linked(u))
    BY DEF Fails, AddressesOk, BuildsOk, WithConfig, Given
  <1>3. Links(u) = UNION {OnNode(n, LinksOn(u, n)) : n \in Linked(u)}
    BY DEF Links
  <1>4. Asked(j) /\ HasRows(j) /\ DOMAIN j.rows = Given(u)
    BY DEF Walked, HasRows
  <1>5. CASE j.pc = "node" /\ DOMAIN j.read = {}
    <2>1. WithConfig(u) = {} /\ j.links = {} /\ DOMAIN j.entries = {}
      BY <1>5 DEF Walked, HasNodes, HasLinks, HasProfiles
    <2>2. ~Fails(u) /\ Links(u) = {}
      BY <1>1, <1>2, <1>3, <2>1 DEF AddressesOk, BuildsOk
    <2> QED
      BY <1>1, <1>4, <1>5, <2>1, <2>2 DEF Right, Status, Kinds
  <1>6. CASE j.pc = "profiles" /\ DOMAIN j.entries = {}
    <2>1. /\ Linked(u) = {} /\ j.links = {} /\ DOMAIN j.read = WithConfig(u)
          /\ AddressesOk(WithConfig(u))
      BY <1>6 DEF Walked, HasNodes, HasLinks, HasProfiles, AddressesOk
    <2>2. ~Fails(u) /\ Links(u) = {}
      BY <1>2, <1>3, <2>1 DEF BuildsOk
    <2> QED
      BY <1>1, <1>4, <1>6, <2>1, <2>2 DEF Right, Status, Kinds
  <1>7. CASE j.pc = "keys" /\ DOMAIN j.entries # {}
    <2>1. /\ DOMAIN j.entries = Linked(u) /\ DOMAIN j.read = WithConfig(u)
          /\ AddressesOk(WithConfig(u)) /\ BuildsOk(u, Linked(u)) /\ j.links = Links(u)
      BY <1>3, <1>7 DEF Walked, HasNodes, HasLinks, HasProfiles, AddressesOk, BuildsOk
    <2>2. ~Fails(u)
      BY <1>2, <2>1
    <2> QED
      BY <1>1, <1>4, <1>7, <2>1, <2>2 DEF Right, Status, Kinds
  <1> QED
    BY <1>5, <1>6, <1>7

\* A phase over goes to the next one, or answers.
LEMMA ProceedWalks ==
    ASSUME UNCHANGED <<tables, clock>>, NEW done, Phased(done), done.kind \in Kinds,
           done.kind = job.kind, done.pc \in {"node", "profiles", "keys"}, Walked(done),
           done.pc = "keys" => DOMAIN done.entries # {}, Proceed(done)
    PROVE  \/ job' # Idle /\ Walked(job')
           \/ job' = Idle /\ answer' = Current'
  <1>1. Idle.kind \notin Kinds
    BY DEF Idle, Kinds
  <1>2. CASE done.todo # {}
    <2>1. job' = done
      BY <1>2 DEF Proceed
    <2> QED
      BY <1>1, <2>1
  <1>3. CASE done.todo = {} /\ done.pc = "node" /\ DOMAIN done.read # {}
    <2>1. job' = [done EXCEPT !.pc = "profiles", !.todo = DOMAIN done.read]
      BY <1>3 DEF Proceed
    <2>2. job' = [kind |-> done.kind, pc |-> "profiles", user |-> done.user,
                  todo |-> DOMAIN done.read, rows |-> done.rows, read |-> done.read,
                  entries |-> done.entries, links |-> done.links]
      BY <2>1 DEF Phased
    <2>3. DOMAIN done.read = WithConfig(done.user)
      BY <1>3 DEF Walked, HasNodes
    <2>4. Linked(done.user) \subseteq WithConfig(done.user)
      BY DEF Linked, WithConfig, Given
    <2>5. Walked(job')
      BY <1>3, <2>2, <2>3, <2>4
         DEF Walked, Asked, HasRows, HasNodes, HasProfiles, HasLinks, AddressesOk
    <2> QED
      BY <1>1, <2>2, <2>5
  <1>4. CASE done.todo = {} /\ done.pc = "profiles" /\ DOMAIN done.entries # {}
    <2>1. job' = [done EXCEPT !.pc = "keys", !.todo = DOMAIN done.entries]
      BY <1>4 DEF Proceed
    <2>2. job' = [kind |-> done.kind, pc |-> "keys", user |-> done.user,
                  todo |-> DOMAIN done.entries, rows |-> done.rows, read |-> done.read,
                  entries |-> done.entries, links |-> done.links]
      BY <2>1 DEF Phased
    <2>3. DOMAIN done.entries = Linked(done.user)
      BY <1>4 DEF Walked, HasProfiles
    <2>4. Walked(job')
      BY <1>4, <2>2, <2>3
         DEF Walked, Asked, HasRows, HasNodes, HasProfiles, HasLinks, AddressesOk, BuildsOk
    <2> QED
      BY <1>1, <2>2, <2>4
  <1>5. CASE /\ done.todo = {}
             /\ ~(done.pc = "node" /\ DOMAIN done.read # {})
             /\ ~(done.pc = "profiles" /\ DOMAIN done.entries # {})
    <2> DEFINE links == IF Status(done) = 200 THEN done.links ELSE {}
    <2>1. Reply(Status(done), links)
      BY <1>5 DEF Proceed
    <2>2. Asked(done) /\ Right(done, Status(done), links)
      BY <1>5, LastRead
    <2>3. job' = Idle /\ answer' = Answer(done.kind, Status(done), links)
      BY <2>1 DEF Reply
    <2> QED
      BY <2>2, <2>3, RightReply
  <1> QED
    BY <1>2, <1>3, <1>4, <1>5

\* What throws makes the answer a 500.
LEMMA ThrownReply ==
    ASSUME UNCHANGED <<tables, clock>>, job.kind \in Kinds, Asked(job), Fails(job.user),
           Reply(500, {})
    PROVE  job' = Idle /\ answer' = Current'
  <1>1. Right(job, 500, {}) /\ job' = Idle /\ answer' = Answer(job.kind, 500, {})
    BY DEF Right, Reply
  <1> QED
    BY <1>1, RightReply

\* One statement of an undisturbed walk.
Onward == (job' # Idle /\ Walked(job')) \/ (job' = Idle /\ answer' = Current')

LEMMA LookUpWalks ==
    ASSUME TypeInv, Walked(job), job.kind \in Kinds, LookUp
    PROVE  Onward
  <1>1. UNCHANGED <<tables, clock>> /\ job.pc = "user" /\ Phased(job)
    BY DEF LookUp, Stays, At, TypeInv, JobTyped
  <1>2. Idle.kind \notin Kinds
    BY DEF Idle, Kinds
  <1>3. ASSUME NEW u, job' = [job EXCEPT !.user = u, !.pc = "access"], Asked(job')
        PROVE  Onward
    <2>1. job' = [kind |-> job.kind, pc |-> "access", user |-> u, todo |-> job.todo,
                  rows |-> job.rows, read |-> job.read, entries |-> job.entries,
                  links |-> job.links]
      BY <1>1, <1>3 DEF Phased
    <2>2. Walked(job')
      BY <1>1, <1>3, <2>1 DEF Walked, HasNodes, HasProfiles, HasLinks
    <2> QED
      BY <1>2, <2>1, <2>2 DEF Onward
  <1>4. CASE job.kind = "sub" /\ Entitleds = {}
    <2>1. Reply(200, {})
      BY <1>4, EntitlementsAgree DEF LookUp
    <2>2. SubAnswer' = Answer("sub", 200, {})
      BY <1>1, <1>4, SameTables DEF SubAnswer
    <2> QED
      BY <1>4, <2>1, <2>2 DEF Reply, Answer, Current, Onward
  <1>5. CASE job.kind = "sub" /\ Entitleds # {}
    <2>1. job' = [job EXCEPT !.user = Holder, !.pc = "access"]
      BY <1>5, EntitlementsAgree DEF LookUp, Holder
    <2>2. job'.kind = "sub" /\ job'.user = Holder
      BY <1>1, <1>5, <2>1 DEF Phased
    <2> QED
      BY <1>3, <1>5, <2>1, <2>2 DEF Asked
  <1>6. CASE job.kind = "view" /\ users[Viewed] = Absent
    <2>1. Reply(404, {})
      BY <1>6 DEF LookUp
    <2>2. ViewAnswer' = Answer("view", 404, {})
      BY <1>1, <1>6, SameTables DEF ViewAnswer
    <2> QED
      BY <1>6, <2>1, <2>2 DEF Reply, Answer, Current, Onward
  <1>7. CASE job.kind = "view" /\ users[Viewed] # Absent
    <2>1. job' = [job EXCEPT !.pc = "access"]
      BY <1>7 DEF LookUp
    <2>2. job' = [job EXCEPT !.user = Viewed, !.pc = "access"]
      BY <1>1, <2>1 DEF Phased, Walked
    <2>3. job'.kind = "view" /\ job'.user = Viewed
      BY <1>1, <1>7, <2>2 DEF Phased
    <2> QED
      BY <1>3, <1>7, <2>2, <2>3 DEF Asked
  <1> QED
    BY <1>4, <1>5, <1>6, <1>7 DEF Kinds

LEMMA ReadAccessWalks ==
    ASSUME TypeInv, Walked(job), job.kind \in Kinds, ReadAccess
    PROVE  Onward
  <1> DEFINE granted == Given(job.user)
             rows == [n \in granted |-> Row(job.user, n)]
  <1>1. UNCHANGED <<tables, clock>> /\ job.pc = "access" /\ Phased(job)
    BY DEF ReadAccess, Stays, At, TypeInv, JobTyped
  <1>2. PICK done : /\ done = [job EXCEPT !.pc = "node", !.todo = granted, !.rows = rows]
                    /\ Proceed(done)
    BY DEF ReadAccess, Row, Given
  <1>3. /\ granted \subseteq Nodes /\ WithConfig(job.user) \subseteq granted
        /\ DOMAIN rows = granted /\ \A n \in granted : rows[n] = Row(job.user, n)
    BY DEF Given, WithConfig
  <1> HIDE DEF rows, granted
  <1>4. done = [kind |-> job.kind, pc |-> "node", user |-> job.user, todo |-> granted,
                rows |-> rows, read |-> job.read, entries |-> job.entries,
                links |-> job.links]
    BY <1>1, <1>2 DEF Phased
  <1>5. Phased(done)
    BY <1>1, <1>3, <1>4 DEF Phased
  <1>6. Asked(job) /\ HasNodes(job, {}) /\ HasProfiles(job, {}) /\ HasLinks(job, {})
    BY <1>1 DEF Walked
  <1>7. Asked(done) /\ HasNodes(done, {}) /\ HasProfiles(done, {}) /\ HasLinks(done, {})
    BY <1>4, <1>6 DEF Asked, HasNodes, HasProfiles, HasLinks
  <1>8. HasRows(done)
    BY <1>3, <1>4 DEF HasRows, granted
  <1>9. WithConfig(done.user) \ done.todo = {}
    BY <1>3, <1>4
  <1>10. Walked(done)
    BY <1>4, <1>7, <1>8, <1>9 DEF Walked
  <1> QED
    BY <1>1, <1>2, <1>4, <1>5, <1>10, ProceedWalks DEF Onward

LEMMA ReadNodeWalks ==
    ASSUME TypeInv, Walked(job), job.kind \in Kinds, ReadNode
    PROVE  Onward
  <1> DEFINE n == Next1(job.todo)
  <1>1. /\ UNCHANGED <<tables, clock>> /\ job.pc = "node" /\ Phased(job) /\ n \in job.todo
        /\ job.todo \subseteq DOMAIN job.rows
    BY NextOfMany DEF ReadNode, Stays, At, TypeInv, JobTyped, Phased
  <1>2. PICK read, done :
            /\ read = IF node[n].config = Absent THEN job.read ELSE With(job.read, n, node[n])
            /\ done = [job EXCEPT !.todo = @ \ {n}, !.read = read]
            /\ Proceed(done)
    BY DEF ReadNode
  <1> HIDE DEF n
  <1>3. done = [kind |-> job.kind, pc |-> "node", user |-> job.user, todo |-> job.todo \ {n},
                rows |-> job.rows, read |-> read, entries |-> job.entries,
                links |-> job.links]
    BY <1>1, <1>2 DEF Phased
  <1>4. /\ Asked(job) /\ HasRows(job) /\ HasNodes(job, WithConfig(job.user) \ job.todo)
        /\ HasProfiles(job, {}) /\ HasLinks(job, {})
    BY <1>1 DEF Walked
  <1>5. Asked(done) /\ HasRows(done) /\ HasProfiles(done, {}) /\ HasLinks(done, {})
    BY <1>3, <1>4 DEF Asked, HasRows, HasProfiles, HasLinks
  <1>6. n \in Given(job.user)
    BY <1>1, <1>4 DEF HasRows
  <1>7. HasNodes(done, WithConfig(done.user) \ done.todo)
    <2>1. CASE node[n].config = Absent
      <3>1. WithConfig(done.user) \ done.todo = WithConfig(job.user) \ job.todo
        BY <1>1, <1>3, <2>1 DEF WithConfig
      <3> QED
        BY <1>2, <1>3, <1>4, <2>1, <3>1 DEF HasNodes
    <2>2. CASE node[n].config # Absent
      <3>1. WithConfig(done.user) \ done.todo = (WithConfig(job.user) \ job.todo) \cup {n}
        BY <1>1, <1>3, <1>6, <2>2 DEF WithConfig
      <3>2. read = With(job.read, n, node[n])
        BY <1>2, <2>2
      <3> QED
        BY <1>3, <1>4, <3>1, <3>2 DEF HasNodes, With
    <2> QED
      BY <2>1, <2>2
  <1>8. Phased(done)
    <2>1. DOMAIN read \subseteq DOMAIN job.read \cup {n} /\ DOMAIN job.read \subseteq DOMAIN read
      BY <1>2 DEF With
    <2>2. Configured(read)
      <3>1. NodeRows(node) /\ Configured(job.read) /\ n \in Nodes
        BY <1>1 DEF Phased, TypeInv
      <3> QED
        BY <1>2, <3>1, ReadConfigured
    <2> QED
      BY <1>1, <1>3, <2>1, <2>2 DEF Phased
  <1>9. Walked(done)
    BY <1>3, <1>5, <1>7 DEF Walked
  <1> QED
    BY <1>1, <1>2, <1>3, <1>8, <1>9, ProceedWalks DEF Onward

LEMMA ReadProfilesWalks ==
    ASSUME TypeInv, Walked(job), job.kind \in Kinds, ReadProfiles
    PROVE  Onward
  <1> DEFINE n == Next1(job.todo)
             row == job.read[n]
             u == job.user
  <1>1. /\ UNCHANGED <<tables, clock>> /\ job.pc = "profiles" /\ Phased(job) /\ n \in job.todo
        /\ job.todo \subseteq DOMAIN job.read
    BY NextOfMany DEF ReadProfiles, Stays, At, TypeInv, JobTyped, Phased
  <1>2. /\ Asked(job) /\ HasRows(job) /\ HasNodes(job, WithConfig(u))
        /\ HasProfiles(job, Linked(u) \ job.todo) /\ HasLinks(job, {})
        /\ AddressesOk(WithConfig(u) \ job.todo)
    BY <1>1 DEF Walked
  <1>3. n \in WithConfig(u) /\ row = node[n]
    BY <1>1, <1>2 DEF HasNodes
  <1>4. CASE AddressThrows(row.config, row.address)
    <2>1. Reply(500, {})
      BY <1>4 DEF ReadProfiles
    <2>2. Fails(u)
      BY <1>3, <1>4 DEF Fails, WithConfig, Given
    <2> QED
      BY <1>1, <1>2, <2>1, <2>2, ThrownReply DEF Onward
  <1>5. CASE ~AddressThrows(row.config, row.address)
    <2> DEFINE entries == IF HasUsableAddress(row.config, row.address, Overridden(profiles[n]))
                          THEN With(job.entries, n, profiles[n]) ELSE job.entries
    <2>1. PICK done : done = [job EXCEPT !.todo = @ \ {n}, !.entries = entries] /\ Proceed(done)
      BY <1>5 DEF ReadProfiles
    <2>2. n \in Linked(u) <=> HasUsableAddress(row.config, row.address, Overridden(profiles[n]))
      BY <1>3 DEF Linked, WithConfig, Given
    <2>3. entries = IF n \in Linked(u) THEN With(job.entries, n, profiles[n]) ELSE job.entries
      BY <2>2
    <2> HIDE DEF n, entries
    <2>4. done = [kind |-> job.kind, pc |-> "profiles", user |-> job.user,
                  todo |-> job.todo \ {n}, rows |-> job.rows, read |-> job.read,
                  entries |-> entries, links |-> job.links]
      BY <1>1, <2>1 DEF Phased
    <2>5. /\ Asked(done) /\ HasRows(done) /\ HasNodes(done, WithConfig(u)) /\ HasLinks(done, {})
      BY <1>2, <2>4 DEF Asked, HasRows, HasNodes, HasLinks
    <2>6. HasProfiles(done, Linked(u) \ done.todo)
      <3>1. CASE n \notin Linked(u)
        <4>1. Linked(u) \ done.todo = Linked(u) \ job.todo
          BY <2>4, <3>1
        <4> QED
          BY <1>2, <2>3, <2>4, <3>1, <4>1 DEF HasProfiles
      <3>2. CASE n \in Linked(u)
        <4>1. Linked(u) \ done.todo = (Linked(u) \ job.todo) \cup {n}
          BY <1>1, <2>4, <3>2
        <4>2. entries = With(job.entries, n, profiles[n])
          BY <2>3, <3>2
        <4> QED
          BY <1>2, <2>4, <4>1, <4>2 DEF HasProfiles, With
      <3> QED
        BY <3>1, <3>2
    <2>7. AddressesOk(WithConfig(u) \ done.todo)
      BY <1>2, <1>3, <1>5, <2>4 DEF AddressesOk
    <2>8. Phased(done)
      <3>1. DOMAIN entries \subseteq DOMAIN job.entries \cup {n}
        BY <2>3 DEF With
      <3> QED
        BY <1>1, <2>4, <3>1 DEF Phased
    <2>9. Walked(done)
      BY <2>4, <2>5, <2>6, <2>7 DEF Walked
    <2> QED
      BY <1>1, <2>1, <2>4, <2>8, <2>9, ProceedWalks DEF Onward
  <1> QED
    BY <1>4, <1>5

LEMMA ReadKeysWalks ==
    ASSUME TypeInv, Walked(job), job.kind \in Kinds, ReadKeys
    PROVE  Onward
  <1> DEFINE n == Next1(job.todo)
             u == job.user
  <1>1. /\ UNCHANGED <<tables, clock>> /\ job.pc = "keys" /\ Phased(job) /\ n \in job.todo
        /\ job.todo \subseteq DOMAIN job.entries
    BY NextOfMany DEF ReadKeys, Stays, At, TypeInv, JobTyped, Phased
  <1>2. /\ Asked(job) /\ HasRows(job) /\ HasNodes(job, WithConfig(u))
        /\ HasProfiles(job, Linked(u)) /\ HasLinks(job, Linked(u) \ job.todo)
        /\ AddressesOk(WithConfig(u)) /\ BuildsOk(u, Linked(u) \ job.todo)
    BY <1>1 DEF Walked
  <1>3. n \in Linked(u) /\ n \in WithConfig(u) /\ n \in Given(u)
    BY <1>1, <1>2 DEF HasProfiles, Linked, WithConfig, Given
  <1>4. job.rows[n] = Row(u, n) /\ job.read[n] = node[n] /\ job.entries[n] = profiles[n]
    BY <1>2, <1>3 DEF HasRows, HasNodes, HasProfiles
  <1>5. NodeLinks(job.user, "active", job.rows[n], n, job.read[n], keys[n], job.entries[n])
          = Build(u, n)
    BY <1>4 DEF Build
  <1>6. IF Build(u, n).throws THEN Reply(500, {})
        ELSE Proceed([job EXCEPT !.todo = @ \ {n},
                                 !.links = @ \cup OnNode(n, Build(u, n).links)])
    BY <1>5 DEF ReadKeys
  <1>7. CASE Build(u, n).throws
    <2>1. Fails(u)
      BY <1>3, <1>7 DEF Fails
    <2> QED
      BY <1>1, <1>2, <1>6, <1>7, <2>1, ThrownReply DEF Onward
  <1>8. CASE ~Build(u, n).throws
    <2> DEFINE links == job.links \cup OnNode(n, LinksOn(u, n))
    <2>1. PICK done : done = [job EXCEPT !.todo = @ \ {n}, !.links = links] /\ Proceed(done)
      BY <1>6, <1>8 DEF LinksOn
    <2>2. links = UNION {OnNode(m, LinksOn(u, m)) : m \in (Linked(u) \ job.todo) \cup {n}}
      BY <1>2 DEF HasLinks
    <2> HIDE DEF n, links
    <2>3. done = [kind |-> job.kind, pc |-> "keys", user |-> job.user,
                  todo |-> job.todo \ {n}, rows |-> job.rows, read |-> job.read,
                  entries |-> job.entries, links |-> links]
      BY <1>1, <2>1 DEF Phased
    <2>4. Linked(u) \ done.todo = (Linked(u) \ job.todo) \cup {n}
      BY <1>1, <1>3, <2>3
    <2>5. HasLinks(done, Linked(u) \ done.todo)
      BY <2>2, <2>3, <2>4 DEF HasLinks
    <2>6. /\ Asked(done) /\ HasRows(done) /\ HasNodes(done, WithConfig(u))
          /\ HasProfiles(done, Linked(u))
      BY <1>2, <2>3 DEF Asked, HasRows, HasNodes, HasProfiles
    <2>7. BuildsOk(u, Linked(u) \ done.todo)
      BY <1>2, <1>8, <2>4 DEF BuildsOk
    <2>8. Phased(done) /\ DOMAIN done.entries # {}
      BY <1>1, <2>3 DEF Phased
    <2>9. Walked(done)
      BY <1>2, <2>3, <2>5, <2>6, <2>7 DEF Walked
    <2> QED
      BY <1>1, <2>1, <2>3, <2>8, <2>9, ProceedWalks DEF Onward
  <1> QED
    BY <1>7, <1>8

LEMMA WorkWalks ==
    ASSUME TypeInv, Walked(job), Work
    PROVE  Onward
  <1>1. job.kind \in Kinds
    BY DEF Work, LookUp, ReadAccess, ReadNode, ReadProfiles, ReadKeys, At, TypeInv, JobTyped, Phased
  <1> QED
    BY <1>1, LookUpWalks, ReadAccessWalks, ReadNodeWalks, ReadProfilesWalks, ReadKeysWalks DEF Work

LEMMA RequestWalks ==
    ASSUME NEW kind \in Kinds, Request(kind)
    PROVE  Walked(job)'
  <1>1. UNCHANGED <<tables, clock>>
    BY DEF Request
  <1>2. job' = [kind |-> kind, pc |-> "user", user |-> Viewed, todo |-> {}, rows |-> << >>,
                read |-> << >>, entries |-> << >>, links |-> {}]
    BY DEF Request, Idle
  <1>3. Walked(job')
    BY <1>2 DEF Walked, HasNodes, HasProfiles, HasLinks
  <1> QED
    BY <1>1, <1>3, WalkedSame

\* What an edit and the clock do: nobody is undisturbed.
Disturbs == quiet' = FALSE /\ job' = job

LEMMA EditsDisturb ==
    ASSUME Next, ~Work, ~\E kind \in Kinds : Request(kind)
    PROVE  Disturbs
  <1>1. ASSUME NEW n \in Nodes,
               SaveConfig(n) \/ SetAddress(n) \/ SetProfile(n) \/ DeleteProfile(n)
                 \/ RotateKey(n) \/ RenderNode(n)
        PROVE  Disturbs
    BY <1>1 DEF Disturbs, SaveConfig, SetAddress, SetProfile, DeleteProfile, RotateKey, RenderNode,
                Edit, Unheard
  <1>2. ASSUME NEW u \in Edited,
               \/ \E n \in Nodes : SetAccess(u, n) \/ DeleteAccess(u, n)
               \/ SetUser(u) \/ RotateToken(u) \/ DeleteUser(u)
        PROVE  Disturbs
    BY <1>2 DEF Disturbs, SetAccess, DeleteAccess, SetUser, RotateToken, DeleteUser, Edit, Unheard
  <1>3. CASE Tick
    BY <1>3 DEF Disturbs, Tick
  <1> QED
    BY <1>1, <1>2, <1>3 DEF Next

LEMMA WalkStep == TypeInv /\ WalkInv /\ [Next]_vars => WalkInv'
  <1> SUFFICES ASSUME TypeInv, WalkInv, [Next]_vars, quiet', job' # Idle
               PROVE  Walked(job)'
    BY DEF WalkInv
  <1>1. CASE Work
    <2>1. Stays /\ job.kind # "none"
      BY <1>1 DEF Work, LookUp, ReadAccess, ReadNode, ReadProfiles, ReadKeys, At
    <2>2. UNCHANGED <<tables, clock>> /\ job # Idle
      BY <2>1 DEF Stays, Idle
    <2>3. quiet
      BY <2>1, Zenon DEF Stays
    <2> QED
      BY <1>1, <2>2, <2>3, WorkWalks, WalkedSame DEF Onward, WalkInv
  <1>2. CASE \E kind \in Kinds : Request(kind)
    BY <1>2, RequestWalks
  <1>3. CASE Disturbs
    BY <1>3 DEF Disturbs
  <1>4. CASE UNCHANGED vars
    <2>1. UNCHANGED <<tables, clock>> /\ Walked(job')
      BY <1>4 DEF vars, WalkInv
    <2> QED
      BY <2>1, WalkedSame
  <1> QED
    BY <1>1, <1>2, <1>3, <1>4, EditsDisturb

LEMMA WalkInvariant == Spec => []WalkInv
  <1>1. Init => WalkInv
    BY DEF Init, WalkInv
  <1> QED
    BY <1>1, WalkStep, Types, PTL DEF Spec

\* However many statements a subscription or a links view takes, if no edit is
\* stored while it runs then its status and its links are what the tables say of
\* one moment: the walk drops no row, reads none twice and mixes no two users.
THEOREM UndisturbedAnswers == Spec => AtomicIfUndisturbed
  <1>1. ASSUME TypeInv, WalkInv, [Next]_vars, quiet, job # Idle, job' = Idle
        PROVE  answer' = Current'
    <2>1. CASE Work
      BY <1>1, <2>1, WorkWalks DEF WalkInv, Onward
    <2>2. CASE \E kind \in Kinds : Request(kind)
      BY <1>1, <2>2 DEF Request
    <2>3. CASE UNCHANGED vars
      BY <1>1, <2>3 DEF vars
    <2>4. CASE Disturbs
      BY <1>1, <2>4 DEF Disturbs
    <2> QED
      BY <1>1, <2>1, <2>2, <2>3, <2>4, EditsDisturb
  <1>2. TypeInv /\ WalkInv /\ [Next]_vars
          => [(quiet /\ job # Idle /\ job' = Idle) => answer' = Current']_vars
    BY <1>1
  <1> QED
    BY <1>2, Types, WalkInvariant, PTL DEF Spec, AtomicIfUndisturbed

-----------------------------------------------------------------------------
(* What nodes serve never shares a name.                                   *)

LEMMA AccessStep == TypeInv /\ AccessRows(access) /\ [Next]_vars => AccessRows(access')
  <1> SUFFICES ASSUME TypeInv, AccessRows(access), [Next]_vars PROVE AccessRows(access')
    OBVIOUS
  <1>1. CASE access' = access
    BY <1>1
  <1>2. ASSUME NEW u \in Edited, NEW n \in Nodes, SetAccess(u, n)
        PROVE  AccessRows(access')
    <2>1. PICK list \in AccessLists :
              \E row : /\ row.allowed_outbounds = list.allowed_outbounds
                       /\ access' = [access EXCEPT ![u][n] = row]
      <3>1. PICK list \in AccessLists :
              \E uuids : access' = [access EXCEPT ![u][n] =
                            [allowed_inbounds |-> list.allowed_inbounds,
                             allowed_outbounds |-> list.allowed_outbounds, uuids |-> uuids]]
        BY <1>2 DEF SetAccess
      <3> QED
        BY <3>1
    <2> QED
      BY <2>1, TablesAssumption DEF AccessRows
  <1>3. ASSUME NEW u \in Edited, NEW n \in Nodes, DeleteAccess(u, n)
        PROVE  AccessRows(access')
    BY <1>3 DEF DeleteAccess, AccessRows
  <1>4. ASSUME NEW u \in Edited, DeleteUser(u)
        PROVE  AccessRows(access')
    BY <1>4 DEF DeleteUser, AccessRows
  <1>5. ASSUME access' # access
        PROVE  \E u \in Edited : \/ DeleteUser(u)
                                 \/ \E n \in Nodes : SetAccess(u, n) \/ DeleteAccess(u, n)
    BY <1>5 DEF Next, vars, tables, Request, Work, LookUp, ReadAccess, ReadNode, ReadProfiles,
                ReadKeys, Stays, SaveConfig, SetAddress, SetProfile, DeleteProfile, RotateKey,
                RenderNode, SetUser, RotateToken, Tick
  <1> QED
    BY <1>1, <1>2, <1>3, <1>4, <1>5

LEMMA AccessTypes == Spec => []AccessRows(access)
  <1>1. Init => AccessRows(access)
    BY TablesAssumption DEF Init
  <1>2. TypeInv /\ AccessRows(access) /\ [Next]_vars => AccessRows(access)'
    BY AccessStep
  <1> QED
    BY <1>1, <1>2, Types, PTL DEF Spec

\* The tags of a node's config as they are stored: of a save, so none is blank.
Accepted(tag) == IsTag(tag) /\ tag # EmptyTag

LEMMA StoredTags ==
    ASSUME NodeRows(node), NEW n \in Nodes, node[n].config # Absent
    PROVE  /\ WellFormed(node[n].config)
           /\ \A e \in EntrySet(node[n].config.inbounds) : Accepted(e.tag)
           /\ \A e \in EntrySet(node[n].config.outbounds) : Accepted(e.tag)
  <1>1. PICK config \in Configs : config = node[n].config
    BY DEF NodeRows
  <1>2. WellFormed(config) /\ LocalTagErrors(config, n) = {}
    BY <1>1, TablesAssumption DEF NodeRows
  <1>3. ASSUME NEW e \in EntrySet(config.inbounds)
        PROVE  Accepted(e.tag)
    <2>1. IsTag(e.tag)
      BY <1>2 DEF WellFormed
    <2>2. e.tag # EmptyTag
      BY <1>2 DEF LocalTagErrors, TagErrors
    <2> QED
      BY <2>1, <2>2 DEF Accepted
  <1>4. ASSUME NEW e \in EntrySet(config.outbounds)
        PROVE  Accepted(e.tag)
    <2>1. IsTag(e.tag)
      BY <1>2 DEF WellFormed
    <2>2. e.tag # EmptyTag
      BY <1>2 DEF LocalTagErrors, TagErrors
    <2> QED
      BY <2>1, <2>2 DEF Accepted
  <1> QED
    BY <1>1, <1>2, <1>3, <1>4

LEMMA NamesAreQualified ==
    ASSUME NodeRows(node), AccessRows(access), UserRows(users, minted), NEW n \in Nodes
    PROVE  /\ \A t \in Names(n).inbounds : \E s : Accepted(s) /\ t = QualifiedInboundTag(s, n)
           /\ \A t \in Names(n).exits :
                 t = Block \/ \E s : Accepted(s) /\ t = QualifiedOutboundTag(s, n)
           /\ \A e \in Names(n).emails : \E s : IsTag(s) /\ e.tag = QualifiedOutboundTag(s, n)
  <1> DEFINE config == node[n].config
  <1>1. PICK runtime, projected, held :
            /\ runtime = DesiredConfig(n, config, projected, held)
            /\ projected = NodeUsers(users, access, n) /\ runtime = Runtime(n)
    BY DEF Runtime, Projected
  <1>2. CASE runtime = Absent
    BY <1>1, <1>2 DEF Names
  <1>3. CASE runtime # Absent
    <2>1. config # Absent /\ Renderable(config) /\ WellFormed(config)
      BY <1>1, <1>3, StoredTags DEF DesiredConfig
    <2>2. /\ Names(n).inbounds = Tags(runtime.inbounds)
          /\ Names(n).exits = Tags(runtime.outbounds)
          /\ \A e \in Names(n).emails : \E i \in EntrySet(runtime.inbounds) :
                i.protocol = "vless" /\ \E c \in i.settings.clients : e = c.email
      BY <1>1, <1>3 DEF Names
    <2>3. ASSUME NEW t \in Tags(runtime.inbounds)
          PROVE  \E s : Accepted(s) /\ t = QualifiedInboundTag(s, n)
      <3>1. IsList(config.inbounds)
        BY <2>1 DEF Renderable
      <3>2. PICK i \in DOMAIN runtime.inbounds : t = runtime.inbounds[i].tag
        BY EntryHasPlace DEF Tags
      <3>3. i \in DOMAIN config.inbounds
        BY <1>1, <2>1, <3>1, <3>2, RuntimePlaces
      <3>4. PICK stored, tag, keysHeld, made :
                /\ stored = config.inbounds[i] /\ tag = QualifiedInboundTag(stored.tag, n)
                /\ keysHeld = QualifyKeys(held, n) /\ made = runtime.inbounds[i]
        OBVIOUS
      <3>5. MadeFrom(stored, tag, Clients(n, config, projected), keysHeld, made)
        BY <1>1, <2>1, <3>3, <3>4, RuntimeInbound
      <3>6. t = QualifiedInboundTag(stored.tag, n)
        BY <3>2, <3>4, <3>5 DEF MadeFrom
      <3>7. Accepted(stored.tag)
        BY <2>1, <3>1, <3>3, <3>4, StoredTags, PlaceHasEntry
      <3> QED
        BY <3>6, <3>7
    <2>4. ASSUME NEW t \in Tags(runtime.outbounds), t # Block
          PROVE  \E s : Accepted(s) /\ t = QualifiedOutboundTag(s, n)
      <3>1. PICK exits, rules :
                exits = QualifiedExits(config, n) /\ rules = QualifyConfig(config, n).rules
        OBVIOUS
      <3>2. IsList(config.outbounds) => IsList(QualifyConfig(config, n).outbounds)
        BY <2>1, TablesAssumption DEF NodeRows
      <3>3. PICK i \in DOMAIN exits : t = exits[i]
        <4>1. Leads(runtime, rules, exits)
          BY <1>1, <2>1, <3>1, <3>2, RuntimeOutbounds, TablesAssumption
        <4> QED
          BY <2>4, <4>1 DEF Leads
      <3>4. PICK s \in Tags(config.outbounds) : t = QualifiedOutboundTag(s, n)
        BY <3>1, <3>3, ExitsDeclared DEF QualifiedExits
      <3> QED
        BY <2>1, <3>4, StoredTags DEF Tags
    <2>5. ASSUME NEW e \in Names(n).emails
          PROVE  \E s : IsTag(s) /\ e.tag = QualifiedOutboundTag(s, n)
      <3>1. PICK i \in EntrySet(runtime.inbounds) :
                i.protocol = "vless" /\ \E c \in i.settings.clients : e = c.email
        BY <2>2
      <3>2. PICK c \in i.settings.clients : e = c.email
        BY <3>1
      <3>3. \E u \in DOMAIN users :
              /\ users[u] # Absent /\ access[u][n] # Absent
              /\ \E t \in access[u][n].allowed_outbounds :
                    c.email = Email(u, QualifiedOutboundTag(t, n))
        BY <1>1, <2>1, <3>1, RuntimeEmails
      <3>4. PICK u \in Users :
              /\ access[u][n] # Absent
              /\ \E t \in access[u][n].allowed_outbounds :
                    c.email = Email(u, QualifiedOutboundTag(t, n))
        BY <3>3 DEF UserRows
      <3>5. PICK t \in access[u][n].allowed_outbounds :
              c.email = Email(u, QualifiedOutboundTag(t, n))
        BY <3>4
      <3>6. IsTag(t)
        BY <3>4, <3>5 DEF AccessRows
      <3> QED
        BY <3>2, <3>5, <3>6 DEF Email
    <2> QED
      BY <2>2, <2>3, <2>4, <2>5
  <1> QED
    BY <1>2, <1>3

\* What two nodes serve has no inbound and no exit of one name but BLOCK, and no
\* client of one email but those of BLOCK and of a blank exit, whatever configs
\* were saved and whatever access was granted on either.
THEOREM ServedNodesApart == Spec => []NodesApart
  <1>1. ASSUME NodeRows(node), AccessRows(access), UserRows(users, minted),
               NEW m \in Nodes, NEW n \in Nodes, m # n
        PROVE  /\ Names(m).inbounds \cap Names(n).inbounds = {}
               /\ Names(m).exits \cap Names(n).exits \subseteq {Block}
               /\ \A e \in Names(m).emails \cap Names(n).emails : e.tag \in {Block, EmptyTag}
    <2>1. m \in STRING /\ n \in STRING
      BY TablesAssumption
    <2>2. \A t \in Names(m).inbounds : t \notin Names(n).inbounds
      <3> SUFFICES ASSUME NEW t \in Names(m).inbounds, t \in Names(n).inbounds PROVE FALSE
        OBVIOUS
      <3>1. PICK r : Accepted(r) /\ t = QualifiedInboundTag(r, m)
        BY <1>1, NamesAreQualified
      <3>2. PICK s : Accepted(s) /\ t = QualifiedInboundTag(s, n)
        BY <1>1, NamesAreQualified
      <3> QED
        BY <1>1, <2>1, <3>1, <3>2, NodesNeverShareInbound DEF Accepted, IsTag
    <2>3. ASSUME NEW t \in Names(m).exits, t \in Names(n).exits
          PROVE  t = Block
      <3> SUFFICES ASSUME t # Block PROVE FALSE
        OBVIOUS
      <3>1. PICK r : Accepted(r) /\ t = QualifiedOutboundTag(r, m)
        BY <1>1, NamesAreQualified
      <3>2. PICK s : Accepted(s) /\ t = QualifiedOutboundTag(s, n)
        BY <1>1, <2>3, NamesAreQualified
      <3>3. r = Block
        BY <1>1, <2>1, <3>1, <3>2, NodesShareOnlyBlock DEF Accepted, IsTag
      <3> QED
        BY <3>1, <3>3 DEF QualifiedOutboundTag
    <2>4. ASSUME NEW e \in Names(m).emails \cap Names(n).emails
          PROVE  e.tag \in {Block, EmptyTag}
      <3>1. PICK s : IsTag(s) /\ e.tag = QualifiedOutboundTag(s, m)
        BY <1>1, NamesAreQualified
      <3>2. PICK t : IsTag(t) /\ e.tag = QualifiedOutboundTag(t, n)
        BY <1>1, NamesAreQualified
      <3>3. CASE s = EmptyTag \/ t = EmptyTag
        BY <3>1, <3>2, <3>3 DEF QualifiedOutboundTag
      <3>4. CASE s # EmptyTag /\ t # EmptyTag
        <4>1. s = Block
          BY <1>1, <2>1, <3>1, <3>2, <3>4, NodesShareOnlyBlock DEF IsTag
        <4> QED
          BY <3>1, <4>1 DEF QualifiedOutboundTag
      <3> QED
        BY <3>3, <3>4
    <2> QED
      BY <2>2, <2>3, <2>4
  <1>2. TypeInv /\ AccessRows(access) => NodesApart
    <2> SUFFICES ASSUME TypeInv, AccessRows(access), NEW m \in Nodes, NEW n \in Nodes, m # n
                 PROVE  /\ Names(m).inbounds \cap Names(n).inbounds = {}
                        /\ Names(m).exits \cap Names(n).exits \subseteq {Block}
                        /\ \A e \in Names(m).emails \cap Names(n).emails :
                              e.tag \in {Block, EmptyTag}
      BY DEF NodesApart
    <2> QED
      BY <1>1 DEF TypeInv
  <1> QED
    BY <1>2, Types, AccessTypes, PTL

-----------------------------------------------------------------------------
(* Qualification only renames.                                             *)

\* A client leaves its node where the config as it was written sends it: whatever
\* config a node serves and whatever access is granted, qualified names take a
\* client of a declared exit where the unqualified ones would have, through the
\* operator's rules on declared names and the patterns made for the exits, in
\* their order, one that takes another exit's clients among them.
THEOREM QualificationOnlyRenames == Spec => []RoutesAreRenamed
  <1>1. ASSUME NodeRows(node), NEW n \in Nodes, Served(n), RulesAreLocal(node[n].config, n),
               PatternsAreLocal(node[n].config, n), NEW u, NEW t \in Tags(BuildConfig(node[n].config, Projected(n)).inbounds),
               NEW o \in Tags(node[n].config.outbounds)
        PROVE  Route(Runtime(n), QualifiedInboundTag(t, n), Email(u, QualifiedOutboundTag(o, n)))
                 = QualifiedOutboundTag(
                      Route(BuildConfig(node[n].config, Projected(n)), t, Email(u, o)), n)
    <2>1. PICK config, projected, held, runtime, local :
              /\ config = node[n].config /\ projected = Projected(n) /\ held = keys[n]
              /\ runtime = DesiredConfig(n, config, projected, held) /\ runtime = Runtime(n)
              /\ local = BuildConfig(config, projected)
      BY DEF Runtime
    <2>2. config # Absent /\ Renderable(config)
      BY <1>1, <2>1 DEF Served, DesiredConfig
    <2>3. /\ n \in STRING /\ WellFormed(config) /\ LocalTagErrors(config, n) = {}
          /\ IsList(config.outbounds) => IsList(QualifyConfig(config, n).outbounds)
      <3>1. config \in Configs /\ LocalTagErrors(config, n) = {}
        BY <1>1, <2>1, <2>2 DEF NodeRows
      <3> QED
        BY <3>1, TablesAssumption
    <2>4. t \in Tags(config.inbounds)
      BY <1>1, <2>1, <2>2, <2>3, BuiltTags
    <2>5. /\ RulesAreLocal(config, n) /\ PatternsAreLocal(config, n)
          /\ o \in Tags(config.outbounds)
      BY <1>1, <2>1
    <2>6. SameRoute(n, runtime, local, t, o, u)
      BY <2>1, <2>2, <2>3, <2>4, <2>5, RouteRenamed
    <2> QED
      BY <2>1, <2>6 DEF SameRoute
  <1>2. TypeInv => RoutesAreRenamed
    BY <1>1 DEF TypeInv, RoutesAreRenamed
  <1> QED
    BY <1>2, Types, PTL

-----------------------------------------------------------------------------
(* Links.                                                                  *)

\* What a link without a profile says: one exit of the user's over one inbound.
SaysOf(link, user, o, inbound, held) ==
    /\ link.inbound = inbound.tag /\ link.outbound = o
    /\ link.email = Email(user.username, o) /\ link.uuid = user.uuids[Email(user.username, o)]
    /\ link.params = InboundParams(inbound, held)

\* The exits a user may leave by, and the tags of the inbounds the user reaches.
Granted(user, config) ==
    {o \in user.allowed_outbounds :
        o \in Tags(config.outbounds) /\ Email(user.username, o) \in DOMAIN user.uuids}
ReachedTags(user, config) ==
    {t \in user.allowed_inbounds : IsVless(Entries(config.inbounds), t)}

LEMMA DirectVariant ==
    ASSUME NEW request, NEW inbound, NEW input,
           NEW link, link = VariantLink(request, inbound, Direct, input)
    PROVE  /\ link.inbound = inbound.tag /\ link.outbound = request.outbound
           /\ link.email = request.email /\ link.uuid = request.uuid
           /\ link.params = InboundParams(inbound, input.keys) /\ link.profile = Absent
           /\ link.host = ResolveAddress(input.address, inbound)
  <1>1. Direct.id = Absent /\ Direct.overrides = << >>
    BY DEF Direct
  <1>2. \A address : VariantAddress(Direct, address) = address
    BY <1>1 DEF VariantAddress
  <1>3. \A params : VariantParams(Direct, params) = params
    BY <1>1 DEF VariantParams
  <1>4. link = [inbound |-> inbound.tag, outbound |-> request.outbound,
                email |-> request.email, uuid |-> request.uuid, profile |-> Direct.id,
                host |-> VariantAddress(Direct, ResolveAddress(input.address, inbound)),
                port |-> link.port,
                params |-> VariantParams(Direct, InboundParams(inbound, input.keys)),
                label |-> link.label]
    BY DEF VariantLink
  <1> QED
    BY <1>1, <1>2, <1>3, <1>4

\* Every link without a profile is of a granted exit and a reached inbound.
LEMMA DirectLinks ==
    ASSUME NEW user, NEW config, NEW input,
           \A q \in DOMAIN input.profiles : \A v \in input.profiles[q] : v.id # Absent,
           NEW link \in LinksForUser(user, config, input), link.profile = Absent
    PROVE  \E o \in Granted(user, config), t \in ReachedTags(user, config) :
              SaysOf(link, user, o, Tagged(Entries(config.inbounds), t), input.keys)
  <1>1. PICK request \in ExitRequests(user, Tags(config.outbounds)),
             inbound \in Reached(user, Entries(config.inbounds)) :
          link \in LinksForInbound(request, inbound, input)
    BY DEF LinksForUser
  <1>2. PICK o \in Granted(user, config) :
          request = [outbound |-> o, email |-> Email(user.username, o),
                     uuid |-> user.uuids[Email(user.username, o)]]
    BY <1>1 DEF ExitRequests, Granted
  <1>3. PICK t \in ReachedTags(user, config) : inbound = Tagged(Entries(config.inbounds), t)
    BY <1>1 DEF Reached, ReachedTags
  <1>4. PICK v \in ProfileVariants(inbound.tag, input.profiles) :
          link = VariantLink(request, inbound, v, input)
    BY <1>1 DEF LinksForInbound
  <1>5. v = Direct
    <2>1. link.profile = v.id
      BY <1>4 DEF VariantLink
    <2> QED
      BY <1>4, <2>1 DEF ProfileVariants
  <1>6. /\ link.inbound = inbound.tag /\ link.outbound = request.outbound
        /\ link.email = request.email /\ link.uuid = request.uuid
        /\ link.params = InboundParams(inbound, input.keys)
    BY <1>4, <1>5, DirectVariant
  <1>7. SaysOf(link, user, o, inbound, input.keys)
    BY <1>2, <1>6 DEF SaysOf
  <1> QED
    BY <1>3, <1>7

\* And every granted exit has one over every reached inbound that has a port and
\* an address.
LEMMA LinkOfEach ==
    ASSUME NEW user, NEW config, NEW input,
           NEW o \in Granted(user, config), NEW t \in ReachedTags(user, config),
           NEW inbound, inbound = Tagged(Entries(config.inbounds), t),
           inbound.port # Absent, ResolveAddress(input.address, inbound) # NoAddress
    PROVE  \E link \in LinksForUser(user, config, input) :
              link.profile = Absent /\ SaysOf(link, user, o, inbound, input.keys)
  <1>1. PICK request :
          request = [outbound |-> o, email |-> Email(user.username, o),
                     uuid |-> user.uuids[Email(user.username, o)]]
    OBVIOUS
  <1>2. /\ request \in ExitRequests(user, Tags(config.outbounds))
        /\ inbound \in Reached(user, Entries(config.inbounds))
    BY <1>1 DEF ExitRequests, Granted, Reached, ReachedTags
  <1>3. PICK link : link = VariantLink(request, inbound, Direct, input)
    OBVIOUS
  <1>4. /\ link.inbound = inbound.tag /\ link.outbound = request.outbound
        /\ link.email = request.email /\ link.uuid = request.uuid
        /\ link.params = InboundParams(inbound, input.keys) /\ link.profile = Absent
        /\ link.host = ResolveAddress(input.address, inbound)
    BY <1>3, DirectVariant
  <1>5. link \in LinksForInbound(request, inbound, input)
    BY <1>3, <1>4 DEF LinksForInbound, ProfileVariants
  <1>6. link \in LinksForUser(user, config, input)
    BY <1>2, <1>5 DEF LinksForUser
  <1>7. SaysOf(link, user, o, inbound, input.keys)
    BY <1>1, <1>4 DEF SaysOf
  <1> QED
    BY <1>4, <1>6, <1>7

\* The inputs nodeLinks qualifies for a node.
Input(n, row, held, entries) ==
    [node |-> n, address |-> row.address, label |-> row.label,
     keys |-> QualifyKeys(held, n), profiles |-> QualifyProfiles(entries, n)]

LEMMA LinksOfRow ==
    ASSUME NEW username, NEW status, NEW accessRow, NEW n, NEW row, NEW held, NEW entries
    PROVE  NodeLinks(username, status, accessRow, n, row, held, entries).links =
              LinksForUser(QualifyUser(UserShape(username, status, accessRow), n),
                           QualifyConfig(row.config, n), Input(n, row, held, entries))
  <1> DEFINE U == QualifyUser(UserShape(username, status, accessRow), n)
             C == QualifyConfig(row.config, n)
             I == Input(n, row, held, entries)
             All == {Built(user, config, input) : user \in {U}, config \in {C}, input \in {I}}
  <1>1. NodeLinks(username, status, accessRow, n, row, held, entries) = CHOOSE b \in All : TRUE
    BY DEF NodeLinks, Input
  <1> HIDE DEF U, C, I
  <1>2. All = {Built(U, C, I)}
    OBVIOUS
  <1>3. (CHOOSE b \in All : TRUE) = Built(U, C, I)
    BY <1>2
  <1> QED
    BY <1>1, <1>3 DEF Built, U, C, I

\* The stored key of every REALITY inbound, and no bad one.
KeysHeld(stored, tag, held) ==
    /\ stored.reality # Absent => tag \in DOMAIN held
    /\ \A q \in DOMAIN held : held[q] \in Nat \ {BadKey}

\* A link made from an inbound says what the served one speaks.
LEMMA ParamsSpeak ==
    ASSUME NEW config, WellFormed(config), Startable(config), IsList(config.inbounds),
           NEW k \in DOMAIN config.inbounds, NEW stored, stored = config.inbounds[k],
           stored.protocol = "vless",
           NEW tag, NEW clients, NEW held, KeysHeld(stored, tag, held),
           NEW named, NamedFrom(stored, tag, named),
           NEW made, MadeFrom(stored, tag, clients, held, made),
           NEW link, link.params = InboundParams(named, held)
    PROVE  Speaks(link, made)
  <1>1. stored \in EntrySet(config.inbounds)
    BY PlaceHasEntry
  <1>2. /\ Supported(stored.transport.network)
        /\ DOMAIN stored.transport.settings \cap {"path", "serviceName"}
              \subseteq Settings[stored.transport.network]
        /\ stored.security = "reality" =>
              /\ stored.reality # Absent /\ 1 \in DOMAIN stored.reality.serverNames
              /\ stored.reality.serverNames[1] # Absent
        /\ stored.reality # Absent => {"privateKey", "serverNames"} \subseteq DOMAIN stored.reality
    BY <1>1 DEF WellFormed, Startable
  <1>3. /\ named.transport = stored.transport /\ named.security = stored.security
        /\ named.reality = stored.reality /\ named.tag = tag
    BY DEF NamedFrom
  <1>4. made.transport = stored.transport /\ made.security = stored.security
    BY DEF MadeFrom
  <1>5. /\ TransportParams(named) \subseteq link.params
        /\ SecurityParams(named, held) \subseteq link.params
    BY DEF InboundParams
  <1>6. <<"type", IF made.transport.network = "raw" THEN "tcp"
                  ELSE made.transport.network>> \in link.params
    BY <1>3, <1>4, <1>5 DEF TransportParams
  <1>7. ASSUME NEW s \in {"path", "serviceName"} \cap DOMAIN made.transport.settings
        PROVE  <<s, made.transport.settings[s]>> \in link.params
    BY <1>2, <1>3, <1>4, <1>5 DEF TransportParams
  <1>8. ASSUME made.security # "none"
        PROVE  <<"security", made.security>> \in link.params
    BY <1>3, <1>4, <1>5, <1>8 DEF SecurityParams
  <1>9. ASSUME made.security = "reality"
        PROVE  /\ <<"pbk", made.reality.privateKey>> \in link.params
               /\ \E i \in DOMAIN made.reality.serverNames :
                     <<"sni", made.reality.serverNames[i]>> \in link.params
    <2>1. stored.security = "reality" /\ stored.reality # Absent /\ tag \in DOMAIN held
      BY <1>2, <1>4, <1>9 DEF KeysHeld
    <2>2. PICK reality : reality = [stored.reality EXCEPT !.privateKey = held[tag]]
      OBVIOUS
    <2>3. made.reality = reality
      BY <2>1, <2>2 DEF MadeFrom
    <2>4. reality.privateKey = held[tag] /\ reality.serverNames = stored.reality.serverNames
      BY <1>2, <2>1, <2>2
    <2>5. RealityParams(named, held) \subseteq link.params
      BY <1>3, <1>5, <2>1 DEF SecurityParams
    <2>6. /\ Param("sni", First(stored.reality.serverNames)) \subseteq link.params
          /\ Param("pbk", IF KeyOf(named, held) = BadKey THEN Absent ELSE KeyOf(named, held))
                \subseteq link.params
      BY <1>3, <2>1, <2>5 DEF RealityParams
    <2>7. KeyOf(named, held) = held[tag]
      BY <1>3, <2>1 DEF KeyOf
    <2>8. held[tag] # BadKey /\ held[tag] # Absent
      BY <2>1, TablesAssumption DEF KeysHeld
    <2>9. First(stored.reality.serverNames) = stored.reality.serverNames[1]
      BY <1>2, <2>1 DEF First
    <2>10. <<"pbk", held[tag]>> \in link.params
      BY <2>6, <2>7, <2>8 DEF Param
    <2>11. <<"sni", stored.reality.serverNames[1]>> \in link.params
      BY <1>2, <2>1, <2>6, <2>9 DEF Param
    <2> QED
      BY <1>2, <2>1, <2>3, <2>4, <2>10, <2>11
  <1> QED
    BY <1>6, <1>7, <1>8, <1>9 DEF Speaks

-----------------------------------------------------------------------------
(* Links that work, and clients that have one.                             *)

LEMMA KeysStep == TypeInv /\ KeyRows(keys) /\ [Next]_vars => KeyRows(keys')
  <1> SUFFICES ASSUME TypeInv, KeyRows(keys), [Next]_vars PROVE KeyRows(keys')
    OBVIOUS
  <1>1. minted + 1 \in Nat \ {BadKey}
    BY DEF TypeInv, BadKey
  <1>2. ASSUME NEW n \in Nodes, NEW map, keys' = [keys EXCEPT ![n] = map],
               \A t \in DOMAIN map : map[t] \in Nat \ {BadKey}
        PROVE  KeyRows(keys')
    BY <1>2 DEF KeyRows
  <1>3. ASSUME NEW n \in Nodes, RotateKey(n)
        PROVE  KeyRows(keys')
    <2>1. PICK t : keys' = [keys EXCEPT ![n] = With(@, t, minted + 1)]
      BY <1>3 DEF RotateKey
    <2>2. PICK map : map = With(keys[n], t, minted + 1)
      OBVIOUS
    <2>3. keys' = [keys EXCEPT ![n] = map]
      BY <2>1, <2>2
    <2>4. \A j \in DOMAIN map : map[j] \in Nat \ {BadKey}
      BY <1>1, <2>2 DEF With, KeyRows
    <2> QED
      BY <1>2, <2>3, <2>4
  <1>4. ASSUME NEW n \in Nodes, RenderNode(n)
        PROVE  KeyRows(keys')
    <2>1. PICK map :
            map = [t \in Unkeyed(n) \cup DOMAIN keys[n] |->
                      IF t \in DOMAIN keys[n] THEN keys[n][t] ELSE minted + 1]
      OBVIOUS
    <2>2. keys' = [keys EXCEPT ![n] = map]
      BY <1>4, <2>1 DEF RenderNode
    <2>3. \A j \in DOMAIN map : map[j] \in Nat \ {BadKey}
      BY <1>1, <2>1 DEF KeyRows
    <2> QED
      BY <1>2, <2>2, <2>3
  <1>5. ASSUME keys' # keys
        PROVE  \E n \in Nodes : RotateKey(n) \/ RenderNode(n)
    BY <1>5 DEF Next, vars, tables, Request, Work, LookUp, ReadAccess, ReadNode, ReadProfiles,
                ReadKeys, Stays, SaveConfig, SetAddress, SetProfile, DeleteProfile, SetAccess,
                DeleteAccess, DeleteUser, SetUser, RotateToken, Tick
  <1>6. CASE keys' = keys
    BY <1>6
  <1> QED
    BY <1>3, <1>4, <1>5, <1>6

LEMMA ProfilesStep == ProfileRows(profiles) /\ [Next]_vars => ProfileRows(profiles')
  <1> SUFFICES ASSUME ProfileRows(profiles), [Next]_vars PROVE ProfileRows(profiles')
    OBVIOUS
  <1>1. ASSUME NEW n \in Nodes, SetProfile(n)
        PROVE  ProfileRows(profiles')
    <2>1. PICK p \in Profiles :
            profiles' = [profiles EXCEPT ![n] = {q \in @ : q.id # p.id} \cup {p}]
      BY <1>1 DEF SetProfile
    <2> QED
      BY <2>1, TablesAssumption DEF ProfileRows
  <1>2. ASSUME NEW n \in Nodes, DeleteProfile(n)
        PROVE  ProfileRows(profiles')
    BY <1>2 DEF DeleteProfile, ProfileRows
  <1>3. ASSUME profiles' # profiles
        PROVE  \E n \in Nodes : SetProfile(n) \/ DeleteProfile(n)
    BY <1>3 DEF Next, vars, tables, Request, Work, LookUp, ReadAccess, ReadNode, ReadProfiles,
                ReadKeys, Stays, SaveConfig, SetAddress, RotateKey, RenderNode, SetAccess,
                DeleteAccess, DeleteUser, SetUser, RotateToken, Tick
  <1>4. CASE profiles' = profiles
    BY <1>4
  <1> QED
    BY <1>1, <1>2, <1>3, <1>4

\* The inductive invariant of the tables the links are built from.
RowsInv == NodeRows(node) /\ UserRows(users, minted) /\ ProfileRows(profiles) /\ KeyRows(keys)

LEMMA RowsTyped == Spec => []RowsInv
  <1>1. Init => ProfileRows(profiles) /\ KeyRows(keys)
    BY TablesAssumption DEF Init
  <1>2. TypeInv /\ ProfileRows(profiles) /\ KeyRows(keys) /\ [Next]_vars
          => ProfileRows(profiles)' /\ KeyRows(keys)'
    BY KeysStep, ProfilesStep
  <1>3. TypeInv /\ ProfileRows(profiles) /\ KeyRows(keys) => RowsInv
    BY DEF TypeInv, RowsInv
  <1> QED
    BY <1>1, <1>2, <1>3, Types, PTL DEF Spec

\* What is known of a node that serves, and of a user on it.
NodeData(n, config, q, projected, held, clients, runtime) ==
    /\ config = node[n].config /\ q = QualifyConfig(config, n)
    /\ projected = Projected(n) /\ held = QualifyKeys(keys[n], n)
    /\ clients = Clients(n, config, projected)
    /\ runtime = DesiredConfig(n, config, projected, keys[n]) /\ runtime = Runtime(n)

LEMMA ServingNode ==
    ASSUME RowsInv, NEW n \in Nodes, Served(n),
           NEW config, NEW q, NEW projected, NEW held, NEW clients, NEW runtime,
           NodeData(n, config, q, projected, held, clients, runtime)
    PROVE  /\ n \in STRING /\ WellFormed(config) /\ config # Absent /\ Renderable(config)
           /\ LocalTagErrors(config, n) = {}
           /\ IsList(config.inbounds) /\ IsList(q.inbounds)
           /\ IsList(config.outbounds) => IsList(q.outbounds)
  <1>1. config # Absent /\ Renderable(config)
    BY DEF NodeData, Served, Runtime, DesiredConfig
  <1>2. config \in Configs /\ LocalTagErrors(config, n) = {}
    BY <1>1 DEF RowsInv, NodeRows, NodeData
  <1> QED
    BY <1>1, <1>2, TablesAssumption DEF NodeData, Renderable

\* The keys of a node that serves, under their qualified names.
LEMMA ServingKeys ==
    ASSUME RowsInv, NEW n \in Nodes, Served(n), IsList(node[n].config.inbounds),
           NEW i \in DOMAIN node[n].config.inbounds,
           NEW stored, stored = node[n].config.inbounds[i],
           NEW tag, tag = QualifiedInboundTag(stored.tag, n),
           NEW held, held = QualifyKeys(keys[n], n)
    PROVE  KeysHeld(stored, tag, held)
  <1> DEFINE Name(t) == QualifiedInboundTag(t, n)
  <1>1. PICK map : map = keys[n]
    OBVIOUS
  <1>2. /\ DOMAIN held = {Name(k) : k \in DOMAIN map}
        /\ \A q \in DOMAIN held : held[q] = map[CHOOSE k \in DOMAIN map : Name(k) = q]
    BY <1>1 DEF QualifyKeys, Rename
  <1>3. \A t \in DOMAIN map : map[t] \in Nat \ {BadKey}
    BY <1>1 DEF RowsInv, KeyRows
  <1> HIDE DEF Name
  <1>4. ASSUME NEW q \in DOMAIN held
        PROVE  held[q] \in Nat \ {BadKey}
    BY <1>2, <1>3
  <1>5. ASSUME stored.reality # Absent
        PROVE  tag \in DOMAIN held
    <2>1. stored \in EntrySet(node[n].config.inbounds)
      BY PlaceHasEntry
    <2>2. stored.tag \in RealityInboundTags(node[n].config)
      BY <1>5, <2>1 DEF RealityInboundTags
    <2>3. stored.tag \in DOMAIN map
      BY <1>1, <2>2 DEF Served, Unkeyed
    <2> QED
      BY <1>2, <2>3 DEF Name
  <1> QED
    BY <1>4, <1>5 DEF KeysHeld

\* What is known of an active user with a row on the node.
UserData(u, n, user) ==
    /\ u \in ActiveUsers /\ Row(u, n) # Absent
    /\ user = QualifyUser(UserShape(u, "active", Row(u, n)), n)

\* The uuid of a link is the one the node's clients have for its email.
LEMMA ServedUser ==
    ASSUME RowsInv, NEW n \in Nodes, NEW u, NEW user, UserData(u, n, user), NEW o,
           NEW qualified, qualified = QualifyUsers(Projected(n), n)
    PROVE  /\ user.username = u /\ user \in Active(qualified)
           /\ Email(u, o) \in DOMAIN UuidsMap(qualified) <=> Email(u, o) \in DOMAIN user.uuids
           /\ Email(u, o) \in DOMAIN user.uuids =>
                 UuidsMap(qualified)[Email(u, o)] = user.uuids[Email(u, o)]
  <1>1. /\ u \in DOMAIN users /\ users[u] # Absent /\ users[u].status = "active"
        /\ access[u][n] # Absent
        /\ user = QualifyUser(UserShape(u, users[u].status, access[u][n]), n)
    BY DEF UserData, ActiveUsers, Row, RowsInv, UserRows
  <1>2. qualified = QualifyUsers(NodeUsers(users, access, n), n)
    BY DEF Projected
  <1>3. user.username = u
    <2>1. PICK row, status : row = access[u][n] /\ status = users[u].status
      OBVIOUS
    <2>2. user = QualifyUser(UserShape(u, status, row), n)
      BY <1>1, <2>1
    <2> QED
      BY <2>2, QualifiedRow DEF RenamedRow
  <1>4. user \in Active(qualified)
    BY <1>1, <1>2, UuidOfOwner, SMTT(30)
  <1>5. Email(u, o) \in DOMAIN UuidsMap(qualified) <=> Email(u, o) \in DOMAIN user.uuids
    BY <1>1, <1>2, UuidOfOwner, SMTT(30)
  <1>6. Email(u, o) \in DOMAIN user.uuids =>
           UuidsMap(qualified)[Email(u, o)] = user.uuids[Email(u, o)]
    BY <1>1, <1>2, UuidOfOwner, SMTT(30)
  <1> QED
    BY <1>3, <1>4, <1>5, <1>6

\* The links of the user on the node, by what they are made of.
LEMMA LinksOfUser ==
    ASSUME NEW n, NEW u, NEW user, UserData(u, n, user),
           NEW config, config = node[n].config, NEW q, q = QualifyConfig(config, n),
           NEW input, input = Input(n, node[n], keys[n], profiles[n])
    PROVE  LinksOn(u, n) = LinksForUser(user, q, input)
  BY LinksOfRow DEF LinksOn, Build, UserData

LEMMA ProfilesHaveIds ==
    ASSUME RowsInv, NEW n \in Nodes,
           NEW input, input = Input(n, node[n], keys[n], profiles[n])
    PROVE  \A q \in DOMAIN input.profiles : \A v \in input.profiles[q] : v.id # Absent
  <1>1. input.profiles = QualifyProfiles(profiles[n], n)
    BY DEF Input
  <1>2. \A p \in profiles[n] : p.id # Absent
    BY DEF RowsInv, ProfileRows
  <1> QED
    BY <1>1, <1>2 DEF QualifyProfiles

\* A link works: see LinksWork.
WorksOn(runtime, config, link) ==
    LET inbound == Tagged(runtime.inbounds, link.inbound) IN
    /\ Speaks(link, inbound) /\ Admits(link, inbound)
    /\ \/ Captured(config.rules, link)
       \/ ~OwnRuleFirst(Entries(config.outbounds), link.outbound)
       \/ Route(runtime, link.inbound, link.email) = link.outbound

LEMMA DirectLinkWorks ==
    ASSUME RowsInv, NEW n \in Nodes, Runs(n),
           NEW config, NEW q, NEW projected, NEW held, NEW clients, NEW runtime,
           NodeData(n, config, q, projected, held, clients, runtime),
           NEW u, NEW user, UserData(u, n, user),
           NEW link \in LinksOn(u, n), link.profile = Absent
    PROVE  WorksOn(runtime, q, link)
  <1>1. /\ n \in STRING /\ WellFormed(config) /\ config # Absent /\ Renderable(config)
        /\ LocalTagErrors(config, n) = {}
        /\ IsList(config.inbounds) /\ IsList(q.inbounds)
        /\ IsList(config.outbounds) => IsList(q.outbounds)
    BY ServingNode DEF Runs
  <1>2. /\ config = node[n].config /\ q = QualifyConfig(config, n)
        /\ held = QualifyKeys(keys[n], n) /\ clients = Clients(n, config, projected)
        /\ runtime = DesiredConfig(n, config, projected, keys[n]) /\ projected = Projected(n)
    BY DEF NodeData
  <1>3. PICK input : input = Input(n, node[n], keys[n], profiles[n]) /\ input.keys = held
    <2>1. Input(n, node[n], keys[n], profiles[n]).keys = held
      BY <1>2 DEF Input
    <2> QED
      BY <2>1
  <1>4. PICK o \in Granted(user, q), t \in ReachedTags(user, q) :
            SaysOf(link, user, o, Tagged(Entries(q.inbounds), t), held)
    <2>1. link \in LinksForUser(user, q, input)
      BY <1>2, <1>3, LinksOfUser
    <2>2. \A p \in DOMAIN input.profiles : \A v \in input.profiles[p] : v.id # Absent
      BY <1>3, ProfilesHaveIds
    <2> QED
      BY <1>3, <2>1, <2>2, DirectLinks
  <1>5. IsVless(q.inbounds, t) /\ t \in user.allowed_inbounds /\ Entries(q.inbounds) = q.inbounds
    BY <1>1 DEF ReachedTags, Entries
  <1>6. PICK k \in DOMAIN config.inbounds :
            SamePlace(n, config, q, clients, held, runtime, t, k)
    BY <1>1, <1>2, <1>5, ServedInbound DEF IsVless
  <1>7. PICK stored, named, made :
            stored = config.inbounds[k] /\ named = q.inbounds[k] /\ made = runtime.inbounds[k]
    OBVIOUS
  <1>8. /\ Tagged(q.inbounds, t) = named /\ Tagged(runtime.inbounds, t) = made
        /\ NamedFrom(stored, t, named) /\ MadeFrom(stored, t, clients, held, made)
        /\ t = QualifiedInboundTag(stored.tag, n)
    BY <1>6, <1>7 DEF SamePlace
  <1>9. SaysOf(link, user, o, named, held)
    BY <1>4, <1>5, <1>8
  <1>10. named.tag = t /\ named.protocol = stored.protocol
    BY <1>8 DEF NamedFrom
  <1>11. stored.protocol = "vless"
    BY <1>5, <1>8, <1>10 DEF IsVless, Protocols
  <1>12. PICK email : email = Email(u, o)
    OBVIOUS
  <1>13. /\ user.username = u /\ user \in Active(QualifyUsers(projected, n))
         /\ email \in DOMAIN UuidsMap(QualifyUsers(projected, n)) <=> email \in DOMAIN user.uuids
         /\ email \in DOMAIN user.uuids =>
               UuidsMap(QualifyUsers(projected, n))[email] = user.uuids[email]
    BY <1>2, <1>12, ServedUser
  <1>14. /\ link.inbound = t /\ link.outbound = o /\ link.email = email
         /\ link.uuid = user.uuids[email] /\ link.params = InboundParams(named, held)
    BY <1>9, <1>10, <1>12, <1>13 DEF SaysOf
  <1>15. Speaks(link, made)
    <2>1. KeysHeld(stored, t, held)
      BY <1>1, <1>2, <1>7, <1>8, ServingKeys DEF Runs
    <2>2. Startable(config)
      BY <1>2 DEF Runs
    <2> QED
      BY <1>1, <1>7, <1>8, <1>11, <1>14, <2>1, <2>2, ParamsSpeak
  <1>16. Admits(link, made)
    <2>1. PICK c : c = [id |-> link.uuid, email |-> link.email]
      OBVIOUS
    <2>2. o \in user.allowed_outbounds /\ email \in DOMAIN user.uuids
      BY <1>12, <1>13 DEF Granted
    <2>3. IsClient(QualifyUsers(projected, n), q.inbounds, t, c)
      BY <1>5, <1>12, <1>13, <1>14, <2>1, <2>2 DEF IsClient
    <2>4. c \in ClientsFor(clients, t)
      BY <1>2, <2>3, ClientsOfRuntime
    <2>5. made.settings.clients = ClientsFor(clients, t)
      BY <1>8, <1>11 DEF MadeFrom
    <2> QED
      BY <2>1, <2>4, <2>5 DEF Admits
  <1>17. \/ Captured(q.rules, link)
         \/ ~OwnRuleFirst(Entries(q.outbounds), link.outbound)
         \/ Route(runtime, link.inbound, link.email) = link.outbound
    <2>1. PICK exits, rules :
              exits = QualifiedExits(config, n) /\ rules = QualifyConfig(config, n).rules
      OBVIOUS
    <2>2. Leads(runtime, rules, exits)
      BY <1>1, <1>2, <2>1, RuntimeOutbounds
    <2>3. exits = OutboundTags(Entries(q.outbounds)) /\ DOMAIN exits \subseteq Nat
      <3>1. DOMAIN Entries(q.outbounds) \subseteq Nat \ {0} /\ Exits(q) = exits
        BY <1>1, <1>2, <2>1, ExitsNamed
      <3> QED
        BY <3>1, ExitsDeclared DEF Exits
    <2>4. CASE Taking(rules, t, Email(u, o)) # {}
      BY <1>2, <1>12, <1>14, <2>1, <2>4 DEF Captured, Taking
    <2>5. CASE Taking(rules, t, Email(u, o)) = {} /\ OwnRuleFirst(Entries(q.outbounds), o)
      <3>1. Route(runtime, t, Email(u, o)) = GoesTo(exits, o)
        BY <2>2, <2>3, <2>5, RouteOf
      <3>2. GoesTo(exits, o) = o
        BY <2>3, <2>5, OwnRuleLeads
      <3> QED
        BY <1>12, <1>14, <3>1, <3>2
    <2>6. CASE ~OwnRuleFirst(Entries(q.outbounds), o)
      BY <1>14, <2>6
    <2> QED
      BY <2>4, <2>5, <2>6
  <1> QED
    BY <1>8, <1>14, <1>15, <1>16, <1>17 DEF WorksOn

\* A link the subscription or the links view hands out works as soon as its node
\* runs what the panel serves: whatever was edited on either side, the two
\* renders of one inbound agree on transport, secrets and client, and on the exit
\* wherever the exit's own rule is the first that takes it.
THEOREM LinksAlwaysWork == Spec => []LinksWork
  <1>1. ASSUME RowsInv, NEW n \in Nodes, Runs(n), NEW u \in ActiveUsers, Row(u, n) # Absent,
               NEW link \in LinksOn(u, n), link.profile = Absent
        PROVE  WorksOn(Runtime(n), QualifyConfig(node[n].config, n), link)
    <2>1. PICK config, q, projected, held, clients, runtime :
              NodeData(n, config, q, projected, held, clients, runtime)
      BY DEF NodeData, Runtime
    <2>2. PICK user : UserData(u, n, user)
      BY <1>1 DEF UserData
    <2>3. WorksOn(runtime, q, link)
      BY <1>1, <2>1, <2>2, DirectLinkWorks
    <2> QED
      BY <2>1, <2>3 DEF NodeData
  <1>2. RowsInv => LinksWork
    BY <1>1 DEF LinksWork, WorksOn
  <1> QED
    BY <1>2, RowsTyped, PTL

\* A client of a served inbound is an active user's, for an exit and an inbound of
\* the user's row.
LEMMA ClientsUser ==
    ASSUME RowsInv, NEW n \in Nodes, NEW projected, projected = Projected(n),
           NEW inbounds, NEW tag, NEW c, IsClient(QualifyUsers(projected, n), inbounds, tag, c)
    PROVE  \E u, user, o :
              /\ u \in ActiveUsers /\ UserData(u, n, user) /\ o \in user.allowed_outbounds
              /\ tag \in user.allowed_inbounds /\ IsVless(inbounds, tag)
              /\ Email(u, o) \in DOMAIN user.uuids
              /\ c.email = Email(u, o) /\ c.id = user.uuids[Email(u, o)]
  <1>1. PICK qualified : qualified = QualifyUsers(projected, n)
    OBVIOUS
  <1>2. PICK p \in Active(qualified) : \E o \in p.allowed_outbounds :
            /\ tag \in p.allowed_inbounds /\ IsVless(inbounds, tag)
            /\ Email(p.username, o) \in DOMAIN UuidsMap(qualified)
            /\ c = [id |-> UuidsMap(qualified)[Email(p.username, o)],
                    email |-> Email(p.username, o)]
    BY <1>1 DEF IsClient
  <1>3. PICK o \in p.allowed_outbounds :
            /\ tag \in p.allowed_inbounds /\ IsVless(inbounds, tag)
            /\ Email(p.username, o) \in DOMAIN UuidsMap(qualified)
            /\ c = [id |-> UuidsMap(qualified)[Email(p.username, o)],
                    email |-> Email(p.username, o)]
    BY <1>2
  <1>4. PICK u \in DOMAIN users :
            /\ users[u] # Absent /\ access[u][n] # Absent
            /\ p = QualifyUser(UserShape(u, users[u].status, access[u][n]), n)
    BY <1>1, <1>2, RowsOfNode DEF Active, Projected
  <1>5. p.status = users[u].status
    <2>1. PICK row, status : row = access[u][n] /\ status = users[u].status
      OBVIOUS
    <2>2. p = QualifyUser(UserShape(u, status, row), n)
      BY <1>4, <2>1
    <2> QED
      BY <2>1, <2>2, QualifiedRow DEF RenamedRow
  <1>6. users[u].status = "active"
    BY <1>2, <1>5 DEF Active
  <1>7. UserData(u, n, p)
    BY <1>4, <1>6 DEF UserData, ActiveUsers, Row, RowsInv, UserRows
  <1>8. PICK email : email = Email(u, o)
    OBVIOUS
  <1>9. /\ p.username = u
        /\ email \in DOMAIN UuidsMap(qualified) <=> email \in DOMAIN p.uuids
        /\ email \in DOMAIN p.uuids => UuidsMap(qualified)[email] = p.uuids[email]
    BY <1>1, <1>7, <1>8, ServedUser
  <1>10. /\ email \in DOMAIN p.uuids /\ c.email = email /\ c.id = p.uuids[email]
    BY <1>3, <1>8, <1>9
  <1>11. u \in ActiveUsers
    BY <1>7 DEF UserData
  <1> QED
    BY <1>3, <1>7, <1>8, <1>10, <1>11

\* A client of a served inbound has a link of the node's.
HasLink(n, client, tag) ==
    \E u \in {u \in ActiveUsers : Row(u, n) # Absent} : \E link \in LinksOn(u, n) :
        /\ link.profile = Absent /\ link.email = client.email
        /\ link.uuid = client.id /\ link.inbound = tag

LEMMA ServedClientHasLink ==
    ASSUME RowsInv, NEW n \in Nodes, Runs(n),
           NEW config, NEW q, NEW projected, NEW held, NEW clients, NEW runtime,
           NodeData(n, config, q, projected, held, clients, runtime),
           NEW i \in EntrySet(runtime.inbounds), i.protocol = "vless", i.port # Absent,
           ResolveAddress(node[n].address, i) # NoAddress,
           NEW client \in i.settings.clients, client.email.tag \in Tags(q.outbounds)
    PROVE  HasLink(n, client, i.tag)
  <1>1. /\ n \in STRING /\ WellFormed(config) /\ config # Absent /\ Renderable(config)
        /\ LocalTagErrors(config, n) = {}
        /\ IsList(config.inbounds) /\ IsList(q.inbounds)
    BY ServingNode DEF Runs
  <1>2. /\ config = node[n].config /\ q = QualifyConfig(config, n)
        /\ held = QualifyKeys(keys[n], n) /\ clients = Clients(n, config, projected)
        /\ runtime = DesiredConfig(n, config, projected, keys[n]) /\ projected = Projected(n)
    BY DEF NodeData
  <1>3. PICK j \in DOMAIN runtime.inbounds : i = runtime.inbounds[j]
    BY EntryHasPlace
  <1>4. j \in DOMAIN config.inbounds
    BY <1>1, <1>2, RuntimePlaces
  <1>5. PICK stored, tag, named :
            /\ stored = config.inbounds[j] /\ tag = QualifiedInboundTag(stored.tag, n)
            /\ named = q.inbounds[j]
    OBVIOUS
  <1>6. MadeFrom(stored, tag, clients, held, i) /\ NamedFrom(stored, tag, named)
    BY <1>1, <1>2, <1>3, <1>4, <1>5, RuntimeInbound, InboundNamed
  <1>7. /\ i.tag = tag /\ stored.protocol = "vless" /\ client \in ClientsFor(clients, tag)
        /\ named.port = i.port /\ named.listen = i.listen /\ named.tag = tag
    BY <1>6 DEF MadeFrom, NamedFrom
  <1>8. IsClient(QualifyUsers(projected, n), q.inbounds, tag, client)
    BY <1>2, <1>7, ClientsOfRuntime
  <1>9. PICK u, user, o :
            /\ u \in ActiveUsers /\ UserData(u, n, user) /\ o \in user.allowed_outbounds
            /\ tag \in user.allowed_inbounds /\ IsVless(q.inbounds, tag)
            /\ Email(u, o) \in DOMAIN user.uuids
            /\ client.email = Email(u, o) /\ client.id = user.uuids[Email(u, o)]
    BY <1>2, <1>8, ClientsUser
  <1>10. user.username = u
    BY <1>9, ServedUser
  <1>11. PICK k \in DOMAIN config.inbounds :
            SamePlace(n, config, q, clients, held, runtime, tag, k)
    BY <1>1, <1>2, <1>9, ServedInbound DEF IsVless
  <1>12. k = j
    <2>1. /\ config.inbounds[k] \in EntrySet(config.inbounds)
          /\ config.inbounds[j] \in EntrySet(config.inbounds)
      BY <1>1, <1>4, PlaceHasEntry
    <2>2. /\ IsTag(config.inbounds[k].tag) /\ LocalInbound(config.inbounds[k].tag, n)
          /\ IsTag(config.inbounds[j].tag) /\ LocalInbound(config.inbounds[j].tag, n)
      <3>1. ASSUME NEW e \in EntrySet(config.inbounds)
            PROVE  IsTag(e.tag) /\ LocalInbound(e.tag, n)
        <4>1. IsTag(e.tag)
          BY <1>1 DEF WellFormed
        <4>2. LocalInbound(e.tag, n)
          BY <1>1 DEF LocalTagErrors, TagErrors, LocalInbound
        <4> QED
          BY <4>1, <4>2
      <3> QED
        BY <2>1, <3>1
    <2>3. QualifiedInboundTag(config.inbounds[k].tag, n)
            = QualifiedInboundTag(config.inbounds[j].tag, n)
      BY <1>5, <1>11 DEF SamePlace
    <2>4. config.inbounds[k].tag = config.inbounds[j].tag
      BY <1>1, <2>2, <2>3, InboundsStayApart DEF IsTag
    <2> QED
      BY <1>2, <1>4, <2>4 DEF Runs, Startable
  <1>13. named = Tagged(Entries(q.inbounds), tag)
    BY <1>1, <1>5, <1>11, <1>12 DEF SamePlace, Entries
  <1>14. PICK input : input = Input(n, node[n], keys[n], profiles[n])
                      /\ input.address = node[n].address
    <2>1. Input(n, node[n], keys[n], profiles[n]).address = node[n].address
      BY DEF Input
    <2> QED
      BY <2>1
  <1>15. named.port # Absent /\ ResolveAddress(input.address, named) # NoAddress
    BY <1>7, <1>14 DEF ResolveAddress
  <1>16. o \in Granted(user, q) /\ tag \in ReachedTags(user, q)
    <2>1. o \in Tags(q.outbounds)
      BY <1>9 DEF Email
    <2> QED
      BY <1>1, <1>9, <1>10, <2>1 DEF Granted, ReachedTags, Entries
  <1>17. PICK link \in LinksForUser(user, q, input) :
            link.profile = Absent /\ SaysOf(link, user, o, named, input.keys)
    BY <1>13, <1>15, <1>16, LinkOfEach
  <1>18. link \in LinksOn(u, n)
    BY <1>2, <1>9, <1>14, LinksOfUser
  <1>19. /\ link.email = client.email /\ link.uuid = client.id /\ link.inbound = i.tag
    BY <1>7, <1>9, <1>10, <1>17 DEF SaysOf
  <1>20. Row(u, n) # Absent
    BY <1>9 DEF UserData
  <1> QED
    BY <1>9, <1>17, <1>18, <1>19, <1>20 DEF HasLink

\* Nobody is a client of a node without a link to be one with: every client a
\* render adds for a declared exit is one the links of its user have, with its
\* uuid, over the inbound it is added to.
THEOREM ClientsHaveLinks == Spec => []EveryClientHasLink
  <1>1. ASSUME RowsInv, NEW n \in Nodes, Runs(n),
               NEW i \in EntrySet(Runtime(n).inbounds), i.protocol = "vless", i.port # Absent,
               ResolveAddress(node[n].address, i) # NoAddress,
               NEW client \in i.settings.clients,
               client.email.tag \in Tags(QualifyConfig(node[n].config, n).outbounds)
        PROVE  HasLink(n, client, i.tag)
    <2>1. PICK config, q, projected, held, clients, runtime :
              NodeData(n, config, q, projected, held, clients, runtime)
      BY DEF NodeData, Runtime
    <2>2. i \in EntrySet(runtime.inbounds) /\ client.email.tag \in Tags(q.outbounds)
      BY <1>1, <2>1 DEF NodeData
    <2> QED
      BY <1>1, <2>1, <2>2, ServedClientHasLink
  <1>2. RowsInv => EveryClientHasLink
    BY <1>1 DEF EveryClientHasLink, HasLink
  <1> QED
    BY <1>2, RowsTyped, PTL
=============================================================================
