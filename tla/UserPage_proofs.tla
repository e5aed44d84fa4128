--------------------------- MODULE UserPage_proofs ---------------------------
(***************************************************************************)
(* Proofs about UserPage, for any users, nodes, tags and clicks: with the  *)
(* page's form or one other client at the user endpoints at a time, and    *)
(* the subscription card rotating tokens beside it, whatever dies.         *)
(***************************************************************************)
EXTENDS UserPage, UserAdmin_proofs

\* The subscription card sends nothing but rotations.
CardRotates == jobs[Card].kind \in {"none", "sub-token"}

Section == [authorized : BOOLEAN, tags : SUBSET Tags]
Page == [mode : {"closed", "user", "access", "open", "saving"}, edit : BOOLEAN,
         user : Users \cup {Null}, status : Status, note : Notes,
         form : [Nodes -> Section], loaded : [Nodes -> AccessRow \cup {Null}]]

\* The form keeps the hidden tags it was loaded with, and the request under way
\* for it carries its sections.
FormOK ==
    /\ page.mode # "closed" => page.user \in Users
    /\ \A n \in Nodes : page.form[n].tags \ Shown = Hidden(page.loaded[n])
    /\ page.mode = "saving" =>
          /\ jobs[Form].kind \in {"create", "update"} /\ jobs[Form].user = page.user
          /\ jobs[Form].access = ToAccessPayload(page.form)

\* Only a delete gets to the statements that delete.
DeletesOnly(job) == job.pc \in {"delete-access", "delete-user"} => job.kind = "delete"

PageInv ==
    /\ SerialInv(Form) /\ CardRotates /\ DeletesOnly(jobs[Form])
    /\ page \in Page /\ FormOK

LEMMA SlotsOfPage == Form \in Slots /\ Card \in Slots /\ Form # Card /\ Slots = {Form, Card}
  BY PageAssumption

-----------------------------------------------------------------------------
(* The steps of the page as steps of the user endpoints.                   *)

\* What the card's requests do.
Rotation == StartSubToken(Card) \/ Check(Card) \/ SetSubToken(Card) \/ Die(Card)

LEMMA PageSteps ==
    ASSUME [PageNext]_<<vars, pageVars>>
    PROVE  \/ StepOf(Form)
           \/ Rotation /\ UNCHANGED pageVars
           \/ Submit
           \/ UNCHANGED vars
  <1>1. CASE OpenCreate \/ OpenEdit \/ LoadUser \/ LoadAccess \/ Leave
    BY <1>1 DEF OpenCreate, OpenEdit, LoadUser, LoadAccess, Leave, Unmoved, vars
  <1>2. CASE ToggleNode \/ ToggleTag \/ SetGlobal
    BY <1>2 DEF ToggleNode, ToggleTag, SetGlobal, Click, Unmoved, vars
  <1>3. CASE FormStep \/ OtherClient
    BY <1>3 DEF FormStep, OtherClient, StepOf
  <1>4. CASE CardStep
    BY <1>4 DEF CardStep, Rotation
  <1> QED
    BY <1>1, <1>2, <1>3, <1>4 DEF PageNext

\* The payload of a form is a request as the endpoints take it.
LEMMA PayloadIsRequest ==
    ASSUME page \in Page, page.user \in Users
    PROVE  /\ Payload(page) \in Request /\ JobOK(Payload(page))
           /\ Payload(page).pc = "check" /\ Payload(page).kind \in {"create", "update"}
           /\ Payload(page).user = page.user
           /\ Payload(page).access = ToAccessPayload(page.form)
  <1>1. page.form \in [Nodes -> Section]
    BY DEF Page
  <1>2. ToAccessPayload(page.form) \in AccessIn
    BY <1>1 DEF ToAccessPayload, AccessIn, Section
  <1> QED
    BY <1>2, UsersAssumption
    DEF Payload, Free, Request, JobOK, Steps, AllKinds, NoUuids, Page

LEMMA SubmitTypes == ASSUME PageInv, Submit PROVE TypeOK'
  <1>1. page.user \in Users /\ Arrive(Form, Payload(page))
    BY DEF PageInv, FormOK, Submit
  <1> QED
    BY <1>1, PayloadIsRequest, ArriveTypes, SlotsOfPage DEF PageInv, SerialInv

LEMMA PageTypes == PageInv /\ [PageNext]_<<vars, pageVars>> => TypeOK'
  <1> SUFFICES ASSUME PageInv, [PageNext]_<<vars, pageVars>> PROVE TypeOK'
    OBVIOUS
  <1>1. CASE Submit
    BY <1>1, SubmitTypes
  <1>2. Rotation => StepOf(Card)
    BY DEF Rotation, StepOf
  <1> QED
    BY <1>1, <1>2, PageSteps, StepTypes, NextSteps, SlotsOfPage DEF PageInv, SerialInv

-----------------------------------------------------------------------------
(* The user endpoints.                                                     *)

\* A step of another slot that creates and deletes no row leaves the request what
\* it relies on.
LEMMA SerialBeside ==
    ASSUME NEW r \in Slots, SerialInv(r), TypeOK', jobs'[r] = jobs[r], access' = access,
           \A u \in Users : users'[u] = Null <=> users[u] = Null
    PROVE  SerialInv(r)'
  <1>1. NoOrphanAccess'
    BY DEF SerialInv, NoOrphanAccess
  <1>2. jobs[r].kind # "none" => jobs[r].user \in Users
    BY DEF SerialInv, TypeOK, JobOK
  <1>3. jobs[r].pc \in {"replace", "list", "remove", "get", "upsert"} => jobs[r].kind # "none"
    BY DEF SerialInv, TypeOK, JobOK
  <1>4. SerialOK(jobs[r])'
    BY <1>2, <1>3 DEF SerialInv, SerialOK
  <1> QED
    BY <1>1, <1>4 DEF SerialInv

LEMMA RotationBeside ==
    ASSUME PageInv, TypeOK', Rotation
    PROVE  SerialInv(Form)' /\ CardRotates'
  <1> TypeOK /\ Form \in Slots /\ Card \in Slots /\ Form # Card
    BY SlotsOfPage DEF PageInv, SerialInv
  <1>1. PICK job \in Request : jobs' = [jobs EXCEPT ![Card] = job]
                               /\ job.kind \in {"none", "sub-token"}
    <2>1. CASE StartSubToken(Card)
      <3>1. PICK u \in Users : Arrive(Card, [Free EXCEPT !.kind = "sub-token", !.user = u])
        BY <2>1 DEF StartSubToken
      <3> DEFINE job == [Free EXCEPT !.kind = "sub-token", !.user = u]
      <3>2. job \in Request /\ job.kind = "sub-token"
        BY DEF Free, Request, Steps, AllKinds, NoUuids
      <3> QED
        BY <3>1, <3>2 DEF Arrive
    <2>2. CASE Check(Card)
      <3> DEFINE job == jobs[Card]
                 next == [job EXCEPT !.row = users[job.user], !.pc = AfterCheck(job.kind)]
      <3>1. job.kind = "sub-token" /\ job \in Request /\ users[job.user] \in UserRow \cup {Null}
        BY <2>2, OfJob DEF PageInv, CardRotates, Check, At
      <3>2. next \in Request /\ next.kind = "sub-token"
        BY <3>1 DEF Request, AfterCheck, Steps
      <3>3. jobs' = [jobs EXCEPT ![Card] = next] \/ jobs' = [jobs EXCEPT ![Card] = Free]
        BY <2>2 DEF Check, Becomes
      <3> QED
        BY <3>2, <3>3, FreeIsRequest DEF Free
    <2>3. CASE SetSubToken(Card) \/ Die(Card)
      BY <2>3, FreeIsRequest DEF SetSubToken, Die, Becomes, Free
    <2> QED
      BY <2>1, <2>2, <2>3 DEF Rotation
  <1>2. jobs'[Form] = jobs[Form] /\ jobs'[Card] = job
    BY <1>1 DEF TypeOK
  <1>3. access' = access
    BY DEF Rotation, StartSubToken, Arrive, Check, SetSubToken, Die
  <1>4. ASSUME NEW u \in Users
        PROVE  users'[u] = Null <=> users[u] = Null
    <2>1. CASE users' = users
      BY <2>1
    <2>2. CASE \E t \in Nat, w \in Users : users[w] # Null /\ users' = [users EXCEPT ![w].token = t]
      BY <2>2, UsersAssumption DEF TypeOK, UserRow
    <2>3. SetSubToken(Card) =>
             \/ users' = users
             \/ \E t \in Nat, w \in Users : users[w] # Null /\ users' = [users EXCEPT ![w].token = t]
      BY OfJob DEF SetSubToken, At, TypeOK
    <2> QED
      BY <2>1, <2>2, <2>3 DEF Rotation, StartSubToken, Arrive, Check, Die
  <1>5. SerialInv(Form)'
    BY <1>2, <1>3, <1>4, SerialBeside DEF PageInv
  <1> QED
    BY <1>1, <1>2, <1>5 DEF CardRotates

\* A form that is submitted becomes a request that has read nothing yet.
LEMMA SubmitSerial ==
    ASSUME PageInv, TypeOK', Submit
    PROVE  SerialInv(Form)' /\ jobs'[Card] = jobs[Card]
  <1>1. /\ Payload(page).pc = "check" /\ jobs' = [jobs EXCEPT ![Form] = Payload(page)]
        /\ users' = users /\ access' = access
    BY PayloadIsRequest DEF PageInv, FormOK, Submit, Arrive
  <1>2. /\ jobs'[Form].pc = "check" /\ jobs'[Card] = jobs[Card]
    BY <1>1, SlotsOfPage DEF PageInv, SerialInv, TypeOK
  <1>3. NoOrphanAccess' /\ SerialOK(jobs[Form])'
    BY <1>1, <1>2 DEF PageInv, SerialInv, NoOrphanAccess, SerialOK
  <1> QED
    BY <1>2, <1>3, SlotsOfPage, SerialStep DEF PageInv, SerialInv

LEMMA KeepsDeletes ==
    ASSUME TypeOK, NEW s \in Slots, StepOf(s), DeletesOnly(jobs[s])
    PROVE  DeletesOnly(jobs'[s])
  <1> DEFINE job == jobs[s]
  <1>1. job \in Request /\ jobs \in [Slots -> Request] /\ DeletesOnly(Free)
    BY DEF TypeOK, Free, DeletesOnly
  <1>2. ASSUME NEW next, Becomes(s, next), DeletesOnly(next) PROVE DeletesOnly(jobs'[s])
    BY <1>1, <1>2 DEF Becomes
  <1>3. ASSUME NEW base \in Request, NEW todo PROVE DeletesOnly(Writing(base, todo))
    BY <1>1, <1>3 DEF Writing, Request, DeletesOnly
  <1>4. CASE StartCreate(s) \/ StartUpdate(s) \/ StartDelete(s) \/ StartSubToken(s)
    <2>1. \E next : next.pc = "check" /\ Becomes(s, next)
      <3>1. CASE StartCreate(s)
        BY <3>1 DEF StartCreate, Arrive, Free, Becomes
      <3>2. CASE StartUpdate(s)
        BY <3>2 DEF StartUpdate, Arrive, Free, Becomes
      <3>3. CASE StartDelete(s)
        BY <3>3 DEF StartDelete, Arrive, Free, Becomes
      <3>4. CASE StartSubToken(s)
        BY <3>4 DEF StartSubToken, Arrive, Free, Becomes
      <3> QED
        BY <1>4, <3>1, <3>2, <3>3, <3>4
    <2> QED
      BY <1>2, <2>1 DEF DeletesOnly
  <1>5. CASE Check(s)
    <2>1. job.kind \in AllKinds
      BY <1>1, <1>5 DEF Check, At, Request
    <2>2. DeletesOnly([job EXCEPT !.row = users[job.user], !.pc = AfterCheck(job.kind)])
      BY <1>1, <2>1 DEF DeletesOnly, AfterCheck, AllKinds, Request
    <2> QED
      BY <1>1, <1>2, <1>5, <2>2 DEF Check
  <1>6. CASE Insert(s)
    BY <1>1, <1>2, <1>3, <1>6 DEF Insert
  <1>7. CASE Replace(s)
    BY <1>1, <1>2, <1>7 DEF Replace, Request, DeletesOnly
  <1>8. CASE List(s)
    <2> DEFINE next == [job EXCEPT !.todo = ToRemove(job), !.pc = "remove"]
    <2>1. next.pc = "remove"
      BY <1>1 DEF Request
    <2>2. DeletesOnly(next)
      BY <2>1 DEF DeletesOnly
    <2> HIDE DEF next
    <2>3. Becomes(s, next) \/ Becomes(s, Writing(job, Listed(job.access)))
      BY <1>8 DEF List, next
    <2> QED
      BY <1>1, <1>2, <1>3, <2>2, <2>3
  <1>9. CASE Remove(s)
    BY <1>1, <1>2, <1>3, <1>9 DEF Remove, At, Request, DeletesOnly
  <1>10. CASE GetAccess(s)
    BY <1>1, <1>2, <1>10 DEF GetAccess, Request, DeletesOnly
  <1>11. CASE UpsertAccess(s)
    <2>1. [job EXCEPT !.old = NoUuids] \in Request
      BY <1>1 DEF Request, NoUuids
    <2> QED
      BY <1>2, <1>3, <1>11, <2>1 DEF UpsertAccess
  <1>12. CASE DeleteAccessRows(s)
    BY <1>1, <1>2, <1>12 DEF DeleteAccessRows, At, Request, DeletesOnly
  <1>13. CASE DeleteUserRow(s) \/ SetSubToken(s) \/ Die(s)
    BY <1>1, <1>2, <1>13 DEF DeleteUserRow, SetSubToken, Die
  <1> QED
    BY <1>4, <1>5, <1>6, <1>7, <1>8, <1>9, <1>10, <1>11, <1>12, <1>13 DEF StepOf

LEMMA PageDeletes ==
    ASSUME PageInv, [PageNext]_<<vars, pageVars>>
    PROVE  DeletesOnly(jobs[Form])'
  <1> TypeOK /\ DeletesOnly(jobs[Form])
    BY DEF PageInv, SerialInv
  <1>1. CASE StepOf(Form)
    BY <1>1, KeepsDeletes, SlotsOfPage DEF DeletesOnly
  <1>2. CASE Rotation
    BY <1>2, OwnSlot, SlotsOfPage DEF Rotation, StepOf, DeletesOnly
  <1>3. CASE Submit
    <2>1. jobs'[Form].pc = "check"
      BY <1>3, PayloadIsRequest, SlotsOfPage DEF Submit, Arrive, PageInv, FormOK, TypeOK
    <2> QED
      BY <2>1 DEF DeletesOnly
  <1>4. CASE UNCHANGED vars
    BY <1>4 DEF vars, DeletesOnly
  <1> QED
    BY <1>1, <1>2, <1>3, <1>4, PageSteps

LEMMA PageSerial ==
    ASSUME PageInv, [PageNext]_<<vars, pageVars>>
    PROVE  SerialInv(Form)' /\ CardRotates'
  <1>1. TypeOK'
    BY PageTypes
  <1>2. CASE StepOf(Form)
    BY <1>2, SlotsOfPage, SerialNext, OwnSlot DEF PageInv, SerialInv, CardRotates
  <1>3. CASE Rotation
    BY <1>1, <1>3, RotationBeside
  <1>4. CASE Submit
    BY <1>1, <1>4, SubmitSerial DEF PageInv, CardRotates
  <1>5. CASE UNCHANGED vars
    BY <1>5, SlotsOfPage, SerialNext DEF PageInv, CardRotates, vars
  <1> QED
    BY <1>2, <1>3, <1>4, <1>5, PageSteps

-----------------------------------------------------------------------------
(* The form.                                                               *)

LEMMA ClosedForm == Closed \in Page /\ \A n \in Nodes : Closed.form[n].tags = {}
                    /\ Closed.loaded[n] = Null
  BY PageAssumption
  DEF Closed, Page, EmptyAccessForm, Unchecked, NotLoaded, Section, Status

\* A page that is closed has nothing to keep.
LEMMA CloseForm == ASSUME page' = Closed PROVE (page \in Page /\ FormOK)'
  BY ClosedForm DEF FormOK, Closed, Hidden

LEMMA FormOpens ==
    ASSUME PageInv, OpenCreate \/ OpenEdit \/ Leave
    PROVE  (page \in Page /\ FormOK)'
  <1>1. CASE OpenCreate
    <2>1. PICK u \in Users : page' = [Closed EXCEPT !.mode = "open", !.user = u]
      BY <1>1 DEF OpenCreate
    <2>2. page' \in Page /\ page'.mode = "open" /\ page'.user = u
          /\ page'.form = Closed.form /\ page'.loaded = Closed.loaded
      BY <2>1, ClosedForm DEF Page
    <2> QED
      BY <2>2, ClosedForm DEF FormOK, Hidden
  <1>2. CASE OpenEdit
    <2>1. PICK u \in Users : page' = [Closed EXCEPT !.mode = "user", !.edit = TRUE, !.user = u]
      BY <1>2 DEF OpenEdit
    <2>2. page' \in Page /\ page'.mode = "user" /\ page'.user = u
          /\ page'.form = Closed.form /\ page'.loaded = Closed.loaded
      BY <2>1, ClosedForm DEF Page
    <2> QED
      BY <2>2, ClosedForm DEF FormOK, Hidden
  <1>3. CASE Leave
    BY <1>3, CloseForm DEF Leave
  <1> QED
    BY <1>1, <1>2, <1>3

\* Loading copies the stored tags, hidden ones included.
LEMMA FormLoads ==
    ASSUME PageInv, LoadUser \/ LoadAccess
    PROVE  (page \in Page /\ FormOK)'
  <1>1. /\ page.user \in Users /\ page \in Page
        /\ users[page.user] \in UserRow \cup {Null}
        /\ access[page.user] \in [Nodes -> AccessRow \cup {Null}]
    BY DEF LoadUser, LoadAccess, PageInv, FormOK, SerialInv, TypeOK
  <1>2. CASE LoadUser /\ users[page.user] = Null
    BY <1>2, CloseForm DEF LoadUser
  <1>3. CASE LoadUser /\ users[page.user] # Null
    <2>1. page' = [page EXCEPT !.mode = "access", !.status = users[page.user].status,
                               !.note = users[page.user].note]
      BY <1>3 DEF LoadUser
    <2>2. /\ page' \in Page /\ page'.mode = "access" /\ page'.user = page.user
          /\ page'.form = page.form /\ page'.loaded = page.loaded
      BY <1>1, <1>3, <2>1 DEF Page, UserRow
    <2> QED
      BY <1>1, <2>2 DEF PageInv, FormOK
  <1>4. CASE LoadAccess
    <2> DEFINE rows == access[page.user]
    <2>1. \A n \in Nodes : FormFromUser(rows)[n] \in Section
      BY <1>1 DEF FormFromUser, Unchecked, Section, AccessRow
    <2>2. FormFromUser(rows) \in [Nodes -> Section]
      BY <2>1 DEF FormFromUser
    <2>3. \A n \in Nodes : FormFromUser(rows)[n].tags \ Shown = Hidden(rows[n])
      BY DEF FormFromUser, Unchecked, Hidden
    <2>4. /\ page' \in Page /\ page'.mode = "open" /\ page'.user = page.user
          /\ page'.form = FormFromUser(rows) /\ page'.loaded = rows
      BY <1>1, <1>4, <2>2 DEF LoadAccess, Page
    <2> QED
      BY <1>1, <2>3, <2>4 DEF FormOK
  <1> QED
    BY <1>2, <1>3, <1>4

\* No click reaches a hidden tag.
LEMMA FormClicks ==
    ASSUME PageInv, ToggleNode \/ ToggleTag \/ SetGlobal
    PROVE  (page \in Page /\ FormOK)'
  <1>1. /\ page \in Page /\ page.form \in [Nodes -> Section]
        /\ \A n \in Nodes : page.form[n].tags \ Shown = Hidden(page.loaded[n])
    BY DEF PageInv, FormOK, Page
  <1>2. page.mode = "open" /\ page.user \in Users
    BY DEF ToggleNode, ToggleTag, SetGlobal, Click, PageInv, FormOK
  <1>3. ASSUME NEW form \in [Nodes -> Section], page' = [page EXCEPT !.form = form],
               \A n \in Nodes : form[n].tags \ Shown = page.form[n].tags \ Shown
        PROVE  (page \in Page /\ FormOK)'
    <2>1. /\ page' \in Page /\ page'.mode = "open" /\ page'.user = page.user
          /\ page'.form = form /\ page'.loaded = page.loaded
      BY <1>1, <1>2, <1>3 DEF Page
    <2> QED
      BY <1>1, <1>2, <1>3, <2>1 DEF FormOK
  <1>4. CASE ToggleNode
    <2>1. PICK n \in Nodes : page' = [page EXCEPT !.form[n].authorized = ~@]
      BY <1>4 DEF ToggleNode, Click
    <2> DEFINE form == [page.form EXCEPT ![n].authorized = ~@]
    <2>2. page' = [page EXCEPT !.form = form]
      BY <1>1, <2>1 DEF Page
    <2>3. form \in [Nodes -> Section] /\ \A m \in Nodes : form[m].tags = page.form[m].tags
      BY <1>1 DEF Section
    <2> QED
      BY <1>3, <2>2, <2>3
  <1>5. CASE ToggleTag
    <2>1. PICK n \in Nodes, t \in Shown :
             page' = [page EXCEPT !.form[n].tags = Toggled(@, t)]
      BY <1>5 DEF ToggleTag, Click
    <2> DEFINE form == [page.form EXCEPT ![n].tags = Toggled(@, t)]
    <2>2. page' = [page EXCEPT !.form = form]
      BY <1>1, <2>1 DEF Page
    <2>3. page.form[n] \in Section /\ t \in Tags
      BY <1>1, PageAssumption
    <2>4. form \in [Nodes -> Section]
      BY <1>1, <2>3 DEF Section, Toggled
    <2>5. \A m \in Nodes : form[m].tags \ Shown = page.form[m].tags \ Shown
      BY <1>1, <2>3 DEF Section, Toggled
    <2> QED
      BY <1>3, <2>2, <2>4, <2>5
  <1>6. CASE SetGlobal
    <2>1. PICK st \in Status, note \in Notes : page' = [page EXCEPT !.status = st, !.note = note]
      BY <1>6 DEF SetGlobal, Click
    <2>2. /\ page' \in Page /\ page'.mode = "open" /\ page'.user = page.user
          /\ page'.form = page.form /\ page'.loaded = page.loaded
      BY <1>1, <1>2, <2>1 DEF Page
    <2> QED
      BY <1>1, <1>2, <2>2 DEF FormOK
  <1> QED
    BY <1>4, <1>5, <1>6

LEMMA FormSubmits ==
    ASSUME PageInv, Submit
    PROVE  (page \in Page /\ FormOK)'
  <1>1. page \in Page /\ page.user \in Users
    BY DEF PageInv, FormOK, Submit
  <1>2. /\ page' \in Page /\ page'.mode = "saving" /\ page'.user = page.user
        /\ page'.form = page.form /\ page'.loaded = page.loaded
    BY <1>1 DEF Submit, Page
  <1>3. jobs'[Form] = Payload(page)
    BY SlotsOfPage DEF Submit, Arrive, PageInv, SerialInv, TypeOK
  <1> QED
    BY <1>1, <1>2, <1>3, PayloadIsRequest DEF PageInv, FormOK

\* A request at its next statement is still that of its user and payload.
LEMMA RequestStays ==
    ASSUME TypeOK, NEW s \in Slots, jobs'[s].kind # "none",
           \/ Check(s) \/ Insert(s) \/ Replace(s) \/ List(s) \/ Remove(s)
           \/ GetAccess(s) \/ UpsertAccess(s) \/ Die(s)
    PROVE  /\ jobs'[s].kind = jobs[s].kind
           /\ jobs'[s].user = jobs[s].user /\ jobs'[s].access = jobs[s].access
  <1> DEFINE job == jobs[s]
  <1>1. job \in Request /\ jobs \in [Slots -> Request] /\ Free.kind = "none"
    BY DEF TypeOK, Free
  <1> DEFINE Same(next) == next.kind # "none" => /\ next.kind = job.kind
                                                 /\ next.user = job.user
                                                 /\ next.access = job.access
  <1>2. ASSUME NEW next, Becomes(s, next), Same(next)
        PROVE  /\ jobs'[s].kind = job.kind
               /\ jobs'[s].user = job.user /\ jobs'[s].access = job.access
    BY <1>1, <1>2 DEF Becomes
  <1>3. ASSUME NEW base \in Request, base.kind = job.kind, base.user = job.user,
               base.access = job.access, NEW todo
        PROVE  Same(Writing(base, todo))
    BY <1>1, <1>3 DEF Writing, Request
  <1>4. CASE Check(s)
    BY <1>1, <1>2, <1>4 DEF Check, Request
  <1>5. CASE Insert(s)
    BY <1>1, <1>2, <1>3, <1>5 DEF Insert
  <1>6. CASE Replace(s)
    BY <1>1, <1>2, <1>6 DEF Replace, Request
  <1>7. CASE List(s)
    BY <1>1, <1>2, <1>3, <1>7 DEF List, Request
  <1>8. CASE Remove(s)
    BY <1>1, <1>2, <1>3, <1>8 DEF Remove, Request
  <1>9. CASE GetAccess(s)
    BY <1>1, <1>2, <1>9 DEF GetAccess, Request
  <1>10. CASE UpsertAccess(s)
    <2> DEFINE base == [job EXCEPT !.old = NoUuids]
    <2>1. /\ base \in Request /\ base.kind = job.kind
          /\ base.user = job.user /\ base.access = job.access
      BY <1>1 DEF Request, NoUuids
    <2> QED
      BY <1>2, <1>3, <1>10, <2>1 DEF UpsertAccess
  <1>11. CASE Die(s)
    BY <1>1, <1>2, <1>11 DEF Die
  <1> QED
    BY <1>4, <1>5, <1>6, <1>7, <1>8, <1>9, <1>10, <1>11

\* The page hears the end of its request, and until then the request is its own.
LEMMA FormHears ==
    ASSUME PageInv, FormStep
    PROVE  (page \in Page /\ FormOK)'
  <1>1. PICK failed \in BOOLEAN : Hears(failed)
    BY DEF FormStep
  <1>2. page \in Page /\ FormOK /\ TypeOK /\ Form \in Slots
    BY SlotsOfPage DEF PageInv, SerialInv
  <1>3. jobs'[Form].kind # "none" =>
           /\ jobs'[Form].kind = jobs[Form].kind
           /\ jobs'[Form].user = jobs[Form].user /\ jobs'[Form].access = jobs[Form].access
    BY <1>2, RequestStays DEF FormStep
  <1>4. CASE page' = page
    <2>1. page.mode = "saving" => jobs'[Form].kind # "none"
      BY <1>1, <1>2, <1>4 DEF Hears, Closed, Page
    <2> QED
      BY <1>2, <1>3, <1>4, <2>1 DEF FormOK
  <1>5. CASE page' = [page EXCEPT !.mode = "open"] /\ page.mode = "saving"
    <2>1. /\ page' \in Page /\ page'.mode = "open" /\ page'.user = page.user
          /\ page'.form = page.form /\ page'.loaded = page.loaded
      BY <1>2, <1>5 DEF Page
    <2> QED
      BY <1>2, <1>5, <2>1 DEF FormOK
  <1>6. CASE page' = Closed
    BY <1>6, CloseForm
  <1> QED
    BY <1>1, <1>4, <1>5, <1>6 DEF Hears

\* While the page waits, the form's slot is not another client's.
LEMMA OtherForm ==
    ASSUME PageInv, OtherClient \/ CardStep
    PROVE  (page \in Page /\ FormOK)'
  <1>1. page' = page /\ page \in Page /\ FormOK /\ TypeOK
    BY DEF OtherClient, CardStep, pageVars, PageInv, SerialInv
  <1>2. CASE CardStep
    <2>1. StepOf(Card)
      BY <1>2 DEF CardStep, StepOf
    <2>2. jobs'[Form] = jobs[Form]
      BY <1>1, <2>1, OwnSlot, SlotsOfPage
    <2> QED
      BY <1>1, <2>2 DEF FormOK
  <1>3. CASE OtherClient
    <2>1. page.mode # "saving"
      <3>1. CASE StartCreate(Form) \/ StartUpdate(Form) \/ StartDelete(Form)
        BY <1>1, <3>1 DEF StartCreate, StartUpdate, StartDelete, Arrive, FormOK
      <3>2. CASE DeleteAccessRows(Form) \/ DeleteUserRow(Form)
        BY <1>1, <3>2
        DEF DeleteAccessRows, DeleteUserRow, At, PageInv, DeletesOnly, FormOK
      <3> QED
        BY <1>3, <3>1, <3>2 DEF OtherClient
    <2> QED
      BY <1>1, <2>1 DEF FormOK
  <1> QED
    BY <1>2, <1>3

-----------------------------------------------------------------------------
(* The properties of the run UserPage_tab.                                 *)

LEMMA PageInitInv == PageInit => PageInv
  <1> SUFFICES ASSUME PageInit PROVE PageInv
    OBVIOUS
  <1>1. Init /\ page = Closed
    BY DEF PageInit
  <1>2. SerialInv(Form)
    BY <1>1, SerialInit, SlotsOfPage
  <1>3. CardRotates /\ DeletesOnly(jobs[Form])
    BY <1>1, SlotsOfPage DEF Init, CardRotates, DeletesOnly, Free
  <1>4. page \in Page /\ FormOK
    BY <1>1, ClosedForm DEF FormOK, Hidden, Closed
  <1> QED
    BY <1>2, <1>3, <1>4 DEF PageInv

LEMMA PageStep == PageInv /\ [PageNext]_<<vars, pageVars>> => PageInv'
  <1> SUFFICES ASSUME PageInv, [PageNext]_<<vars, pageVars>> PROVE PageInv'
    OBVIOUS
  <1>1. SerialInv(Form)' /\ CardRotates' /\ DeletesOnly(jobs[Form])'
    BY PageSerial, PageDeletes
  <1>2. (page \in Page /\ FormOK)'
    <2>1. CASE OpenCreate \/ OpenEdit \/ Leave
      BY <2>1, FormOpens
    <2>2. CASE LoadUser \/ LoadAccess
      BY <2>2, FormLoads
    <2>3. CASE ToggleNode \/ ToggleTag \/ SetGlobal
      BY <2>3, FormClicks
    <2>4. CASE Submit
      BY <2>4, FormSubmits
    <2>5. CASE FormStep
      BY <2>5, FormHears
    <2>6. CASE OtherClient \/ CardStep
      BY <2>6, OtherForm
    <2>7. CASE UNCHANGED <<vars, pageVars>>
      BY <2>7 DEF vars, pageVars, PageInv, FormOK
    <2> QED
      BY <2>1, <2>2, <2>3, <2>4, <2>5, <2>6, <2>7 DEF PageNext
  <1> QED
    BY <1>1, <1>2 DEF PageInv

\* What holds at every moment of the page's life: the form, its request and the
\* tables agree (UserEditPage.tsx over routers/admin_users.ts).
THEOREM PageInvariant == PageSpec => []PageInv
  <1> QED
    BY PageInitInv, PageStep, PTL DEF PageSpec

\* No access row is left without its user (NoOrphanAccess) by the page, another
\* client in its pauses, and rotations beside either.
THEOREM NoOrphansOnPage == PageSpec => []NoOrphanAccess
  <1>1. PageInv => NoOrphanAccess
    BY DEF PageInv, SerialInv
  <1> QED
    BY <1>1, PageInvariant, PTL

\* An update sent by the page revokes before it grants (RevokesFirst).
THEOREM RevokesFirstOnPage == PageSpec => []RevokesFirst
  <1>1. PageInv => RevokesFirst
    <2> SUFFICES ASSUME PageInv, NEW s \in Slots, jobs[s].kind = "update",
                        jobs[s].pc \in {"get", "upsert"}
                 PROVE  \A n \in Nodes :
                           access[jobs[s].user][n] # Null => n \in Listed(jobs[s].access)
      BY DEF RevokesFirst
    <2>1. s = Form
      BY SlotsOfPage DEF PageInv, CardRotates
    <2> QED
      BY <2>1 DEF PageInv, SerialInv, SerialOK
  <1> QED
    BY <1>1, PageInvariant, PTL

\* The steps of the page are steps of the endpoints, or a form that arrives.
LEMMA PageIsEndpoints ==
    ASSUME PageInv, [PageNext]_<<vars, pageVars>>
    PROVE  [Next]_vars \/ UNCHANGED <<users, access>>
  BY PageSteps, NextSteps, SlotsOfPage DEF Rotation, StepOf, Submit, Arrive

\* Whatever the page grants has a uuid (UuidForEveryGrant).
THEOREM GrantsOnPage == PageSpec => []UuidForEveryGrant
  <1>1. PageInit => UuidForEveryGrant
    BY DEF PageInit, Init, UuidForEveryGrant
  <1>2. PageInv /\ UuidForEveryGrant /\ [PageNext]_<<vars, pageVars>> => UuidForEveryGrant'
    BY PageIsEndpoints, StepGrants DEF PageInv, SerialInv, UuidForEveryGrant
  <1> QED
    BY <1>1, <1>2, PageInvariant, PTL DEF PageSpec

\* A uuid that the writes under way agree on is final (UuidsSettle) on the page
\* and beside it.
THEOREM UuidsSettleOnPage == PageSpec => UuidsSettle
  <1> DEFINE Settles == \A u \in Users, n \in Nodes, t \in Tags :
          (Agreed(u, n, t) /\ access'[u][n] # Null)
             => Agreed(u, n, t)' /\ access'[u][n].uuids[t] = access[u][n].uuids[t]
  <1>1. PageInv /\ [PageNext]_<<vars, pageVars>> => [Settles]_vars
    <2> SUFFICES ASSUME PageInv, [PageNext]_<<vars, pageVars>>, NEW u \in Users,
                        NEW n \in Nodes, NEW t \in Tags,
                        Agreed(u, n, t), access'[u][n] # Null, ~ UNCHANGED vars
                 PROVE  Agreed(u, n, t)' /\ access'[u][n].uuids[t] = access[u][n].uuids[t]
      OBVIOUS
    <2>1. TypeOK
      BY DEF PageInv, SerialInv
    <2>2. CASE \E s \in Slots : StepOf(s)
      BY <2>1, <2>2, StepSettles
    <2>3. CASE Submit
      <3>1. /\ Payload(page).pc = "check" /\ access' = access
            /\ jobs' = [jobs EXCEPT ![Form] = Payload(page)]
        BY <2>3, PayloadIsRequest DEF PageInv, FormOK, Submit, Arrive
      <3>2. \A s \in Slots : jobs'[s] = jobs[s] \/ jobs'[s].pc = "check"
        BY <2>1, <3>1 DEF TypeOK
      <3> QED
        BY <3>1, <3>2 DEF Agreed, At
    <2> QED
      BY <2>2, <2>3, PageSteps, SlotsOfPage DEF Rotation, StepOf
  <1>2. PageSpec => [][Settles]_vars
    BY <1>1, PageInvariant, PTL DEF PageSpec
  <1> QED
    BY <1>2 DEF UuidsSettle

\* No save of the form changes a token the card rotated (EditsKeepToken).
THEOREM TokensOnPage == PageSpec => EditsKeepToken
  <1> DEFINE Keeps == \A u \in Users :
                 (users[u] # Null /\ users'[u] # Null /\ users'[u].token # users[u].token)
                    => \E s \in Slots : SetSubToken(s)
  <1>1. PageInv /\ [PageNext]_<<vars, pageVars>> => [Keeps]_vars
    <2> SUFFICES ASSUME PageInv, [PageNext]_<<vars, pageVars>>, NEW u \in Users,
                        users[u] # Null, users'[u] # Null,
                        users'[u].token # users[u].token
                 PROVE  \E s \in Slots : SetSubToken(s)
      OBVIOUS
    <2>1. Next
      BY PageIsEndpoints DEF vars
    <2> QED
      BY <2>1, StepTokens DEF PageInv, SerialInv, Next
  <1>2. PageSpec => [][Keeps]_vars
    BY <1>1, PageInvariant, PTL DEF PageSpec
  <1> QED
    BY <1>2 DEF EditsKeepToken

\* "an edit never silently drops access to a tag the config UI cannot show"
\* (access.ts), whatever was clicked and whatever the configs declare.
THEOREM HiddenTagsKept == PageSpec => HiddenTagsSurvive
  <1> DEFINE Survive == \A n \in Nodes :
          (page.mode = "saving" /\ page.edit /\ UpsertAccess(Form) /\ n = First(jobs[Form].todo))
             => Hidden(access'[page.user][n]) = Hidden(page.loaded[n])
  <1>1. PageInv /\ [PageNext]_<<vars, pageVars>> => [Survive]_<<vars, pageVars>>
    <2> SUFFICES ASSUME PageInv, NEW n \in Nodes, page.mode = "saving", UpsertAccess(Form),
                        n = First(jobs[Form].todo)
                 PROVE  Hidden(access'[page.user][n]) = Hidden(page.loaded[n])
      OBVIOUS
    <2>1. /\ jobs[Form].user = page.user
          /\ jobs[Form].access = ToAccessPayload(page.form)
          /\ page.form[n].tags \ Shown = Hidden(page.loaded[n])
      BY DEF PageInv, FormOK
    <2>2. /\ n \in Listed(jobs[Form].access)
          /\ Granted(access'[page.user][n]) = jobs[Form].access[n]
      BY <2>1, UpsertStores, SlotsOfPage DEF PageInv
    <2>3. jobs[Form].access[n] = page.form[n].tags
      BY <2>1, <2>2 DEF Listed, ToAccessPayload
    <2>4. access'[page.user][n] # Null
      BY <2>2 DEF Granted, Listed
    <2> QED
      BY <2>1, <2>2, <2>3, <2>4 DEF Hidden, Granted
  <1>2. PageSpec => [][Survive]_<<vars, pageVars>>
    BY <1>1, PageInvariant, PTL DEF PageSpec
  <1> QED
    BY <1>2 DEF HiddenTagsSurvive
=============================================================================
