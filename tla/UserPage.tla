------------------------------ MODULE UserPage ------------------------------
(***************************************************************************)
(* The admin's user form over the user endpoints of UserAdmin: the page     *)
(* (src/frontend/src/pages/UserEditPage.tsx) reads a user in two statements,*)
(* keeps the access map as a form (src/frontend/src/lib/access.ts), and     *)
(* submits the whole of it.  Meanwhile other clients use the same endpoints *)
(* and the subscription card of the page rotates the user's token.         *)
(*                                                                         *)
(* The form shows a checkbox for each tag that the node's config declares  *)
(* now (Shown); the note column stands for expire and note, both of which  *)
(* the form submits as null when they are blank.                           *)
(***************************************************************************)
EXTENDS UserAdmin

CONSTANTS
    Form,      \* the slot of requests of the form, or of another client
    Card,      \* the slot of the subscription card's requests
    Shown,     \* tags that the configs declare
    Blank,     \* the note that is null, and the expire that is never
    MaxEdits   \* bound on clicks in the form

ASSUME PageAssumption ==
    /\ Slots = {Form, Card} /\ Form # Card
    /\ Shown \subseteq Tags /\ Blank \in Notes

VARIABLES
    page,   \* the form and what it was loaded from
    edits   \* how many clicks

pageVars == <<page, edits>>

Unchecked == [authorized |-> FALSE, tags |-> {}]
EmptyAccessForm == [n \in Nodes |-> Unchecked]
NotLoaded == [n \in Nodes |-> Null]

Closed == [mode |-> "closed", edit |-> FALSE, user |-> Null, status |-> "active",
           note |-> Blank, form |-> EmptyAccessForm, loaded |-> NotLoaded]

\* formFromUser: stored tags are copied verbatim.
FormOfShownTags(rows) ==
    [n \in Nodes |-> IF rows[n] = Null THEN Unchecked
                     ELSE [authorized |-> TRUE, tags |-> rows[n].grant \cap Shown]]
FormFromUser(rows) ==
    [n \in Nodes |-> IF rows[n] = Null THEN Unchecked
                     ELSE [authorized |-> TRUE, tags |-> rows[n].grant]]

\* toAccessPayload: sections that are not authorized are left out.
ToAccessPayload(form) ==
    [n \in Nodes |-> IF form[n].authorized THEN form[n].tags ELSE Null]

Unmoved == UNCHANGED <<users, access, jobs, minted, requests, deaths>>

-----------------------------------------------------------------------------
(* Loading and editing the form.                                           *)

OpenCreate ==
    /\ page.mode = "closed"
    /\ \E u \in Users : page' = [Closed EXCEPT !.mode = "open", !.user = u]
    /\ UNCHANGED edits /\ Unmoved

OpenEdit ==
    /\ page.mode = "closed"
    /\ \E u \in Users : page' = [Closed EXCEPT !.mode = "user", !.edit = TRUE, !.user = u]
    /\ UNCHANGED edits /\ Unmoved

\* getUserWithAccess: the user row (404, and the page stays empty), ...
LoadUser ==
    /\ page.mode = "user"
    /\ page' = IF users[page.user] = Null THEN Closed
               ELSE [page EXCEPT !.mode = "access", !.status = users[page.user].status,
                                 !.note = users[page.user].note]
    /\ UNCHANGED edits /\ Unmoved

\* ... then the access rows.
LoadAccess ==
    /\ page.mode = "access"
    /\ page' = [page EXCEPT !.mode = "open", !.form = FormFromUser(access[page.user]),
                            !.loaded = access[page.user]]
    /\ UNCHANGED edits /\ Unmoved

Click(filled) ==
    /\ page.mode = "open" /\ edits < MaxEdits
    /\ edits' = edits + 1
    /\ page' = filled
    /\ Unmoved

ToggleNode ==
    \E n \in Nodes : Click([page EXCEPT !.form[n].authorized = ~@])

\* toggleTag, and the checkboxes of a section: shown for a member, one for each
\* shown tag.
Toggled(tags, t) == IF t \in tags THEN tags \ {t} ELSE tags \cup {t}

ToggleTag ==
    \E n \in Nodes, t \in Shown :
        /\ page.form[n].authorized
        /\ Click([page EXCEPT !.form[n].tags = Toggled(@, t)])

SetGlobal ==
    \E st \in Status, note \in Notes :
        Click([page EXCEPT !.status = st, !.note = note])

\* A blank field is null in the payload: as it was for an update, blank for
\* a create.
Payload(filled) ==
    [Free EXCEPT !.kind = IF filled.edit THEN "update" ELSE "create",
                 !.user = filled.user, !.status = filled.status,
                 !.note = IF filled.edit /\ filled.note = Blank THEN Null ELSE filled.note,
                 !.access = ToAccessPayload(filled.form)]

Submit ==
    /\ page.mode = "open"
    /\ Arrive(Form, Payload(page))
    /\ page' = [page EXCEPT !.mode = "saving"]
    /\ UNCHANGED edits

\* The admin leaves; a request under way runs on.
Leave ==
    /\ page.mode \in {"open", "saving"}
    /\ page' = Closed
    /\ UNCHANGED edits /\ Unmoved

-----------------------------------------------------------------------------
(* The requests.                                                           *)

\* What the page makes of the end of its request: it moves on to the list of
\* users, or shows the error above the form, which can be submitted again.
Hears(failed) ==
    /\ page' = IF page.mode # "saving" \/ jobs'[Form].kind # "none" THEN page
               ELSE IF failed THEN [page EXCEPT !.mode = "open"] ELSE Closed
    /\ UNCHANGED edits

FormStep ==
    \/ Check(Form) /\ Hears(TRUE)
    \/ Insert(Form) /\ Hears(users' = users)
    \/ /\ \/ Replace(Form) \/ List(Form) \/ Remove(Form)
          \/ GetAccess(Form) \/ UpsertAccess(Form)
       /\ Hears(FALSE)
    \/ Die(Form) /\ Hears(TRUE)

\* Another client, as long as the page's request is not under way.
OtherClient ==
    /\ \/ StartCreate(Form) \/ StartUpdate(Form) \/ StartDelete(Form)
       \/ DeleteAccessRows(Form) \/ DeleteUserRow(Form)
    /\ UNCHANGED pageVars

\* The card beside the form: Generate and Rotate.
CardStep ==
    /\ StartSubToken(Card) \/ Check(Card) \/ SetSubToken(Card) \/ Die(Card)
    /\ UNCHANGED pageVars

PageInit == Init /\ page = Closed /\ edits = 0

PageNext ==
    \/ OpenCreate \/ OpenEdit \/ LoadUser \/ LoadAccess
    \/ ToggleNode \/ ToggleTag \/ SetGlobal \/ Submit \/ Leave
    \/ FormStep \/ OtherClient \/ CardStep

PageSpec == PageInit /\ [][PageNext]_<<vars, pageVars>>

-----------------------------------------------------------------------------
(* Properties.                                                             *)

Hidden(row) == IF row = Null THEN {} ELSE row.grant \ Shown

\* "an edit never silently drops access to a tag the config UI cannot show"
\* (access.ts): the row that a submitted form stores for a node grants the
\* hidden tags the user had there when the form was loaded, whatever was
\* clicked in between.
HiddenTagsSurvive ==
    [][\A n \in Nodes :
          (page.mode = "saving" /\ page.edit /\ UpsertAccess(Form) /\ n = First(jobs[Form].todo))
             => Hidden(access'[page.user][n]) = Hidden(page.loaded[n])]_<<vars, pageVars>>

\* "Pick an expiry date or uncheck the box" (UserEditPage.tsx): a form saved
\* with the box unchecked leaves a user that never expires.
UncheckedNeverExpires ==
    [][(page.mode = "saving" /\ page.note = Blank /\ Replace(Form) /\ users[page.user] # Null)
          => users'[page.user].note = Blank]_<<vars, pageVars>>
=============================================================================
