------------------------------ MODULE NodeSync ------------------------------
(***************************************************************************)
(* The node protocol of one node: the handlers of src/src/routers/node.ts  *)
(* (enroll, heartbeat, config, report) over the node's row in D1, the      *)
(* admin writes that move the desired config, and the node's agent, whose  *)
(* code is elsewhere and which follows docs/PROTOCOL.md.                   *)
(*                                                                         *)
(* A handler is not a transaction.  It runs up to its next `await` and     *)
(* every D1 statement is atomic by itself, so a handler occupies a slot    *)
(* and takes one action per statement; slots interleave freely.            *)
(*                                                                         *)
(* What a render reads is two values: the node's authored config and       *)
(* `members`, all the rows of users, user_node_access and reality_keys     *)
(* that the render of this node looks at.  The keys of the node are taken  *)
(* as minted; module RealityKeys models the render that mints them.        *)
(***************************************************************************)
EXTENDS Naturals

CONSTANTS
    Authored,       \* configs an admin may save
    Malformed,      \* those desiredConfig cannot render
    Failing,        \* those Xray on the node does not test or start
    Members,        \* contents of users, access and key rows
    Versions,       \* versions an agent may state, Null for an empty field
    Address,        \* the public address the node states about itself, or Null
    Slots,          \* handler invocations that may be open at once
    OkStages, FailStages, ProgressStages,    \* stages the agent reports
    MayOmitHash,    \* whether a heartbeat may leave applied_hash out
    MaxEdits, MaxLate, MaxLost, MaxCrashes,  \* bounds on these events
    Null

Renderable == Authored \ Malformed
Runtime == [config : Renderable, members : Members]
Digest(rt) == [sha256 |-> rt]
Hash == [sha256 : Runtime]

SuccessStages == {"applied", "started"}
Stages == SuccessStages \cup {"fetched", "test", "rolled_back"}

ASSUME ConstantsAssumption ==
    /\ Malformed \subseteq Authored
    /\ Null \notin Authored \cup Runtime \cup Hash \cup Stages \cup {"ok", "text"}
    /\ "ok" \notin Stages
    /\ OkStages \subseteq SuccessStages /\ FailStages \subseteq Stages
    /\ ProgressStages \subseteq Stages \ SuccessStages
    /\ MayOmitHash \in BOOLEAN

VARIABLES
    authored,   \* nodes.config_json
    members,    \* rows of the other tables the node's render reads
    row,        \* the liveness columns of the node's row
    open,       \* the handler invocations
    agent,      \* what the agent process is doing
    live,       \* the config Xray runs on the node
    applied,    \* the applied hash the agent keeps on disk
    lastOk,     \* whether its last apply succeeded, on disk too
    everLive,   \* history: every config Xray ran on the node
    edits, late, lost, crashes    \* how often each event happened

plane == <<authored, members, row, open>>
disk == <<live, applied, lastOk, everLive>>
faults == <<late, lost, crashes>>
vars == <<authored, members, row, open, agent, live, applied, lastOk,
          everLive, edits, late, lost, crashes>>

-----------------------------------------------------------------------------
(* The node's row and the render.                                          *)

\* A health of stage st stands for the stored text `error:st`.
Row == [seen : BOOLEAN, health : Stages \cup {"ok", Null},
        version : Versions \cup {Null}, address : {Address, Null},
        last_error : {"text", Null}, applied : Hash \cup {Null}]

FreshRow == [seen |-> FALSE, health |-> Null, version |-> Null,
             address |-> Null, last_error |-> Null, applied |-> Null]

\* desiredConfig, once its reads are in: null for no config or a malformed one.
Rendered(config, m) ==
    IF config \in Renderable THEN [config |-> config, members |-> m] ELSE Null

HashAlways(rt) == Digest(rt)
HashOf(rt) == IF rt = Null THEN Null ELSE Digest(rt)

Desired == Rendered(authored, members)
InSync == Desired # Null /\ row.applied = HashOf(Desired)

-----------------------------------------------------------------------------
(* What a heartbeat and a report want stored, computed from the snapshot   *)
(* of the row that requireNode read.                                       *)

HeartbeatClearsHealth(snap, hash) ==
    [snap EXCEPT !.seen = TRUE, !.health = "ok", !.applied = hash]
HeartbeatForgetsHash(snap, hash) == [snap EXCEPT !.seen = TRUE]
HeartbeatValues(snap, hash) == [snap EXCEPT !.seen = TRUE, !.applied = hash]

\* `stale` says that more than HEARTBEAT_STALE_AFTER seconds went by.
ShouldTouch(snap, values, stale) == ~snap.seen \/ stale \/ values # snap

ReportAdoptsFailure(snap, rep) ==
    IF rep.ok THEN [snap EXCEPT !.seen = TRUE, !.applied = rep.hash,
                                !.last_error = Null, !.health = "ok"]
    ELSE [snap EXCEPT !.seen = TRUE, !.applied = rep.hash,
                      !.last_error = "text", !.health = rep.stage]
ReportDropsHash(snap, rep) ==
    CASE rep.ok /\ rep.stage \in SuccessStages ->
            [snap EXCEPT !.seen = TRUE, !.applied = rep.hash,
                         !.last_error = Null, !.health = "ok"]
      [] rep.ok /\ rep.stage \notin SuccessStages -> [snap EXCEPT !.seen = TRUE]
      [] ~rep.ok -> [snap EXCEPT !.seen = TRUE, !.applied = Null,
                                 !.last_error = "text", !.health = rep.stage]
ReportValues(snap, rep) ==
    CASE rep.ok /\ rep.stage \in SuccessStages ->
            [snap EXCEPT !.seen = TRUE, !.applied = rep.hash,
                         !.last_error = Null, !.health = "ok"]
      [] rep.ok /\ rep.stage \notin SuccessStages -> [snap EXCEPT !.seen = TRUE]
      [] ~rep.ok -> [snap EXCEPT !.seen = TRUE, !.last_error = "text",
                                 !.health = rep.stage]

\* An empty version field keeps the stored version.
EnrollValues(snap, version) ==
    [snap EXCEPT !.seen = TRUE,
                 !.version = IF version # Null THEN version ELSE snap.version]

-----------------------------------------------------------------------------
(* Handler invocations.                                                    *)

Kinds == {"enroll", "heartbeat", "config", "report"}
Steps == {"auth", "address", "config", "members", "touch", "done"}

Request == [kind : Kinds \cup {"none"}, pc : Steps,
            hash : Hash \cup {Null},     \* claimed, asked for or reported
            ok : BOOLEAN, stage : Stages,
            version : Versions \cup {Null},
            snap : Row,                  \* the row requireNode read
            config : Authored \cup {Null},
            runtime : Runtime \cup {Null}]

Blank == [kind |-> "none", pc |-> "done", hash |-> Null, ok |-> FALSE,
          stage |-> "fetched", version |-> Null, snap |-> FreshRow,
          config |-> Null, runtime |-> Null]

Arriving(kind) == [Blank EXCEPT !.kind = kind, !.pc = "auth"]

AfterAuth(kind) ==
    CASE kind = "enroll" -> "address"
      [] kind = "report" -> "touch"
      [] kind \in {"heartbeat", "config"} -> "config"
AfterRender(kind) == IF kind = "heartbeat" THEN "touch" ELSE "done"
AfterTouch(kind) == IF kind = "enroll" THEN "config" ELSE "done"

\* requireNode: the row as it is now is what the handler works with from here.
Authenticate(s) ==
    /\ open[s].kind # "none" /\ open[s].pc = "auth"
    /\ open' = [open EXCEPT ![s].pc = AfterAuth(open[s].kind), ![s].snap = row]
    /\ UNCHANGED <<authored, members, row, agent, disk, edits, faults>>

\* enroll's setReportedAddress, skipped when the snapshot has that address.
RecordAddress(s) ==
    /\ open[s].kind = "enroll" /\ open[s].pc = "address"
    /\ row' = IF Address # Null /\ open[s].snap.address # Address
              THEN [row EXCEPT !.address = Address] ELSE row
    /\ open' = [open EXCEPT ![s].pc = "touch"]
    /\ UNCHANGED <<authored, members, agent, disk, edits, faults>>

\* desiredConfig's first read: the node's authored config.
ReadConfig(s) ==
    /\ open[s].kind # "none" /\ open[s].pc = "config"
    /\ open' = [open EXCEPT
                  ![s].pc = IF authored = Null THEN AfterRender(open[s].kind)
                            ELSE "members",
                  ![s].config = authored]
    /\ UNCHANGED <<authored, members, row, agent, disk, edits, faults>>

\* Its other reads, and the render of what was read.
ReadMembers(s) ==
    /\ open[s].kind # "none" /\ open[s].pc = "members"
    /\ open' = [open EXCEPT ![s].pc = AfterRender(open[s].kind),
                            ![s].runtime = Rendered(open[s].config, members)]
    /\ UNCHANGED <<authored, members, row, agent, disk, edits, faults>>

\* The liveness columns a handler wants stored.
Wanted(r) ==
    CASE r.kind = "heartbeat" -> HeartbeatValues(r.snap, r.hash)
      [] r.kind = "report" ->
            ReportValues(r.snap, [hash |-> r.hash, ok |-> r.ok, stage |-> r.stage])
      [] r.kind = "enroll" -> EnrollValues(r.snap, r.version)

\* touchNode: all liveness columns in one statement; not reported_address.
Touch(s) ==
    /\ open[s].kind \in {"enroll", "heartbeat", "report"} /\ open[s].pc = "touch"
    /\ \E stale \in BOOLEAN :
          row' = IF open[s].kind = "heartbeat"
                      => ShouldTouch(open[s].snap, Wanted(open[s]), stale)
                 THEN [Wanted(open[s]) EXCEPT !.address = row.address] ELSE row
    /\ open' = [open EXCEPT ![s].pc = AfterTouch(open[s].kind)]
    /\ UNCHANGED <<authored, members, agent, disk, edits, faults>>

Handle(s) ==
    \/ Authenticate(s) \/ RecordAddress(s) \/ ReadConfig(s) \/ ReadMembers(s)
    \/ Touch(s)

\* The answer of GET /api/node/config: 404, 409 or 200.
AnswerApplied(r) ==
    CASE r.runtime = Null -> 404
      [] r.runtime # Null /\ r.hash # r.snap.applied -> 409
      [] r.runtime # Null /\ r.hash = r.snap.applied -> 200
AnswerAnyHash(r) == IF r.runtime = Null THEN 404 ELSE 200
ConfigAnswer(r) ==
    CASE r.runtime = Null -> 404
      [] r.runtime # Null /\ r.hash # HashOf(r.runtime) -> 409
      [] r.runtime # Null /\ r.hash = HashOf(r.runtime) -> 200

-----------------------------------------------------------------------------
(* Admin writes.                                                           *)

\* saveConfig of a payload whose tags are acceptable: the whole document.
SaveConfig(c) ==
    /\ edits < MaxEdits
    /\ c # authored
    /\ authored' = c
    /\ edits' = edits + 1
    /\ UNCHANGED <<members, row, open, agent, disk, faults>>

\* Any statement on users, user_node_access or reality_keys this node renders.
EditMembers(m) ==
    /\ edits < MaxEdits
    /\ m # members
    /\ members' = m
    /\ edits' = edits + 1
    /\ UNCHANGED <<authored, row, open, agent, disk, faults>>

Admin == (\E c \in Authored : SaveConfig(c)) \/ (\E m \in Members : EditMembers(m))

-----------------------------------------------------------------------------
(* The agent (external): one request at a time, the apply sequence of      *)
(* docs/PROTOCOL.md with its test, swap and rollback as one step, and its  *)
(* crashes.  It trusts a 200, so the plane's hash guard is not doubled by  *)
(* the agent's own check of the returned hash.                             *)

AgentSteps == {"enroll", "idle", "fetch", "fetched", "apply", "report", "waiting"}

NoReport == [ok |-> FALSE, stage |-> Null]
AgentState == [pc : AgentSteps, slot : Slots \cup {Null},
               asked : Hash \cup {Null}, staged : Runtime \cup {Null},
               outcome : [ok : BOOLEAN, stage : Stages \cup {Null}]]

Starting(pc) == [pc |-> pc, slot |-> Null, asked |-> Null, staged |-> Null,
                 outcome |-> NoReport]

Send(s, request) ==
    /\ open[s].kind = "none"
    /\ open' = [open EXCEPT ![s] = request]
    /\ agent' = [agent EXCEPT !.pc = "waiting", !.slot = s]
    /\ UNCHANGED <<authored, members, row, disk, edits, faults>>

SendEnroll(s) ==
    /\ agent.pc = "enroll"
    /\ \E v \in Versions : Send(s, [Arriving("enroll") EXCEPT !.version = v])

SendHeartbeat(s) ==
    /\ agent.pc = "idle"
    /\ \E h \in {applied} \cup (IF MayOmitHash THEN {Null} ELSE {}) :
          Send(s, [Arriving("heartbeat") EXCEPT !.hash = h])

SendFetch(s) ==
    /\ agent.pc = "fetch"
    /\ Send(s, [Arriving("config") EXCEPT !.hash = agent.asked])

\* A report of a stage that succeeded before the apply itself.
SendProgress(s) ==
    /\ agent.pc = "fetched"
    /\ \E st \in ProgressStages :
          Send(s, [Arriving("report") EXCEPT !.hash = agent.asked, !.ok = TRUE,
                                             !.stage = st])

SendReport(s) ==
    /\ agent.pc = "report"
    /\ Send(s, [Arriving("report") EXCEPT !.hash = agent.asked,
                   !.ok = agent.outcome.ok, !.stage = agent.outcome.stage])

\* The answer is in: the slot is free again and the agent moves on to `next`.
Answered(kind, next) ==
    /\ agent.pc = "waiting" /\ open[agent.slot].kind = kind
    /\ open[agent.slot].pc = "done"
    /\ agent' = next
    /\ open' = [open EXCEPT ![agent.slot] = Blank]
    /\ UNCHANGED <<authored, members, row, disk, edits, faults>>

HearEnroll == Answered("enroll", Starting("idle"))

HearHeartbeat ==
    LET desired == HashOf(open[agent.slot].runtime)
        nothingToDo == desired = Null \/ (desired = applied /\ lastOk)
    IN Answered("heartbeat",
                IF nothingToDo THEN Starting("idle")
                ELSE [Starting("fetch") EXCEPT !.asked = desired])

HearConfig ==
    LET r == open[agent.slot]
    IN Answered("config",
                IF ConfigAnswer(r) # 200 THEN Starting("idle")
                ELSE [Starting("fetched") EXCEPT !.asked = agent.asked,
                                                 !.staged = r.runtime])

\* A progress report leads on to the apply, an outcome back to the poll.
AfterReport == IF agent.outcome = NoReport
               THEN [agent EXCEPT !.pc = "apply", !.slot = Null]
               ELSE Starting("idle")
HearReport == Answered("report", AfterReport)

ApplySucceeds ==
    /\ agent.pc \in {"fetched", "apply"} /\ agent.staged.config \notin Failing
    /\ live' = agent.staged
    /\ everLive' = everLive \cup {agent.staged}
    /\ applied' = agent.asked
    /\ lastOk' = TRUE
    /\ \E st \in OkStages :
          agent' = [agent EXCEPT !.pc = "report", !.outcome = [ok |-> TRUE, stage |-> st]]
    /\ UNCHANGED <<plane, edits, faults>>

\* The live config is never touched, or rolled back.
ApplyFails ==
    /\ agent.pc \in {"fetched", "apply"} /\ agent.staged.config \in Failing
    /\ lastOk' = FALSE
    /\ \E st \in FailStages :
          agent' = [agent EXCEPT !.pc = "report", !.outcome = [ok |-> FALSE, stage |-> st]]
    /\ UNCHANGED <<plane, live, applied, everLive, edits, faults>>

AgentStep ==
    \/ \E s \in Slots : \/ SendEnroll(s) \/ SendHeartbeat(s) \/ SendFetch(s)
                        \/ SendProgress(s) \/ SendReport(s)
    \/ HearEnroll \/ HearHeartbeat \/ HearConfig \/ HearReport
    \/ ApplySucceeds \/ ApplyFails

-----------------------------------------------------------------------------
(* The network, the Worker's runtime and the agent's host.                 *)

\* Where an agent goes on that got no answer: back to the poll, or it retries.
GivenUp == {Starting("idle")} \cup
    (CASE open[agent.slot].kind = "enroll" -> {Starting("enroll")}
       [] open[agent.slot].kind = "report" ->
            {IF agent.outcome = NoReport THEN AfterReport
             ELSE [agent EXCEPT !.pc = "report", !.slot = Null]}
       [] open[agent.slot].kind \in {"heartbeat", "config"} -> {})

\* The agent times out while the handler goes on.
Timeout ==
    /\ agent.pc = "waiting" /\ late < MaxLate
    /\ late' = late + 1
    /\ agent' \in GivenUp
    /\ UNCHANGED <<plane, disk, edits, lost, crashes>>

\* The request is lost, or its handler dies at one of its awaits.
Lose ==
    /\ agent.pc = "waiting" /\ lost < MaxLost
    /\ lost' = lost + 1
    /\ agent' \in GivenUp
    /\ open' = [open EXCEPT ![agent.slot] = Blank]
    /\ UNCHANGED <<authored, members, row, disk, edits, late, crashes>>

\* A handler nobody waits for ends.
Discard(s) ==
    /\ open[s].kind # "none" /\ open[s].pc = "done"
    /\ agent.pc = "waiting" => agent.slot # s
    /\ open' = [open EXCEPT ![s] = Blank]
    /\ UNCHANGED <<authored, members, row, agent, disk, edits, faults>>

\* The agent dies, maybe after the swap and before it recorded the hash.
AgentCrash ==
    /\ crashes < MaxCrashes
    /\ crashes' = crashes + 1
    /\ \E pc \in {"enroll", "idle"} : agent' = Starting(pc)
    /\ \/ UNCHANGED <<live, everLive>>
       \/ /\ agent.pc \in {"fetched", "apply"} /\ agent.staged.config \notin Failing
          /\ live' = agent.staged
          /\ everLive' = everLive \cup {agent.staged}
    /\ UNCHANGED <<plane, applied, lastOk, edits, late, lost>>

-----------------------------------------------------------------------------
Init ==
    /\ authored = Null /\ members \in Members
    /\ row = FreshRow
    /\ open = [s \in Slots |-> Blank]
    /\ agent = Starting("enroll")
    /\ live = Null /\ applied = Null /\ lastOk = TRUE /\ everLive = {}
    /\ edits = 0 /\ late = 0 /\ lost = 0 /\ crashes = 0

Next ==
    \/ \E s \in Slots : Handle(s) \/ Discard(s)
    \/ Admin
    \/ AgentStep
    \/ Timeout \/ Lose \/ AgentCrash

Spec == Init /\ [][Next]_vars

\* The runtime resumes every handler; the agent keeps polling.  Nothing makes
\* an admin edit, a timeout, a loss or a crash happen.
Fairness ==
    /\ \A s \in Slots : WF_vars(Handle(s)) /\ WF_vars(Discard(s))
    /\ WF_vars(AgentStep)

FairSpec == Spec /\ Fairness

-----------------------------------------------------------------------------
(* Properties.                                                             *)

\* Every variable keeps its shape: what the handlers and the agent store.
TypeOK ==
    /\ authored \in Authored \cup {Null} /\ members \in Members
    /\ row \in Row
    /\ open \in [Slots -> Request]
    /\ agent \in AgentState
    /\ live \in Runtime \cup {Null} /\ applied \in Hash \cup {Null}
    /\ lastOk \in BOOLEAN /\ everLive \in SUBSET Runtime
    /\ edits \in Nat /\ late \in Nat /\ lost \in Nat /\ crashes \in Nat

WasRun(h) == h # Null => \E rt \in everLive : h = Digest(rt)

\* The applied hash the plane shows is the hash of a config that Xray really
\* ran on the node: not of one that failed there, and not of other bytes than
\* the agent was served (the 409 guard and reportValues).
ClaimsWereRun == WasRun(row.applied)

\* What makes ClaimsWereRun inductive: no request in flight, no snapshot and
\* nothing the agent keeps claims a config the node did not run.
ClaimsInFlight ==
    /\ WasRun(applied)
    /\ \A s \in Slots :
          /\ WasRun(open[s].snap.applied)
          /\ open[s].kind = "heartbeat" => WasRun(open[s].hash)
          /\ (open[s].kind = "report" /\ open[s].ok
                /\ open[s].stage \in SuccessStages) => WasRun(open[s].hash)

\* The bytes the agent is about to run are those whose hash it will record.
StagedAsAsked ==
    /\ agent.pc \in {"fetched", "apply"} =>
          agent.staged # Null /\ agent.asked = Digest(agent.staged)
    /\ agent.outcome # NoReport =>
          /\ agent.outcome.stage \in Stages
          /\ agent.outcome.ok => WasRun(agent.asked)
    /\ agent.pc = "report" => agent.outcome # NoReport
    /\ agent.pc = "waiting" =>
          /\ agent.slot \in Slots /\ open[agent.slot].kind # "none"
          /\ open[agent.slot].kind = "config" => open[agent.slot].hash = agent.asked
          /\ (open[agent.slot].kind = "report" /\ agent.outcome = NoReport) =>
                agent.staged # Null /\ agent.asked = Digest(agent.staged)

\* The inductive invariant of the node protocol.
ProtocolInv == TypeOK /\ ClaimsWereRun /\ ClaimsInFlight /\ StagedAsAsked

\* The drift view implements its abstract specification: it only ever shows
\* the hash of a config the node ran, whatever was lost, late or repeated.
View == INSTANCE DriftView
            WITH Configs <- Runtime, wanted <- Desired, ran <- everLive,
                 shown <- row.applied
ShowsWhatRan == View!Spec

\* A diagnosis as one report gives it: none yet, a success that clears the
\* error, or a failure with its stage and its text.
Whole(r) ==
    \/ r.health \in {Null, "ok"} /\ r.last_error = Null
    \/ r.health \in Stages /\ r.last_error = "text"

\* "health is a diagnosis that only a report may set or clear"
\* (node_state_service.ts, heartbeatValues): the plane never shows half of
\* one, an error beside an ok health or the reverse, however late the handler
\* is that stores what it read before another one stored its own.
DiagnosisIsWhole == Whole(row) /\ \A s \in Slots : Whole(open[s].snap)

\* Only a report changes the health; any other handler changes it only where
\* another one stored a new health after it read the row.
HealthOnlyByReports ==
    [][row'.health # row.health =>
          \E s \in Slots :
             Touch(s) /\ (open[s].kind = "report" \/ open[s].snap.health # row.health)]_vars

Awaits(s) == agent.pc = "waiting" /\ agent.slot = s
Success(r) == r.ok /\ r.stage \in SuccessStages

\* A report the agent waits for leaves the plane with the hash on the node's
\* disk: a success in any case, whatever late handlers and losses made of the
\* row before; a failure or a progress where the handler read that hash
\* ("Duplicate reports are safe by construction", node.ts).
ReportsNeverUndo ==
    [][\A s \in Slots :
          (/\ open[s].kind = "report" /\ Awaits(s) /\ Touch(s)
           /\ ~Success(open[s]) => open[s].snap.applied = applied)
              => row'.applied = applied]_vars

\* Once the plane has an applied hash of the node it keeps one: the heartbeat
\* may leave any field out, and "a missing field means "no report", never a
\* failure" (models.ts, HeartbeatIn).
AppliedNeverForgotten == [][row.applied # Null => row'.applied # Null]_vars

\* fleetState of the admin SPA (frontend/src/lib/fleet.ts) over the sync view.
FleetState ==
    CASE Desired = Null -> "no-config"
      [] InSync -> "in-sync"
      [] Desired # Null /\ ~InSync /\ row.last_error # Null -> "error"
      [] Desired # Null /\ ~InSync /\ row.last_error = Null /\ row.applied = Null
            -> "pending"
      [] OTHER -> "drifted"

\* When edits and faults stop, the node runs the desired config if it can run
\* it at all: heartbeat, hash guard and agent loop converge.
Converges ==
    <>[](Desired # Null /\ Desired.config \notin Failing => live = Desired)

\* When edits and faults stop, the fleet board settles on the truth: in-sync,
\* or the error of a config the node refuses, or no-config.
BoardSettles ==
    <>[](FleetState = IF Desired = Null THEN "no-config"
                      ELSE IF Desired.config \in Failing THEN "error"
                      ELSE "in-sync")

\* A node that is in sync ends up without an error on display: "a missing
\* report is not a problem: the next heartbeat re-syncs reality anyway"
\* (node.ts, the report handler).
ErrorClears == <>[](InSync => row.last_error = Null)
=============================================================================
