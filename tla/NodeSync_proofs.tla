--------------------------- MODULE NodeSync_proofs ---------------------------
(***************************************************************************)
(* Proofs about NodeSync, for any number of slots and any configs: the     *)
(* variables keep their types, the applied hash the plane shows was really *)
(* run, a diagnosis is never half of one, and a report the agent waits for *)
(* leaves the plane with what the node runs.                               *)
(***************************************************************************)
EXTENDS NodeSync, TLAPS

\* No constant is one of the model's marks: Null is neither a hash nor a stage.
LEMMA NullApart ==
    /\ Null \notin Hash /\ Null \notin Runtime /\ Null \notin Stages
    /\ \A rt \in Runtime : Digest(rt) \in Hash
    /\ SuccessStages \subseteq Stages
  BY ConstantsAssumption DEF Hash, Digest, Stages

\* The initial state has every part of the invariant.
LEMMA InitInv == Init => ProtocolInv
  <1> SUFFICES ASSUME Init PROVE ProtocolInv
    OBVIOUS
  <1>1. TypeOK
    BY DEF Init, TypeOK, Row, FreshRow, Blank, Request, Kinds, Steps, Stages,
           Starting, NoReport, AgentState, AgentSteps
  <1>2. ClaimsWereRun /\ ClaimsInFlight
    BY DEF Init, ClaimsWereRun, ClaimsInFlight, WasRun, FreshRow, Blank
  <1>3. StagedAsAsked
    BY DEF Init, StagedAsAsked, Starting, NoReport
  <1> QED
    BY <1>1, <1>2, <1>3 DEF ProtocolInv

\* A handler's request stays a request, whatever columns it works with.
LEMMA AuthenticateInv ==
    ASSUME ProtocolInv, NEW s \in Slots, Authenticate(s)
    PROVE  ProtocolInv'
  <1> USE DEF ProtocolInv
  <1>1. open[s] \in Request /\ row \in Row
    BY DEF TypeOK
  <1>2. AfterAuth(open[s].kind) \in Steps
    BY <1>1 DEF Authenticate, AfterAuth, Request, Kinds, Steps
  <1>3. TypeOK'
    BY <1>1, <1>2 DEF Authenticate, TypeOK, Request, disk, faults
  <1>4. (ClaimsWereRun /\ ClaimsInFlight)'
    BY DEF TypeOK, Authenticate, ClaimsWereRun, ClaimsInFlight, WasRun, disk
  <1>5. StagedAsAsked'
    BY DEF TypeOK, Authenticate, StagedAsAsked, WasRun, disk
  <1> QED
    BY <1>3, <1>4, <1>5

LEMMA RecordAddressInv ==
    ASSUME ProtocolInv, NEW s \in Slots, RecordAddress(s)
    PROVE  ProtocolInv'
  <1> USE DEF ProtocolInv
  <1>1. open[s] \in Request /\ row \in Row
    BY DEF TypeOK
  <1>2. row' \in Row /\ row'.applied = row.applied
    BY <1>1 DEF RecordAddress, Row
  <1>3. TypeOK'
    BY <1>1, <1>2 DEF RecordAddress, TypeOK, Request, Steps, disk, faults
  <1>4. (ClaimsWereRun /\ ClaimsInFlight)'
    BY <1>2 DEF TypeOK, RecordAddress, ClaimsWereRun, ClaimsInFlight, WasRun, disk
  <1>5. StagedAsAsked'
    BY DEF TypeOK, RecordAddress, StagedAsAsked, WasRun, disk
  <1> QED
    BY <1>3, <1>4, <1>5

LEMMA ReadConfigInv ==
    ASSUME ProtocolInv, NEW s \in Slots, ReadConfig(s)
    PROVE  ProtocolInv'
  <1> USE DEF ProtocolInv
  <1>1. open[s] \in Request
    BY DEF TypeOK
  <1>2. AfterRender(open[s].kind) \in Steps
    BY DEF AfterRender, Steps
  <1>3. TypeOK'
    BY <1>1, <1>2 DEF ReadConfig, TypeOK, Request, Steps, disk, faults
  <1>4. (ClaimsWereRun /\ ClaimsInFlight)'
    BY DEF TypeOK, ReadConfig, ClaimsWereRun, ClaimsInFlight, WasRun, disk
  <1>5. StagedAsAsked'
    BY DEF TypeOK, ReadConfig, StagedAsAsked, WasRun, disk
  <1> QED
    BY <1>3, <1>4, <1>5

LEMMA ReadMembersInv ==
    ASSUME ProtocolInv, NEW s \in Slots, ReadMembers(s)
    PROVE  ProtocolInv'
  <1> USE DEF ProtocolInv
  <1>1. open[s] \in Request
    BY DEF TypeOK
  <1>2. AfterRender(open[s].kind) \in Steps
    BY DEF AfterRender, Steps
  <1>3. Rendered(open[s].config, members) \in Runtime \cup {Null}
    BY DEF TypeOK, Rendered, Runtime
  <1>4. TypeOK'
    <2> DEFINE read == [open[s] EXCEPT !.pc = AfterRender(open[s].kind),
                                       !.runtime = Rendered(open[s].config, members)]
    <2>1. read \in Request
      BY <1>1, <1>2, <1>3 DEF Request
    <2>2. open' = [open EXCEPT ![s] = read]
      BY DEF ReadMembers
    <2>3. open' \in [Slots -> Request]
      BY <2>1, <2>2 DEF TypeOK
    <2> QED
      BY <2>3 DEF ReadMembers, TypeOK, disk, faults
  <1>5. (ClaimsWereRun /\ ClaimsInFlight)'
    BY DEF TypeOK, ReadMembers, ClaimsWereRun, ClaimsInFlight, WasRun, disk
  <1>6. StagedAsAsked'
    BY DEF TypeOK, ReadMembers, StagedAsAsked, WasRun, disk
  <1> QED
    BY <1>4, <1>5, <1>6

\* What a handler wants stored is a row, and claims only what was run.
LEMMA WantedIsRow ==
    ASSUME TypeOK, ClaimsInFlight, NEW s \in Slots,
           open[s].kind \in {"enroll", "heartbeat", "report"}
    PROVE  Wanted(open[s]) \in Row /\ WasRun(Wanted(open[s]).applied)
  <1>1. open[s] \in Request
    BY DEF TypeOK
  <1>2. WasRun(open[s].snap.applied)
    BY DEF ClaimsInFlight
  <1>3. CASE open[s].kind = "enroll"
    <2>1. Wanted(open[s]) = EnrollValues(open[s].snap, open[s].version)
      BY <1>3 DEF Wanted
    <2> QED
      BY <1>1, <1>2, <2>1 DEF EnrollValues, Request, Row
  <1>4. CASE open[s].kind = "heartbeat"
    <2>1. Wanted(open[s]) = HeartbeatValues(open[s].snap, open[s].hash)
      BY <1>4 DEF Wanted
    <2>2. WasRun(open[s].hash)
      BY <1>4 DEF ClaimsInFlight
    <2> QED
      BY <1>1, <2>1, <2>2 DEF HeartbeatValues, Request, Row
  <1>5. CASE open[s].kind = "report"
    <2> DEFINE rep == [hash |-> open[s].hash, ok |-> open[s].ok, stage |-> open[s].stage]
    <2>1. Wanted(open[s]) = ReportValues(open[s].snap, rep)
      BY <1>5 DEF Wanted
    <2>2. CASE open[s].ok /\ open[s].stage \in SuccessStages
      <3>1. WasRun(open[s].hash)
        BY <1>5, <2>2 DEF ClaimsInFlight
      <3> QED
        BY <1>1, <2>1, <2>2, <3>1 DEF ReportValues, Request, Row
    <2>3. CASE open[s].ok /\ open[s].stage \notin SuccessStages
      BY <1>1, <1>2, <2>1, <2>3 DEF ReportValues, Request, Row
    <2>4. CASE ~open[s].ok
      BY <1>1, <1>2, <2>1, <2>4 DEF ReportValues, Request, Row
    <2> QED
      BY <1>1, <2>2, <2>3, <2>4 DEF Request
  <1> QED
    BY <1>3, <1>4, <1>5

LEMMA TouchInv ==
    ASSUME ProtocolInv, NEW s \in Slots, Touch(s)
    PROVE  ProtocolInv'
  <1> USE DEF ProtocolInv
  <1>1. open[s] \in Request /\ row \in Row
    BY DEF TypeOK
  <1>2. Wanted(open[s]) \in Row /\ WasRun(Wanted(open[s]).applied)
    BY WantedIsRow DEF Touch
  <1>3. row' \in Row /\ WasRun(row'.applied)
    <2>1. \/ row' = [Wanted(open[s]) EXCEPT !.address = row.address]
          \/ row' = row
      BY DEF Touch
    <2>2. [Wanted(open[s]) EXCEPT !.address = row.address] \in Row
      BY <1>1, <1>2 DEF Row
    <2>3. [Wanted(open[s]) EXCEPT !.address = row.address].applied = Wanted(open[s]).applied
      BY <1>2 DEF Row
    <2> QED
      BY <1>1, <1>2, <2>1, <2>2, <2>3 DEF ClaimsWereRun
  <1>4. AfterTouch(open[s].kind) \in Steps
    BY DEF AfterTouch, Steps
  <1>5. TypeOK'
    BY <1>1, <1>3, <1>4 DEF Touch, TypeOK, Request, disk, faults
  <1>6. (ClaimsWereRun /\ ClaimsInFlight)'
    BY <1>3 DEF TypeOK, Touch, ClaimsWereRun, ClaimsInFlight, WasRun, disk
  <1>7. StagedAsAsked'
    BY DEF TypeOK, Touch, StagedAsAsked, WasRun, disk
  <1> QED
    BY <1>5, <1>6, <1>7

LEMMA AdminInv ==
    ASSUME ProtocolInv, Admin
    PROVE  ProtocolInv'
  <1> USE DEF ProtocolInv
  <1>1. authored' \in Authored \cup {Null} /\ members' \in Members /\ edits' \in Nat
    BY DEF Admin, SaveConfig, EditMembers, TypeOK
  <1>2. UNCHANGED <<row, open, agent, disk, faults>>
    BY DEF Admin, SaveConfig, EditMembers
  <1>3. TypeOK'
    BY <1>1, <1>2 DEF TypeOK, disk, faults
  <1>4. (ClaimsWereRun /\ ClaimsInFlight)'
    BY <1>2 DEF ClaimsWereRun, ClaimsInFlight, WasRun, disk
  <1>5. StagedAsAsked'
    BY <1>2 DEF StagedAsAsked, WasRun, disk
  <1> QED
    BY <1>3, <1>4, <1>5

\* A request of the agent: a free slot takes it and the agent waits for it.
LEMMA SendInv ==
    ASSUME ProtocolInv, NEW s \in Slots, NEW request \in Request, Send(s, request),
           request.kind # "none", request.snap = FreshRow,
           request.kind = "heartbeat" => WasRun(request.hash),
           (request.kind = "report" /\ request.ok /\ request.stage \in SuccessStages)
              => WasRun(request.hash),
           request.kind = "config" => request.hash = agent.asked,
           (request.kind = "report" /\ agent.outcome = NoReport) =>
              agent.staged # Null /\ agent.asked = Digest(agent.staged)
    PROVE  ProtocolInv'
  <1> USE DEF ProtocolInv
  <1>1. agent \in AgentState
    BY DEF TypeOK
  <1>2. /\ agent' \in AgentState
        /\ agent'.pc = "waiting" /\ agent'.slot = s /\ agent'.asked = agent.asked
        /\ agent'.staged = agent.staged /\ agent'.outcome = agent.outcome
    BY <1>1 DEF Send, AgentState, AgentSteps
  <1>3. open' \in [Slots -> Request] /\ open'[s] = request
    BY DEF Send, TypeOK
  <1>4. TypeOK'
    BY <1>2, <1>3 DEF Send, TypeOK, disk, faults
  <1>5. WasRun(FreshRow.applied)
    BY DEF WasRun, FreshRow
  <1>6. (ClaimsWereRun /\ ClaimsInFlight)'
    BY <1>5 DEF TypeOK, Send, ClaimsWereRun, ClaimsInFlight, WasRun, disk
  <1>7. StagedAsAsked'
    BY <1>2, <1>3 DEF Send, StagedAsAsked, WasRun, disk
  <1> QED
    BY <1>4, <1>6, <1>7

LEMMA SendsInv ==
    ASSUME ProtocolInv, NEW s \in Slots,
           SendEnroll(s) \/ SendHeartbeat(s) \/ SendFetch(s) \/ SendProgress(s)
              \/ SendReport(s)
    PROVE  ProtocolInv'
  <1> USE DEF ProtocolInv
  <1>1. /\ Blank \in Request
        /\ \A kind \in Kinds : Arriving(kind) = [Blank EXCEPT !.kind = kind, !.pc = "auth"]
    BY DEF Blank, Request, FreshRow, Row, Stages, Steps, Arriving
  <1>2. CASE SendEnroll(s)
    <2> PICK v \in Versions : Send(s, [Arriving("enroll") EXCEPT !.version = v])
      BY <1>2 DEF SendEnroll
    <2> DEFINE request == [Arriving("enroll") EXCEPT !.version = v]
    <2>1. request \in Request /\ request.kind = "enroll" /\ request.snap = FreshRow
      BY <1>1 DEF Arriving, Request, Kinds, Steps, Blank
    <2> HIDE DEF request
    <2> QED
      BY <2>1, SendInv DEF request
  <1>3. CASE SendHeartbeat(s)
    <2> PICK h \in {applied, Null} : Send(s, [Arriving("heartbeat") EXCEPT !.hash = h])
      BY <1>3 DEF SendHeartbeat
    <2> DEFINE request == [Arriving("heartbeat") EXCEPT !.hash = h]
    <2>1. request \in Request
      BY <1>1 DEF Arriving, Request, Kinds, Steps, Blank, TypeOK
    <2>2. request.kind = "heartbeat" /\ request.snap = FreshRow /\ request.hash = h
      BY DEF Arriving, Blank
    <2>3. WasRun(h)
      BY DEF ClaimsInFlight, WasRun
    <2>4. Send(s, request)
      OBVIOUS
    <2> HIDE DEF request
    <2> QED
      BY <2>1, <2>2, <2>3, <2>4, SendInv
  <1>4. CASE SendFetch(s)
    <2> DEFINE request == [Arriving("config") EXCEPT !.hash = agent.asked]
    <2>1. request \in Request
      BY <1>1 DEF Arriving, Request, Kinds, Steps, Blank, TypeOK, AgentState
    <2>2. request.kind = "config" /\ request.snap = FreshRow /\ request.hash = agent.asked
      BY DEF Arriving, Blank
    <2>3. Send(s, request)
      BY <1>4 DEF SendFetch
    <2> HIDE DEF request
    <2> QED
      BY <2>1, <2>2, <2>3, SendInv
  <1>5. CASE SendProgress(s)
    <2> PICK st \in ProgressStages :
            Send(s, [Arriving("report") EXCEPT !.hash = agent.asked, !.ok = TRUE, !.stage = st])
      BY <1>5 DEF SendProgress
    <2> DEFINE request ==
            [Arriving("report") EXCEPT !.hash = agent.asked, !.ok = TRUE, !.stage = st]
    <2>1. request \in Request
      BY <1>1, ConstantsAssumption
      DEF Arriving, Request, Kinds, Steps, Blank, TypeOK, AgentState
    <2>2. request.kind = "report" /\ request.snap = FreshRow /\ request.stage = st
      BY DEF Arriving, Blank
    <2>3. st \notin SuccessStages
      BY ConstantsAssumption
    <2>4. agent.staged # Null /\ agent.asked = Digest(agent.staged)
      BY <1>5 DEF SendProgress, StagedAsAsked
    <2>5. Send(s, request)
      OBVIOUS
    <2> HIDE DEF request
    <2> QED
      BY <2>1, <2>2, <2>3, <2>4, <2>5, SendInv
  <1>6. CASE SendReport(s)
    <2> DEFINE request ==
            [Arriving("report") EXCEPT !.hash = agent.asked,
                !.ok = agent.outcome.ok, !.stage = agent.outcome.stage]
    <2>1. agent.outcome # NoReport /\ agent.outcome.stage \in Stages
      BY <1>6 DEF SendReport, StagedAsAsked
    <2>2. request \in Request
      BY <1>1, <2>1 DEF Arriving, Request, Kinds, Steps, Blank, TypeOK, AgentState
    <2>3. /\ request.kind = "report" /\ request.snap = FreshRow
          /\ request.hash = agent.asked /\ request.ok = agent.outcome.ok
      BY DEF Arriving, Blank
    <2>4. agent.outcome.ok => WasRun(agent.asked)
      BY <2>1 DEF StagedAsAsked
    <2>5. Send(s, request)
      BY <1>6 DEF SendReport
    <2> HIDE DEF request
    <2> QED
      BY <2>1, <2>2, <2>3, <2>4, <2>5, SendInv
  <1> QED
    BY <1>2, <1>3, <1>4, <1>5, <1>6

\* Emptying a slot is harmless to everyone but an agent that waits on it.
LEMMA FreedSlot ==
    ASSUME ProtocolInv, NEW s \in Slots, open' = [open EXCEPT ![s] = Blank],
           UNCHANGED <<row, live, applied, everLive>>
    PROVE  open' \in [Slots -> Request] /\ (ClaimsWereRun /\ ClaimsInFlight)'
  <1>1. Blank \in Request /\ Blank.snap.applied = Null
    BY DEF Blank, Request, FreshRow, Row, Stages, Steps
  <1>2. open' \in [Slots -> Request]
    BY <1>1 DEF ProtocolInv, TypeOK
  <1>3. (ClaimsWereRun /\ ClaimsInFlight)'
    BY <1>1 DEF ProtocolInv, TypeOK, ClaimsWereRun, ClaimsInFlight, WasRun, Blank
  <1> QED
    BY <1>2, <1>3

\* The states an agent that waits may go on to keep what it has staged.
LEMMA AfterReportOK ==
    ASSUME ProtocolInv, agent.pc = "waiting", open[agent.slot].kind = "report"
    PROVE  /\ AfterReport \in AgentState /\ AfterReport.pc \in {"apply", "idle"}
           /\ AfterReport.outcome = NoReport
           /\ AfterReport.pc = "apply" =>
                AfterReport.staged # Null /\ AfterReport.asked = Digest(AfterReport.staged)
  <1> USE DEF ProtocolInv
  <1>1. agent \in AgentState
    BY DEF TypeOK
  <1>2. CASE agent.outcome = NoReport
    <2>1. AfterReport = [agent EXCEPT !.pc = "apply", !.slot = Null]
      BY <1>2 DEF AfterReport
    <2>2. agent.staged # Null /\ agent.asked = Digest(agent.staged)
      BY <1>2 DEF StagedAsAsked
    <2> QED
      BY <1>1, <1>2, <2>1, <2>2 DEF AgentState, AgentSteps
  <1>3. CASE agent.outcome # NoReport
    <2>1. AfterReport = Starting("idle")
      BY <1>3 DEF AfterReport
    <2> QED
      BY <2>1 DEF Starting, AgentState, AgentSteps, NoReport
  <1> QED
    BY <1>2, <1>3

\* An answer moves the agent on to a state with nothing claimed or staged, or
\* with what was asked for staged.
LEMMA AnsweredInv ==
    ASSUME ProtocolInv, NEW kind \in Kinds, NEW next \in AgentState,
           Answered(kind, next),
           next.pc \notin {"report", "waiting"}, next.outcome = NoReport,
           next.pc \in {"fetched", "apply"} =>
              next.staged # Null /\ next.asked = Digest(next.staged)
    PROVE  ProtocolInv'
  <1> USE DEF ProtocolInv
  <1>1. agent.slot \in Slots
    BY DEF Answered, StagedAsAsked
  <1>2. open' \in [Slots -> Request] /\ (ClaimsWereRun /\ ClaimsInFlight)'
    BY <1>1, FreedSlot DEF Answered, disk
  <1>3. TypeOK'
    BY <1>2 DEF Answered, TypeOK, disk, faults
  <1>4. StagedAsAsked'
    BY DEF Answered, StagedAsAsked
  <1> QED
    BY <1>2, <1>3, <1>4

LEMMA HearsInv ==
    ASSUME ProtocolInv, HearEnroll \/ HearHeartbeat \/ HearConfig \/ HearReport
    PROVE  ProtocolInv'
  <1> USE DEF ProtocolInv
  <1>1. /\ \A pc \in AgentSteps : Starting(pc) \in AgentState
        /\ \A pc \in AgentSteps : Starting(pc).pc = pc /\ Starting(pc).outcome = NoReport
    BY DEF Starting, AgentState, NoReport
  <1>2. CASE HearEnroll
    BY <1>1, <1>2, AnsweredInv DEF HearEnroll, AgentSteps, Kinds
  <1>3. CASE HearHeartbeat
    <2> DEFINE r == open[agent.slot]
    <2> DEFINE desired == HashOf(r.runtime)
    <2> DEFINE next == IF desired = Null \/ (desired = applied /\ lastOk)
                       THEN Starting("idle")
                       ELSE [Starting("fetch") EXCEPT !.asked = desired]
    <2>1. r \in Request
      BY <1>3 DEF HearHeartbeat, Answered, StagedAsAsked, TypeOK
    <2>2. desired \in Hash \cup {Null}
      BY <2>1, NullApart DEF HashOf, Request
    <2>3. next \in AgentState /\ next.pc \in {"idle", "fetch"} /\ next.outcome = NoReport
      BY <1>1, <2>2 DEF Starting, AgentState, AgentSteps, NoReport
    <2>4. Answered("heartbeat", next)
      BY <1>3 DEF HearHeartbeat
    <2> HIDE DEF next
    <2> QED
      BY <2>3, <2>4, AnsweredInv DEF Kinds
  <1>4. CASE HearConfig
    <2> DEFINE r == open[agent.slot]
    <2> DEFINE next == IF ConfigAnswer(r) # 200 THEN Starting("idle")
                       ELSE [Starting("fetched") EXCEPT !.asked = agent.asked,
                                                        !.staged = r.runtime]
    <2>1. r \in Request /\ agent \in AgentState
      BY <1>4 DEF HearConfig, Answered, StagedAsAsked, TypeOK
    <2>2. r.hash = agent.asked
      BY <1>4 DEF HearConfig, Answered, StagedAsAsked
    <2>3. ConfigAnswer(r) = 200 => r.runtime # Null /\ agent.asked = Digest(r.runtime)
      BY <2>2 DEF ConfigAnswer, HashOf
    <2>4. /\ next \in AgentState /\ next.pc \in {"idle", "fetched"}
          /\ next.outcome = NoReport
          /\ next.pc = "fetched" => next.staged # Null /\ next.asked = Digest(next.staged)
      <3>1. CASE ConfigAnswer(r) # 200
        BY <1>1, <3>1 DEF AgentSteps
      <3>2. CASE ConfigAnswer(r) = 200
        BY <2>1, <2>3, <3>2 DEF Starting, AgentState, AgentSteps, NoReport, Request
      <3> QED
        BY <3>1, <3>2
    <2>5. Answered("config", next)
      BY <1>4 DEF HearConfig
    <2> HIDE DEF next
    <2> QED
      BY <2>4, <2>5, AnsweredInv DEF Kinds
  <1>5. CASE HearReport
    BY <1>5, AfterReportOK, AnsweredInv DEF HearReport, Answered, Kinds
  <1> QED
    BY <1>2, <1>3, <1>4, <1>5

\* An apply runs exactly the bytes whose hash the agent then keeps and reports.
LEMMA ApplySucceedsInv ==
    ASSUME ProtocolInv, ApplySucceeds
    PROVE  ProtocolInv'
  <1> USE DEF ProtocolInv
  <1>1. agent.staged # Null /\ agent.asked = Digest(agent.staged)
    BY DEF ApplySucceeds, StagedAsAsked
  <1>2. agent \in AgentState /\ agent.staged \in Runtime /\ agent.asked \in Hash
    BY <1>1, NullApart DEF TypeOK, AgentState
  <1> PICK st \in OkStages :
        agent' = [agent EXCEPT !.pc = "report", !.outcome = [ok |-> TRUE, stage |-> st]]
    BY DEF ApplySucceeds
  <1>3. st \in Stages /\ st # Null
    BY NullApart, ConstantsAssumption
  <1>4. /\ agent' \in AgentState /\ agent'.pc = "report" /\ agent'.asked = agent.asked
        /\ agent'.outcome.ok /\ agent'.outcome.stage = st /\ agent'.outcome # NoReport
    BY <1>2, <1>3 DEF AgentState, AgentSteps, NoReport
  <1>5. TypeOK'
    BY <1>2, <1>4 DEF ApplySucceeds, TypeOK, plane, faults
  <1>6. \A h : WasRun(h) => WasRun(h)'
    BY DEF ApplySucceeds, WasRun
  <1>7. WasRun(agent.asked)'
    BY <1>1 DEF ApplySucceeds, WasRun
  <1>8. (ClaimsWereRun /\ ClaimsInFlight)'
    BY <1>1, <1>6, <1>7 DEF ApplySucceeds, ClaimsWereRun, ClaimsInFlight, WasRun, plane
  <1>9. StagedAsAsked'
    BY <1>1, <1>3, <1>4, <1>7 DEF ApplySucceeds, StagedAsAsked, WasRun
  <1> QED
    BY <1>5, <1>8, <1>9

LEMMA ApplyFailsInv ==
    ASSUME ProtocolInv, ApplyFails
    PROVE  ProtocolInv'
  <1> USE DEF ProtocolInv
  <1>1. agent \in AgentState
    BY DEF TypeOK
  <1> PICK st \in FailStages :
        agent' = [agent EXCEPT !.pc = "report", !.outcome = [ok |-> FALSE, stage |-> st]]
    BY DEF ApplyFails
  <1>2. st \in Stages /\ st # Null
    BY NullApart, ConstantsAssumption
  <1>3. /\ agent' \in AgentState /\ agent'.pc = "report"
        /\ ~agent'.outcome.ok /\ agent'.outcome.stage = st /\ agent'.outcome # NoReport
    BY <1>1, <1>2 DEF AgentState, AgentSteps, NoReport
  <1>4. TypeOK'
    BY <1>3 DEF ApplyFails, TypeOK, plane, faults
  <1>5. (ClaimsWereRun /\ ClaimsInFlight)'
    BY DEF ApplyFails, ClaimsWereRun, ClaimsInFlight, WasRun, plane
  <1>6. StagedAsAsked'
    BY <1>2, <1>3 DEF ApplyFails, StagedAsAsked
  <1> QED
    BY <1>4, <1>5, <1>6

\* Wherever an agent goes that gives up waiting, its part of the invariant holds.
LEMMA GivenUpOK ==
    ASSUME ProtocolInv, agent.pc = "waiting", NEW next \in GivenUp
    PROVE  /\ next \in AgentState /\ next.pc \in {"idle", "enroll", "apply", "report"}
           /\ next.pc = "apply" => next.staged # Null /\ next.asked = Digest(next.staged)
           /\ next.outcome # NoReport => next.outcome.stage \in Stages
           /\ next.outcome # NoReport => (next.outcome.ok => WasRun(next.asked))
           /\ next.pc = "report" => next.outcome # NoReport
  <1> USE DEF ProtocolInv
  <1>1. agent \in AgentState /\ agent.slot \in Slots /\ open[agent.slot] \in Request
    BY DEF TypeOK, StagedAsAsked
  <1>2. CASE next \in {Starting("idle"), Starting("enroll")}
    <2>1. \A pc \in {"idle", "enroll"} :
            Starting(pc) \in AgentState /\ Starting(pc).pc = pc
              /\ Starting(pc).outcome = NoReport
      BY DEF Starting, AgentState, AgentSteps, NoReport
    <2> QED
      BY <1>2, <2>1
  <1>3. CASE next \notin {Starting("idle"), Starting("enroll")}
    <2>1. /\ open[agent.slot].kind = "report"
          /\ next = IF agent.outcome = NoReport THEN AfterReport
                    ELSE [agent EXCEPT !.pc = "report", !.slot = Null]
      <3>1. open[agent.slot].kind \in Kinds
        BY <1>1 DEF StagedAsAsked, Request
      <3>2. CASE open[agent.slot].kind = "report"
        BY <1>3, <3>2 DEF GivenUp
      <3>3. CASE open[agent.slot].kind = "enroll"
        BY <1>3, <3>3 DEF GivenUp
      <3>4. CASE open[agent.slot].kind \in {"heartbeat", "config"}
        BY <1>3, <3>4 DEF GivenUp
      <3> QED
        BY <3>1, <3>2, <3>3, <3>4 DEF Kinds
    <2>2. CASE agent.outcome = NoReport
      BY <2>1, <2>2, AfterReportOK
    <2>3. CASE agent.outcome # NoReport
      <3>1. next = [agent EXCEPT !.pc = "report", !.slot = Null]
        BY <2>1, <2>3
      <3>2. /\ agent.outcome.stage \in Stages
            /\ agent.outcome.ok => WasRun(agent.asked)
        BY <2>3 DEF StagedAsAsked
      <3> QED
        BY <1>1, <2>3, <3>1, <3>2 DEF AgentState, AgentSteps
    <2> QED
      BY <2>2, <2>3
  <1> QED
    BY <1>2, <1>3

LEMMA TimeoutInv ==
    ASSUME ProtocolInv, Timeout
    PROVE  ProtocolInv'
  <1> USE DEF ProtocolInv
  <1>1. agent' \in GivenUp /\ agent.pc = "waiting"
    BY DEF Timeout
  <1>2. TypeOK'
    BY <1>1, GivenUpOK DEF Timeout, TypeOK, plane, disk
  <1>3. (ClaimsWereRun /\ ClaimsInFlight)'
    BY DEF Timeout, ClaimsWereRun, ClaimsInFlight, WasRun, plane, disk
  <1>4. StagedAsAsked'
    BY <1>1, GivenUpOK DEF Timeout, StagedAsAsked, WasRun, disk
  <1> QED
    BY <1>2, <1>3, <1>4

LEMMA LoseInv ==
    ASSUME ProtocolInv, Lose
    PROVE  ProtocolInv'
  <1> USE DEF ProtocolInv
  <1>1. agent' \in GivenUp /\ agent.pc = "waiting" /\ agent.slot \in Slots
    BY DEF Lose, StagedAsAsked
  <1>2. open' \in [Slots -> Request] /\ (ClaimsWereRun /\ ClaimsInFlight)'
    BY <1>1, FreedSlot DEF Lose, disk
  <1>3. TypeOK'
    BY <1>1, <1>2, GivenUpOK DEF Lose, TypeOK, disk
  <1>4. StagedAsAsked'
    BY <1>1, GivenUpOK DEF Lose, StagedAsAsked, WasRun, disk
  <1> QED
    BY <1>2, <1>3, <1>4

LEMMA DiscardInv ==
    ASSUME ProtocolInv, NEW s \in Slots, Discard(s)
    PROVE  ProtocolInv'
  <1> USE DEF ProtocolInv
  <1>1. open' \in [Slots -> Request] /\ (ClaimsWereRun /\ ClaimsInFlight)'
    BY FreedSlot DEF Discard, disk
  <1>2. TypeOK'
    BY <1>1 DEF Discard, TypeOK, disk, faults
  <1>3. StagedAsAsked'
    BY DEF Discard, TypeOK, StagedAsAsked, WasRun, disk
  <1> QED
    BY <1>1, <1>2, <1>3

LEMMA AgentCrashInv ==
    ASSUME ProtocolInv, AgentCrash
    PROVE  ProtocolInv'
  <1> USE DEF ProtocolInv
  <1>1. /\ agent' \in AgentState /\ agent'.pc \in {"enroll", "idle"}
        /\ agent'.outcome = NoReport
    BY DEF AgentCrash, Starting, AgentState, AgentSteps, NoReport
  <1>2. /\ live' \in Runtime \cup {Null} /\ everLive' \in SUBSET Runtime
        /\ everLive \subseteq everLive'
    <2>1. CASE UNCHANGED <<live, everLive>>
      BY <2>1 DEF TypeOK
    <2>2. CASE /\ agent.pc \in {"fetched", "apply"}
               /\ live' = agent.staged /\ everLive' = everLive \cup {agent.staged}
      <3>1. agent.staged \in Runtime
        BY <2>2 DEF TypeOK, AgentState, StagedAsAsked
      <3> QED
        BY <2>2, <3>1 DEF TypeOK
    <2> QED
      BY <2>1, <2>2 DEF AgentCrash
  <1>3. TypeOK'
    BY <1>1, <1>2 DEF AgentCrash, TypeOK, plane
  <1>4. (ClaimsWereRun /\ ClaimsInFlight)'
    BY <1>2 DEF AgentCrash, ClaimsWereRun, ClaimsInFlight, WasRun, plane
  <1>5. StagedAsAsked'
    BY <1>1 DEF StagedAsAsked
  <1> QED
    BY <1>3, <1>4, <1>5

\* Every step keeps the invariant, and so does a step that changes nothing.
LEMMA NextInv == ProtocolInv /\ [Next]_vars => ProtocolInv'
  <1> SUFFICES ASSUME ProtocolInv, [Next]_vars PROVE ProtocolInv'
    OBVIOUS
  <1>1. CASE \E s \in Slots : Handle(s)
    BY <1>1, AuthenticateInv, RecordAddressInv, ReadConfigInv, ReadMembersInv, TouchInv
    DEF Handle
  <1>2. CASE \E s \in Slots : Discard(s)
    BY <1>2, DiscardInv
  <1>3. CASE Admin
    BY <1>3, AdminInv
  <1>4. CASE AgentStep
    BY <1>4, SendsInv, HearsInv, ApplySucceedsInv, ApplyFailsInv DEF AgentStep
  <1>5. CASE Timeout \/ Lose \/ AgentCrash
    BY <1>5, TimeoutInv, LoseInv, AgentCrashInv
  <1>6. CASE UNCHANGED vars
    BY <1>6 DEF vars, ProtocolInv, TypeOK, ClaimsWereRun, ClaimsInFlight, StagedAsAsked, WasRun
  <1> QED
    BY <1>1, <1>2, <1>3, <1>4, <1>5, <1>6 DEF Next

-----------------------------------------------------------------------------
\* The inductive invariant holds in every state: of the handlers of
\* routers/node.ts, however they interleave, and of everything in flight.
THEOREM ProtocolInvariant == Spec => []ProtocolInv
  <1> QED
    BY InitInv, NextInv, PTL DEF Spec

\* Every column, handler and agent state keeps its shape (routers/node.ts).
THEOREM TypeCorrect == Spec => []TypeOK
  <1>1. ProtocolInv => TypeOK
    BY DEF ProtocolInv
  <1> QED
    BY <1>1, ProtocolInvariant, PTL

\* The applied hash of the node's row is never that of a config the node did
\* not run (the hash guard of GET config and reportValues), whatever is late,
\* lost or repeated and whenever the agent crashes.
THEOREM NeverShowsUnrun == Spec => []ClaimsWereRun
  <1>1. ProtocolInv => ClaimsWereRun
    BY DEF ProtocolInv
  <1> QED
    BY <1>1, ProtocolInvariant, PTL

-----------------------------------------------------------------------------
(* The drift view implements DriftView: a step shows, runs or wants.       *)

\* What is desired is a config that renders, or nothing.
LEMMA DesiredType == TypeOK => Desired \in Runtime \cup {Null}
  BY DEF TypeOK, Desired, Rendered, Runtime

\* The steps that leave the database and the node's configs alone are stutters.
LEMMA QuietStep ==
    ASSUME UNCHANGED <<authored, members, row, everLive>>
    PROVE  UNCHANGED View!view
  BY DEF View!view, Desired, Rendered, Renderable

\* A statement that writes the row shows a hash, or the same one.
LEMMA RowStep ==
    ASSUME ProtocolInv, ProtocolInv', UNCHANGED <<authored, members, everLive>>
    PROVE  [View!Next]_(View!view)
  <1>1. Desired' = Desired
    BY DEF Desired, Rendered, Renderable
  <1>2. row'.applied \in {[sha256 |-> c] : c \in everLive} \cup {Null}
    BY DEF ProtocolInv, ClaimsWereRun, WasRun, Digest
  <1>3. View!Show
    BY <1>1, <1>2 DEF View!Show
  <1> QED
    BY <1>3 DEF View!Next

\* A config that Xray starts to run is one that renders.
LEMMA RunStep ==
    ASSUME ProtocolInv, ApplySucceeds \/ AgentCrash
    PROVE  [View!Next]_(View!view)
  <1>1. Desired' = Desired /\ row' = row
    BY DEF ApplySucceeds, AgentCrash, plane, Desired, Rendered, Renderable
  <1>2. CASE UNCHANGED everLive
    BY <1>2, QuietStep DEF ApplySucceeds, AgentCrash, plane
  <1>3. CASE /\ agent.pc \in {"fetched", "apply"}
             /\ everLive' = everLive \cup {agent.staged}
    <2>1. agent.staged \in Runtime
      BY <1>3 DEF ProtocolInv, TypeOK, AgentState, StagedAsAsked
    <2>2. View!Run
      BY <1>1, <1>3, <2>1 DEF View!Run
    <2> QED
      BY <2>2 DEF View!Next
  <1> QED
    BY <1>2, <1>3 DEF ApplySucceeds, AgentCrash

\* An admin write moves what is desired.
LEMMA WantStep ==
    ASSUME ProtocolInv', Admin
    PROVE  [View!Next]_(View!view)
  <1>1. Desired' \in Runtime \cup {Null}
    BY DesiredType DEF ProtocolInv, TypeOK, Desired, Rendered, Runtime
  <1>2. UNCHANGED <<row, everLive>>
    BY DEF Admin, SaveConfig, EditMembers, disk
  <1>3. View!Want
    BY <1>1, <1>2 DEF View!Want
  <1> QED
    BY <1>3 DEF View!Next

\* The drift view of the plane implements DriftView (node_state_service.ts,
\* syncState): it starts empty and only ever shows what the node ran.
THEOREM ViewImplemented == Spec => ShowsWhatRan
  <1>1. Init => View!Init
    BY ConstantsAssumption
    DEF Init, View!Init, Desired, Rendered, Renderable, FreshRow
  <1>2. ProtocolInv /\ ProtocolInv' /\ [Next]_vars => [View!Next]_(View!view)
    <2> SUFFICES ASSUME ProtocolInv, ProtocolInv', [Next]_vars
                 PROVE  [View!Next]_(View!view)
      OBVIOUS
    <2>1. CASE \E s \in Slots : Handle(s)
      BY <2>1, RowStep
      DEF Handle, Authenticate, RecordAddress, ReadConfig, ReadMembers, Touch, disk
    <2>2. CASE \E s \in Slots : Discard(s)
      BY <2>2, QuietStep DEF Discard, disk
    <2>3. CASE Admin
      BY <2>3, WantStep
    <2>4. CASE AgentStep
      <3>1. CASE ApplySucceeds
        BY <3>1, RunStep
      <3>2. CASE ~ApplySucceeds
        BY <2>4, <3>2, QuietStep
        DEF AgentStep, SendEnroll, SendHeartbeat, SendFetch, SendProgress, SendReport, Send,
            HearEnroll, HearHeartbeat, HearConfig, HearReport, Answered, ApplyFails,
            plane, disk
      <3> QED
        BY <3>1, <3>2
    <2>5. CASE Timeout \/ Lose
      BY <2>5, QuietStep DEF Timeout, Lose, plane, disk
    <2>6. CASE AgentCrash
      BY <2>6, RunStep
    <2>7. CASE UNCHANGED vars
      BY <2>7, QuietStep DEF vars
    <2> QED
      BY <2>1, <2>2, <2>3, <2>4, <2>5, <2>6, <2>7 DEF Next
  <1> QED
    BY <1>1, <1>2, ProtocolInvariant, PTL DEF Spec, ShowsWhatRan, View!Spec

-----------------------------------------------------------------------------
(* The report the agent waits for tells what is on the node's disk.        *)

\* What the agent reports as applied is what it has on disk.
AppliedAsReported == agent.outcome.ok => applied # Null /\ agent.asked = applied

\* So does the request it waits for, whatever other handlers are open.
AwaitedIsApplied ==
    \A s \in Slots : (Awaits(s) /\ open[s].kind = "report" /\ Success(open[s]))
                        => open[s].hash = applied

DiskInv == ProtocolInv /\ AppliedAsReported /\ AwaitedIsApplied

LEMMA InitDisk == Init => AppliedAsReported /\ AwaitedIsApplied
  BY DEF Init, Starting, NoReport, AppliedAsReported, AwaitedIsApplied, Blank

\* A handler's own steps leave what was asked of it as it is.
LEMMA HandleDisk ==
    ASSUME DiskInv, NEW s \in Slots, Handle(s)
    PROVE  AppliedAsReported' /\ AwaitedIsApplied'
  <1> USE DEF DiskInv
  <1>1. AppliedAsReported' /\ UNCHANGED <<agent, applied>>
    BY DEF Handle, Authenticate, RecordAddress, ReadConfig, ReadMembers, Touch, disk,
           AppliedAsReported
  <1>2. ASSUME NEW t \in Slots
        PROVE  /\ open'[t].kind = open[t].kind /\ open'[t].hash = open[t].hash
               /\ open'[t].ok = open[t].ok /\ open'[t].stage = open[t].stage
    <2>1. open \in [Slots -> Request] /\ open[t] \in Request
      BY DEF ProtocolInv, TypeOK
    <2> QED
      BY <2>1 DEF Handle, Authenticate, RecordAddress, ReadConfig, ReadMembers, Touch, Request
  <1> QED
    BY <1>1, <1>2 DEF AwaitedIsApplied, Awaits, Success

\* What a request that is sent reports as applied is on disk.
LEMMA SendDisk ==
    ASSUME DiskInv, NEW s \in Slots, NEW request \in Request, Send(s, request),
           (request.kind = "report" /\ Success(request))
              => agent.outcome.ok /\ request.hash = agent.asked
    PROVE  AppliedAsReported' /\ AwaitedIsApplied'
  <1> USE DEF DiskInv
  <1>1. agent \in AgentState /\ open \in [Slots -> Request]
    BY DEF ProtocolInv, TypeOK
  <1>2. /\ agent'.slot = s /\ agent'.asked = agent.asked
        /\ agent'.outcome = agent.outcome /\ applied' = applied
        /\ open'[s] = request
    BY <1>1 DEF Send, AgentState, disk
  <1> QED
    BY <1>2 DEF AppliedAsReported, AwaitedIsApplied, Awaits

LEMMA SendsDisk ==
    ASSUME DiskInv, NEW s \in Slots,
           SendEnroll(s) \/ SendHeartbeat(s) \/ SendFetch(s) \/ SendProgress(s)
              \/ SendReport(s)
    PROVE  AppliedAsReported' /\ AwaitedIsApplied'
  <1> USE DEF DiskInv
  <1>1. Blank \in Request
    BY DEF Blank, Request, FreshRow, Row, Stages, Steps
  <1>2. agent \in AgentState /\ applied \in Hash \cup {Null}
    BY DEF ProtocolInv, TypeOK
  <1>4. CASE SendEnroll(s)
    <2> PICK v \in Versions : Send(s, [Arriving("enroll") EXCEPT !.version = v])
      BY <1>4 DEF SendEnroll
    <2> DEFINE request == [Arriving("enroll") EXCEPT !.version = v]
    <2>1. request \in Request /\ request.kind = "enroll"
      BY <1>1 DEF Arriving, Request, Kinds, Steps, Blank
    <2> HIDE DEF request
    <2> QED
      BY <2>1, SendDisk DEF request
  <1>5. CASE SendHeartbeat(s)
    <2> PICK h \in {applied, Null} : Send(s, [Arriving("heartbeat") EXCEPT !.hash = h])
      BY <1>5 DEF SendHeartbeat
    <2> DEFINE request == [Arriving("heartbeat") EXCEPT !.hash = h]
    <2>1. request \in Request /\ request.kind = "heartbeat"
      BY <1>1, <1>2 DEF Arriving, Request, Kinds, Steps, Blank
    <2> HIDE DEF request
    <2> QED
      BY <2>1, SendDisk DEF request
  <1>6. CASE SendFetch(s)
    <2> DEFINE request == [Arriving("config") EXCEPT !.hash = agent.asked]
    <2>1. request \in Request /\ request.kind = "config"
      BY <1>1, <1>2 DEF Arriving, Request, Kinds, Steps, Blank, AgentState
    <2>2. Send(s, request)
      BY <1>6 DEF SendFetch
    <2> HIDE DEF request
    <2> QED
      BY <2>1, <2>2, SendDisk
  <1>7. CASE SendProgress(s)
    <2> PICK st \in ProgressStages :
            Send(s, [Arriving("report") EXCEPT !.hash = agent.asked, !.ok = TRUE, !.stage = st])
      BY <1>7 DEF SendProgress
    <2> DEFINE request ==
            [Arriving("report") EXCEPT !.hash = agent.asked, !.ok = TRUE, !.stage = st]
    <2>1. request \in Request /\ request.stage = st
      BY <1>1, <1>2, ConstantsAssumption
      DEF Arriving, Request, Kinds, Steps, Blank, AgentState
    <2>2. st \notin SuccessStages
      BY ConstantsAssumption
    <2> HIDE DEF request
    <2> QED
      BY <2>1, <2>2, SendDisk DEF request, Success
  <1>8. CASE SendReport(s)
    <2> DEFINE request ==
            [Arriving("report") EXCEPT !.hash = agent.asked,
                !.ok = agent.outcome.ok, !.stage = agent.outcome.stage]
    <2>1. agent.outcome # NoReport /\ agent.outcome.stage \in Stages
      BY <1>8 DEF SendReport, ProtocolInv, StagedAsAsked
    <2>2. request \in Request
      BY <1>1, <1>2, <2>1 DEF Arriving, Request, Kinds, Steps, Blank, AgentState
    <2>3. request.hash = agent.asked /\ request.ok = agent.outcome.ok
      BY DEF Arriving, Blank
    <2>4. Send(s, request)
      BY <1>8 DEF SendReport
    <2> HIDE DEF request
    <2> QED
      BY <2>2, <2>3, <2>4, SendDisk DEF Success
  <1> QED
    BY <1>4, <1>5, <1>6, <1>7, <1>8

\* Without a report to make there is nothing to compare with the disk.
LEMMA NothingReported == ASSUME NEW pc PROVE Starting(pc).outcome = NoReport /\ ~NoReport.ok
  BY DEF Starting, NoReport

LEMMA HearsDisk ==
    ASSUME DiskInv, HearEnroll \/ HearHeartbeat \/ HearConfig \/ HearReport
    PROVE  AppliedAsReported' /\ AwaitedIsApplied'
  <1>1. agent'.pc # "waiting" /\ agent'.outcome = NoReport
    <2>1. CASE HearEnroll
      BY <2>1 DEF HearEnroll, Answered, Starting
    <2>2. CASE HearHeartbeat
      BY <2>2 DEF HearHeartbeat, Answered, Starting
    <2>3. CASE HearConfig
      BY <2>3 DEF HearConfig, Answered, Starting
    <2>4. CASE HearReport
      <3>1. agent' = AfterReport /\ AfterReport.outcome = NoReport
        BY <2>4, AfterReportOK DEF HearReport, Answered, DiskInv
      <3>2. AfterReport.pc # "waiting"
        BY DEF AfterReport, Starting, DiskInv, ProtocolInv, TypeOK, AgentState
      <3> QED
        BY <3>1, <3>2
    <2> QED
      BY <2>1, <2>2, <2>3, <2>4
  <1> QED
    BY <1>1, NothingReported DEF AppliedAsReported, AwaitedIsApplied, Awaits

\* An apply happens between two requests, and stores the hash it will report.
LEMMA ApplyDisk ==
    ASSUME DiskInv, ApplySucceeds \/ ApplyFails
    PROVE  AppliedAsReported' /\ AwaitedIsApplied'
  <1> USE DEF DiskInv
  <1>1. agent \in AgentState
    BY DEF ProtocolInv, TypeOK
  <1>2. AwaitedIsApplied'
    BY <1>1 DEF AwaitedIsApplied, Awaits, AgentState, ApplySucceeds, ApplyFails
  <1>3. CASE ApplySucceeds
    <2>1. agent.asked # Null
      <3>1. agent.staged # Null /\ agent.asked = Digest(agent.staged)
        BY <1>3 DEF ApplySucceeds, ProtocolInv, StagedAsAsked
      <3>2. agent.staged \in Runtime
        BY <1>1, <3>1 DEF AgentState
      <3> QED
        BY <3>1, <3>2, NullApart
    <2> QED
      BY <1>1, <1>2, <1>3, <2>1 DEF ApplySucceeds, AppliedAsReported, AgentState
  <1>4. CASE ApplyFails
    <2>1. ~agent'.outcome.ok
      <3> PICK st \in FailStages :
            agent' = [agent EXCEPT !.pc = "report", !.outcome = [ok |-> FALSE, stage |-> st]]
        BY <1>4 DEF ApplyFails
      <3> QED
        BY <1>1 DEF AgentState
    <2> QED
      BY <1>2, <2>1 DEF AppliedAsReported
  <1> QED
    BY <1>3, <1>4

\* An agent that gives up keeps its report or has none.
LEMMA GivenUpReport ==
    ASSUME DiskInv, agent.pc = "waiting", NEW next \in GivenUp
    PROVE  /\ next.pc # "waiting"
           /\ next.outcome.ok => applied # Null /\ next.asked = applied
  <1> USE DEF DiskInv
  <1>1. agent \in AgentState /\ open[agent.slot].kind \in Kinds
    BY DEF ProtocolInv, TypeOK, StagedAsAsked, Request
  <1>2. CASE next \in {Starting("idle"), Starting("enroll")}
    BY <1>2, NothingReported DEF Starting
  <1>3. CASE next \notin {Starting("idle"), Starting("enroll")}
    <2>1. CASE open[agent.slot].kind \in {"enroll", "heartbeat", "config"}
      BY <1>3, <2>1 DEF GivenUp
    <2>2. CASE open[agent.slot].kind = "report"
      <3>1. next = IF agent.outcome = NoReport THEN AfterReport
                   ELSE [agent EXCEPT !.pc = "report", !.slot = Null]
        BY <1>3, <2>2 DEF GivenUp
      <3>2. AfterReport.pc # "waiting"
        BY <1>1 DEF AfterReport, Starting, AgentState
      <3> QED
        BY <1>1, <2>2, <3>1, <3>2, AfterReportOK, NothingReported
        DEF AppliedAsReported, AgentState
    <2> QED
      BY <1>1, <2>1, <2>2 DEF Kinds
  <1> QED
    BY <1>2, <1>3

LEMMA FaultDisk ==
    ASSUME DiskInv, Timeout \/ Lose \/ AgentCrash
    PROVE  AppliedAsReported' /\ AwaitedIsApplied'
  <1>1. CASE Timeout
    BY <1>1, GivenUpReport DEF Timeout, AppliedAsReported, AwaitedIsApplied, Awaits, disk
  <1>2. CASE Lose
    BY <1>2, GivenUpReport DEF Lose, AppliedAsReported, AwaitedIsApplied, Awaits, disk
  <1>3. CASE AgentCrash
    <2>1. agent'.pc # "waiting" /\ agent'.outcome = NoReport
      BY <1>3 DEF AgentCrash, Starting
    <2> QED
      BY <2>1, NothingReported DEF AppliedAsReported, AwaitedIsApplied, Awaits
  <1> QED
    BY <1>1, <1>2, <1>3

LEMMA NextDisk == DiskInv /\ [Next]_vars => AppliedAsReported' /\ AwaitedIsApplied'
  <1> SUFFICES ASSUME DiskInv, [Next]_vars PROVE AppliedAsReported' /\ AwaitedIsApplied'
    OBVIOUS
  <1>1. CASE \E s \in Slots : Handle(s)
    BY <1>1, HandleDisk
  <1>2. CASE \E s \in Slots : Discard(s)
    <2> PICK s \in Slots : Discard(s)
      BY <1>2
    <2>1. \A t \in Slots : t # s => open'[t] = open[t]
      BY DEF Discard, DiskInv, ProtocolInv, TypeOK
    <2> QED
      BY <2>1 DEF Discard, DiskInv, AppliedAsReported, AwaitedIsApplied, Awaits, disk
  <1>3. CASE Admin
    BY <1>3
    DEF Admin, SaveConfig, EditMembers, DiskInv, AppliedAsReported, AwaitedIsApplied, Awaits,
        disk
  <1>4. CASE AgentStep
    BY <1>4, SendsDisk, HearsDisk, ApplyDisk DEF AgentStep
  <1>5. CASE Timeout \/ Lose \/ AgentCrash
    BY <1>5, FaultDisk
  <1>6. CASE UNCHANGED vars
    BY <1>6 DEF vars, DiskInv, AppliedAsReported, AwaitedIsApplied, Awaits
  <1> QED
    BY <1>1, <1>2, <1>3, <1>4, <1>5, <1>6 DEF Next

\* The report the agent waits for and the outcome it still has to report name
\* the hash on its disk, with any number of handlers nobody waits for.
LEMMA ReportsInStep == Spec => []DiskInv
  <1>1. Init => DiskInv
    BY InitInv, InitDisk DEF DiskInv
  <1>2. DiskInv /\ [Next]_vars => DiskInv'
    BY NextInv, NextDisk DEF DiskInv
  <1> QED
    BY <1>1, <1>2, PTL DEF Spec

-----------------------------------------------------------------------------
(* What a handler stores over the row, from a snapshot of any age.         *)

\* The steps that store liveness columns, and the only ones that change more
\* than the address of the row.
LEMMA RowWriters ==
    ASSUME ProtocolInv, [Next]_vars
    PROVE  \/ \E s \in Slots : Touch(s)
           \/ /\ row'.health = row.health /\ row'.applied = row.applied
              /\ row'.last_error = row.last_error
  <1>1. ASSUME NEW s \in Slots, RecordAddress(s)
        PROVE  /\ row'.health = row.health /\ row'.applied = row.applied
               /\ row'.last_error = row.last_error
    BY <1>1 DEF RecordAddress, ProtocolInv, TypeOK, Row
  <1>2. (\A s \in Slots : ~Touch(s) /\ ~RecordAddress(s)) => UNCHANGED row
    BY DEF Next, vars, Handle, Authenticate, ReadConfig, ReadMembers, Discard, Admin,
           SaveConfig, EditMembers, AgentStep, SendEnroll, SendHeartbeat, SendFetch,
           SendProgress, SendReport, Send, HearEnroll, HearHeartbeat, HearConfig,
           HearReport, Answered, ApplySucceeds, ApplyFails, Timeout, Lose, AgentCrash,
           plane
  <1> QED
    BY <1>1, <1>2

\* Its own news over the values it read: of the diagnosis only a report has
\* any, and of the applied hash a report of success and a heartbeat.
LEMMA TouchStores ==
    ASSUME ProtocolInv, NEW s \in Slots, Touch(s)
    PROVE  \/ row' = row /\ open[s].kind = "heartbeat"
           \/ /\ open[s].kind # "report"
              /\ row'.health = open[s].snap.health
              /\ row'.last_error = open[s].snap.last_error
           \/ /\ open[s].kind = "report" /\ Success(open[s])
              /\ row'.health = "ok" /\ row'.last_error = Null
              /\ row'.applied = open[s].hash
           \/ /\ open[s].kind = "report" /\ open[s].ok /\ ~Success(open[s])
              /\ row'.health = open[s].snap.health
              /\ row'.last_error = open[s].snap.last_error
              /\ row'.applied = open[s].snap.applied
           \/ /\ open[s].kind = "report" /\ ~open[s].ok
              /\ row'.health = open[s].stage /\ row'.last_error = "text"
              /\ row'.applied = open[s].snap.applied
  <1>1. open[s] \in Request /\ open[s].snap \in Row
    BY DEF ProtocolInv, TypeOK, Request
  <1>2. CASE row' = row /\ open[s].kind = "heartbeat"
    BY <1>2
  <1>3. CASE row' = [Wanted(open[s]) EXCEPT !.address = row.address]
    <2>1. CASE open[s].kind = "enroll"
      <3>1. Wanted(open[s]) = EnrollValues(open[s].snap, open[s].version)
        BY <2>1 DEF Wanted
      <3> QED
        BY <1>1, <1>3, <2>1, <3>1 DEF EnrollValues, Row
    <2>2. CASE open[s].kind = "heartbeat"
      <3>1. Wanted(open[s]) = HeartbeatValues(open[s].snap, open[s].hash)
        BY <2>2 DEF Wanted
      <3> QED
        BY <1>1, <1>3, <2>2, <3>1 DEF HeartbeatValues, Row
    <2>3. CASE open[s].kind = "report"
      <3> DEFINE rep == [hash |-> open[s].hash, ok |-> open[s].ok, stage |-> open[s].stage]
      <3>1. Wanted(open[s]) = ReportValues(open[s].snap, rep)
        BY <2>3 DEF Wanted
      <3>2. CASE Success(open[s])
        BY <1>1, <1>3, <2>3, <3>1, <3>2 DEF ReportValues, Row, Success
      <3>3. CASE open[s].ok /\ ~Success(open[s])
        BY <1>1, <1>3, <2>3, <3>1, <3>3 DEF ReportValues, Row, Success
      <3>4. CASE ~open[s].ok
        BY <1>1, <1>3, <2>3, <3>1, <3>4 DEF ReportValues, Row
      <3> QED
        BY <1>1, <3>2, <3>3, <3>4 DEF Request
    <2> QED
      BY <2>1, <2>2, <2>3 DEF Touch
  <1> QED
    BY <1>2, <1>3 DEF Touch

\* "health is a diagnosis that only a report may set or clear": no heartbeat
\* and no enrolment, however late, changes it but to what it had read
\* (node_state_service.ts, heartbeatValues).
THEOREM OnlyReportsDiagnose == Spec => HealthOnlyByReports
  <1>1. ProtocolInv /\ [Next]_vars =>
          [row'.health # row.health =>
              \E s \in Slots : Touch(s) /\ (open[s].kind = "report"
                                               \/ open[s].snap.health # row.health)]_vars
    BY RowWriters, TouchStores
  <1> QED
    BY <1>1, ProtocolInvariant, PTL DEF Spec, HealthOnlyByReports

\* The report the agent waits for leaves the shown hash at the one on the
\* node's disk, with any number of late handlers, losses and crashes
\* (routers/node.ts, report; node_state_service.ts, reportValues).
THEOREM AwaitedReportsSafe == Spec => ReportsNeverUndo
  <1>1. DiskInv /\ [Next]_vars =>
          [\A s \in Slots :
              (/\ open[s].kind = "report" /\ Awaits(s) /\ Touch(s)
               /\ ~Success(open[s]) => open[s].snap.applied = applied)
                  => row'.applied = applied]_vars
    <2> SUFFICES ASSUME DiskInv, NEW s \in Slots, open[s].kind = "report", Awaits(s),
                        Touch(s), ~Success(open[s]) => open[s].snap.applied = applied
                 PROVE  row'.applied = applied
      BY DEF DiskInv
    <2>1. CASE Success(open[s])
      BY <2>1, TouchStores DEF DiskInv, AwaitedIsApplied, Success
    <2>2. CASE ~Success(open[s])
      BY <2>2, TouchStores DEF DiskInv, Success
    <2> QED
      BY <2>1, <2>2
  <1> QED
    BY <1>1, ReportsInStep, PTL DEF Spec, ReportsNeverUndo

-----------------------------------------------------------------------------
(* The diagnosis is never mixed from two reports.                          *)

LEMMA InitWhole == Init => DiagnosisIsWhole
  BY DEF Init, DiagnosisIsWhole, Whole, FreshRow, Blank

\* The snapshots are the row's, a fresh one, or those there were.
LEMMA SnapshotsFrom ==
    ASSUME ProtocolInv, [Next]_vars, NEW s \in Slots
    PROVE  open'[s].snap \in {open[s].snap, row, FreshRow}
  <1>1. open \in [Slots -> Request] /\ open[s] \in Request
    BY DEF ProtocolInv, TypeOK
  <1>2. ASSUME NEW t \in Slots, Handle(t) PROVE open'[s].snap \in {open[s].snap, row}
    BY <1>1, <1>2
    DEF Handle, Authenticate, RecordAddress, ReadConfig, ReadMembers, Touch, Request
  <1>3. ASSUME NEW t \in Slots, Discard(t) PROVE open'[s].snap \in {open[s].snap, FreshRow}
    BY <1>1, <1>3 DEF Discard, Blank
  <1>4. CASE Admin
    BY <1>4 DEF Admin, SaveConfig, EditMembers
  <1>5. ASSUME NEW t \in Slots, NEW request, Send(t, request), request.snap = FreshRow
        PROVE  open'[s].snap \in {open[s].snap, FreshRow}
    BY <1>1, <1>5 DEF Send
  <1>6. \A kind : /\ \A v : [Arriving(kind) EXCEPT !.version = v].snap = FreshRow
                  /\ \A h : [Arriving(kind) EXCEPT !.hash = h].snap = FreshRow
    BY DEF Arriving, Blank
  <1>7. ASSUME NEW t \in Slots, SendEnroll(t) \/ SendHeartbeat(t) \/ SendFetch(t)
                                  \/ SendProgress(t) \/ SendReport(t)
        PROVE  open'[s].snap \in {open[s].snap, FreshRow}
    <2>1. CASE SendEnroll(t)
      BY <1>5, <1>6, <2>1 DEF SendEnroll
    <2>2. CASE SendHeartbeat(t)
      BY <1>5, <1>6, <2>2 DEF SendHeartbeat
    <2>3. CASE SendFetch(t)
      BY <1>5, <1>6, <2>3 DEF SendFetch
    <2>4. CASE SendProgress(t)
      <3> PICK st \in ProgressStages :
            Send(t, [Arriving("report") EXCEPT !.hash = agent.asked, !.ok = TRUE, !.stage = st])
        BY <2>4 DEF SendProgress
      <3> DEFINE request ==
            [Arriving("report") EXCEPT !.hash = agent.asked, !.ok = TRUE, !.stage = st]
      <3>1. request.snap = FreshRow
        BY DEF Arriving, Blank
      <3> HIDE DEF request
      <3> QED
        BY <1>5, <3>1 DEF request
    <2>5. CASE SendReport(t)
      <3> DEFINE request ==
            [Arriving("report") EXCEPT !.hash = agent.asked,
                !.ok = agent.outcome.ok, !.stage = agent.outcome.stage]
      <3>1. request.snap = FreshRow /\ Send(t, request)
        BY <2>5 DEF SendReport, Arriving, Blank
      <3> HIDE DEF request
      <3> QED
        BY <1>5, <3>1
    <2> QED
      BY <1>7, <2>1, <2>2, <2>3, <2>4, <2>5
  <1>8. CASE HearEnroll \/ HearHeartbeat \/ HearConfig \/ HearReport
    <2>1. open' = [open EXCEPT ![agent.slot] = Blank]
      BY <1>8 DEF HearEnroll, HearHeartbeat, HearConfig, HearReport, Answered
    <2> QED
      BY <1>1, <2>1 DEF Blank
  <1>9. CASE ApplySucceeds \/ ApplyFails \/ Timeout \/ AgentCrash \/ UNCHANGED vars
    BY <1>9 DEF ApplySucceeds, ApplyFails, Timeout, AgentCrash, plane, vars
  <1>10. CASE Lose
    BY <1>1, <1>10 DEF Lose, Blank
  <1> QED
    BY <1>2, <1>3, <1>4, <1>7, <1>8, <1>9, <1>10 DEF Next, AgentStep

LEMMA NextWhole == ProtocolInv /\ DiagnosisIsWhole /\ [Next]_vars => DiagnosisIsWhole'
  <1> SUFFICES ASSUME ProtocolInv, DiagnosisIsWhole, [Next]_vars PROVE DiagnosisIsWhole'
    OBVIOUS
  <1>1. Whole(row')
    <2>1. CASE row'.health = row.health /\ row'.last_error = row.last_error
      BY <2>1 DEF DiagnosisIsWhole, Whole
    <2>2. CASE \E s \in Slots : Touch(s)
      <3> PICK s \in Slots : Touch(s)
        BY <2>2
      <3>1. Whole(open[s].snap) /\ open[s].stage \in Stages
        BY DEF DiagnosisIsWhole, ProtocolInv, TypeOK, Request
      <3> QED
        BY <3>1, TouchStores DEF DiagnosisIsWhole, Whole
    <2> QED
      BY <2>1, <2>2, RowWriters
  <1>2. ASSUME NEW s \in Slots PROVE Whole(open'[s].snap)
    <2>1. Whole(FreshRow)
      BY DEF Whole, FreshRow
    <2> QED
      BY <2>1, SnapshotsFrom DEF DiagnosisIsWhole
  <1> QED
    BY <1>1, <1>2 DEF DiagnosisIsWhole

\* The plane never shows half of a diagnosis, with any number of late handlers
\* storing snapshots of any age (node_state_service.ts; db.ts, touchNode).
THEOREM DiagnosisNeverMixed == Spec => []DiagnosisIsWhole
  <1> QED
    BY InitWhole, NextWhole, ProtocolInvariant, PTL DEF Spec
=============================================================================
