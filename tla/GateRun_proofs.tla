---------------------------- MODULE GateRun_proofs ----------------------------
(***************************************************************************)
(* What holds of every run of the ticket gate, for every set of requests,  *)
(* answers and confirmations, both engines, both destinations, and every   *)
(* recursion limit and number of engine exceptions.                        *)
(***************************************************************************)
EXTENDS GateRun, SequenceTheorems, TLAPS

Nodes == Workers \cup {"supervisor", "human_confirm", "paused", "end", "done"}
Streaks == [worker : Workers \cup {"none"}, count : Nat]

-----------------------------------------------------------------------------
(* Types.                                                                  *)

(* _record_route returns a list of actions again.                          *)
LEMMA RecordRouteType ==
  ASSUME NEW st \in CopilotState
  PROVE  RecordRoute(st) \in Seq(Workers \cup {"hitl"})
<1> DEFINE S == Workers \cup {"hitl"}
           h == Append(st.routeHistory, st.nextAction)
           m == IF Len(h) > 16 THEN Len(h) - 15 ELSE 1
<1>1. CASE st.nextAction \in {"supervisor", "end"}
  BY <1>1 DEF RecordRoute, CopilotState
<1>2. CASE st.nextAction \notin {"supervisor", "end"}
  <2>1. st.nextAction \in S /\ st.routeHistory \in Seq(S)
    BY <1>2 DEF CopilotState, Actions
  <2> HIDE DEF S
  <2>2. h \in Seq(S)
    BY <2>1, AppendProperties
  <2> HIDE DEF h
  <2>3. Len(h) \in Nat /\ \A i \in 1 .. Len(h) : h[i] \in S
    BY <2>2, ElementOfSeq, LenProperties
  <2>4. m \in Int /\ m >= 1
    BY <2>3
  <2> HIDE DEF m
  <2>5. SubSeq(h, m, Len(h)) \in Seq(S)
    <3>1. \A i \in m .. Len(h) : h[i] \in S
      BY <2>3, <2>4
    <3> QED BY <2>3, <2>4, <3>1, SubSeqProperties
  <2> QED BY <1>2, <2>5 DEF RecordRoute, h, m, S
<1> QED BY <1>1, <1>2

(* A counted pass leaves a well-formed state, woken or not.                *)
LEMMA ResumedType ==
  ASSUME TypeOK
  PROVE  /\ Counted \in CopilotState
         /\ Resumed \in CopilotState
         /\ Gated(Resumed) \in CopilotState
<1>1. RecordRoute(s) \in Seq(Workers \cup {"hitl"})
  BY RecordRouteType DEF TypeOK
<1>2. Counted \in CopilotState
  <2>1. s \in CopilotState
    BY DEF TypeOK
  <2> DEFINE i == s.iteration + 1
             h == RecordRoute(s)
  <2>2. i \in Nat
    BY <2>1 DEF CopilotState
  <2>3. Counted = [s EXCEPT !.iteration = i, !.routeHistory = h]
    BY DEF Counted
  <2> HIDE DEF i, h
  <2>4. h \in Seq(Workers \cup {"hitl"})
    BY <1>1 DEF h
  <2> QED BY <2>1, <2>2, <2>3, <2>4 DEF CopilotState
<1>3. Resumed \in CopilotState
  BY <1>2 DEF Resumed, Awake, CopilotState, Statuses
<1>4. AutoSubmitAfterGates(Resumed) \in BOOLEAN
  BY <1>3 DEF AutoSubmitAfterGates, CopilotState
<1>5. Gated(Resumed) \in CopilotState
  BY <1>3, <1>4 DEF Gated, CopilotState
<1> QED BY <1>2, <1>3, <1>5

(* Leaving the supervisor with a well-formed state.                        *)
LEMMA AfterSupervisorType ==
  ASSUME TypeOK, NEW st \in CopilotState, AfterSupervisor(st)
  PROVE  s' \in CopilotState /\ node' \in Nodes /\ streak' \in Streaks
<1> DEFINE out == IF engine = "fallback" THEN FallbackAfterSupervisor(st) ELSE st
<1>1. out \in CopilotState
  BY ZenonT(40) DEF FallbackAfterSupervisor, CopilotState, Statuses, Terminal, Actions
<1>2. s' = out
  BY DEF AfterSupervisor
<1>3. node' \in Nodes
  <2>1. RouteAfterSupervisor(out.nextAction) \in Nodes
    BY DEF RouteAfterSupervisor, Nodes, Workers
  <2> QED BY <2>1 DEF AfterSupervisor, Nodes
<1>4. streak' = IF out.nextAction \notin Workers THEN streak
                ELSE [worker |-> out.nextAction,
                      count |-> IF streak.worker = out.nextAction THEN streak.count + 1 ELSE 1]
  BY DEF AfterSupervisor
<1>5. streak \in Streaks /\ streak.count \in Nat
  BY DEF TypeOK, Streaks
<1> HIDE DEF out
<1>6. streak' \in Streaks
  BY <1>4, <1>5 DEF Streaks
<1> QED BY <1>1, <1>2, <1>3, <1>6

(* Leaving a worker with a well-formed state.                              *)
LEMMA AfterWorkerType ==
  ASSUME NEW st \in CopilotState, AfterWorker(st)
  PROVE  s' \in CopilotState /\ node' \in Nodes
BY DEF AfterWorker, CopilotState, Nodes, Actions

(* Supervisor actions: each leaves by AfterSupervisor with such a state.   *)
LEMMA SupervisorType ==
  ASSUME TypeOK, Supervisor
  PROVE  TypeOK'
<1> DEFINE Moved == /\ s' \in CopilotState /\ node' \in Nodes /\ streak' \in Streaks
                    /\ steps' \in Nat
                    /\ UNCHANGED <<engine, base, saved, tickets, faults>>
<1> SUFFICES Moved
  BY DEF TypeOK, Nodes, Streaks
<1>t. \A n : Enter(n) => steps' \in Nat
  BY DEF TypeOK, Enter
<1>r. Counted \in CopilotState /\ Resumed \in CopilotState /\ Gated(Resumed) \in CopilotState
  BY ResumedType
<1>h. s \in CopilotState
  BY DEF TypeOK
<1>w. \A a \in {"rejected", "succeeded", "failed", "waiting_hitl"} : a \in Statuses
  BY DEF Statuses, Terminal
<1>a. \A a \in {"end", "submit", "hitl"} : a \in Actions
  BY DEF Actions, Workers
<1>1. CASE SupStops
  <2> DEFINE st == [Counted EXCEPT
       !.routeHistory = IF Spinning(s) THEN s.routeHistory ELSE @,
       !.status = IF Spinning(s) \/ OverLimit(s) THEN "failed" ELSE @,
       !.nextAction = "end"]
  <2>1. st \in CopilotState
    BY <1>r, <1>h, <1>w, <1>a DEF CopilotState
  <2>2. Enter("supervisor") /\ AfterSupervisor(st) /\ UNCHANGED <<engine, base, saved, tickets, faults>>
    BY <1>1 DEF SupStops
  <2> HIDE DEF st
  <2> QED BY <1>t, <2>1, <2>2, AfterSupervisorType
<1>2. CASE SupRefusesIntent
  <2> DEFINE st == [Resumed EXCEPT !.status = "rejected", !.nextAction = "end"]
  <2>1. st \in CopilotState
    BY <1>r, <1>w, <1>a DEF CopilotState
  <2>2. SupGoesOn /\ AfterSupervisor(st)
    BY <1>2 DEF SupRefusesIntent
  <2> HIDE DEF st
  <2> QED BY <1>t, <2>1, <2>2, AfterSupervisorType DEF SupGoesOn
<1>3. CASE SupChiefSaidNo
  <2> DEFINE st == [Resumed EXCEPT
       !.status = IF s.hitl.decision = "reject" THEN "rejected" ELSE "succeeded",
       !.rework = IF s.hitl.decision = "return" THEN TRUE ELSE @,
       !.eligible = FALSE,
       !.nextAction = "end"]
  <2>1. st \in CopilotState
    BY <1>r, <1>w, <1>a, ZenonT(40) DEF CopilotState
  <2>2. SupGoesOn /\ AfterSupervisor(st)
    BY <1>3 DEF SupChiefSaidNo
  <2> HIDE DEF st
  <2> QED BY <1>t, <2>1, <2>2, AfterSupervisorType DEF SupGoesOn
<1>4. CASE SupRefusesRun
  <2> DEFINE st == [Resumed EXCEPT !.status = "rejected", !.nextAction = "end"]
  <2>1. st \in CopilotState
    BY <1>r, <1>w, <1>a DEF CopilotState
  <2>2. SupGoesOn /\ AfterSupervisor(st)
    BY <1>4 DEF SupRefusesRun
  <2> HIDE DEF st
  <2> QED BY <1>t, <2>1, <2>2, AfterSupervisorType DEF SupGoesOn
<1>5. CASE SupDispatches
  <2> DEFINE st == [Resumed EXCEPT !.nextAction = MissingWorker(s)]
  <2>1. MissingWorker(s) \in Actions
    BY <1>5 DEF SupDispatches, MissingWorker, Actions, Workers
  <2>2. st \in CopilotState
    BY <1>r, <2>1 DEF CopilotState
  <2>3. SupGoesOn /\ AfterSupervisor(st)
    BY <1>5 DEF SupDispatches
  <2> HIDE DEF st
  <2> QED BY <1>t, <2>2, <2>3, AfterSupervisorType DEF SupGoesOn
<1>6. CASE SupAsksChief
  <2> DEFINE auto == AutoSubmitAfterGates(s)
             hitl == [Resumed.hitl EXCEPT !.required = TRUE, !.resolved = FALSE,
                          !.pending = ComputePendingLayers(s), !.confirmations = {}]
             st == [Resumed EXCEPT !.autoSubmit = auto, !.hitl = hitl,
                      !.status = "waiting_hitl", !.eligible = FALSE, !.nextAction = "hitl"]
  <2>1. auto \in BOOLEAN
    BY <1>h DEF AutoSubmitAfterGates, CopilotState
  <2>2. ComputePendingLayers(s) \in SUBSET Layers
    BY DEF ComputePendingLayers, FactLayers, Layers
  <2>3. hitl \in Hitls
    BY <1>r, <2>2 DEF CopilotState, Hitls
  <2>4. SupGoesOn /\ AfterSupervisor(st)
    BY <1>6 DEF SupAsksChief
  <2> HIDE DEF auto, hitl
  <2>5. st \in CopilotState
    BY <1>r, <1>w, <1>a, <2>1, <2>3 DEF CopilotState
  <2> HIDE DEF st
  <2> QED BY <1>t, <2>4, <2>5, AfterSupervisorType DEF SupGoesOn
<1>7. CASE SupSubmits
  <2> DEFINE st == [Gated(Resumed) EXCEPT !.eligible = TRUE, !.nextAction = "submit"]
  <2>1. st \in CopilotState
    BY <1>r, <1>a DEF CopilotState
  <2>2. SupGoesOn /\ AfterSupervisor(st)
    BY <1>7 DEF SupSubmits
  <2> HIDE DEF st
  <2> QED BY <1>t, <2>1, <2>2, AfterSupervisorType DEF SupGoesOn
<1>8. CASE SupFinishes
  <2> DEFINE from == IF AlreadySubmitted(s) THEN Resumed ELSE Gated(Resumed)
             elig == IF ~AlreadySubmitted(s) /\ s.intent = "fault_dispatch"
                       THEN EvaluateSubmitEligible(s) ELSE from.eligible
             st == [from EXCEPT !.eligible = elig, !.status = "succeeded", !.nextAction = "end"]
  <2>1. from \in CopilotState
    BY <1>r
  <2>2. elig \in BOOLEAN
    BY <2>1 DEF EvaluateSubmitEligible, CopilotState
  <2>3. SupGoesOn /\ AfterSupervisor(st)
    BY <1>8 DEF SupFinishes
  <2> HIDE DEF from, elig
  <2>4. st \in CopilotState
    BY <1>w, <1>a, <2>1, <2>2 DEF CopilotState
  <2> HIDE DEF st
  <2> QED BY <1>t, <2>3, <2>4, AfterSupervisorType DEF SupGoesOn
<1> HIDE DEF Moved
<1> QED BY <1>1, <1>2, <1>3, <1>4, <1>5, <1>6, <1>7, <1>8 DEF Supervisor

(* What is sent to a destination describes a well-formed run.              *)
LEMMA DeliverType ==
  ASSUME TypeOK
  PROVE  Deliver(TicketOf(s)) \in Seq(TicketType)
<1>1. s \in CopilotState /\ tickets \in Seq(TicketType)
  BY DEF TypeOK
<1>2. ComputePendingLayers(s) \in SUBSET Layers
  BY DEF ComputePendingLayers, FactLayers, Layers
<1>3. TicketOf(s) \in TicketType
  BY <1>1, <1>2 DEF TicketOf, TicketType, CopilotState, Hitls
<1> QED BY <1>1, <1>3, AppendProperties DEF Deliver

(* Worker actions.                                                         *)
LEMMA WorkerType ==
  ASSUME TypeOK, Worker
  PROVE  TypeOK'
<1> DEFINE Moved == /\ s' \in CopilotState /\ node' \in Nodes /\ steps' \in Nat
                    /\ tickets' \in Seq(TicketType)
                    /\ UNCHANGED <<engine, base, saved, streak, faults>>
<1> SUFFICES Moved
  BY DEF TypeOK, Nodes, Streaks
<1>t. \A n : Enter(n) => steps' \in Nat
  BY DEF TypeOK, Enter
<1>h. s \in CopilotState /\ tickets \in Seq(TicketType)
  BY DEF TypeOK
<1>w. {"failed", "running", "succeeded"} \subseteq Statuses /\ {"end", "supervisor"} \subseteq Actions
  BY DEF Statuses, Terminal, Actions
<1>q. \A st : RunQualityChecks(st) \in Reports
  BY DEF RunQualityChecks, HardReason, Reports
<1>r. NoReport \in Reports
  BY DEF NoReport, Reports
<1>1. CASE RagAnswered
  <2>1. PICK r \in RagResults :
          AfterWorker([s EXCEPT
            !.rag = r,
            !.degraded = r.degraded,
            !.autoSubmit = @ /\ ~r.degraded,
            !.conflict = @ \/ r.conflicts \/ s.intent = "conflict_review",
            !.draft = IF @ = "none" /\ s.intent = "fault_dispatch" /\ CanCreateDraft(s.role)
                        THEN r.workOrder ELSE @,
            !.critic = NoReport])
    BY <1>1 DEF RagAnswered
  <2> DEFINE auto == s.autoSubmit /\ ~r.degraded
             clash == s.conflict \/ r.conflicts \/ s.intent = "conflict_review"
             draft == IF s.draft = "none" /\ s.intent = "fault_dispatch" /\ CanCreateDraft(s.role)
                        THEN r.workOrder ELSE s.draft
             st == [s EXCEPT !.rag = r, !.degraded = r.degraded, !.autoSubmit = auto,
                      !.conflict = clash, !.draft = draft, !.critic = NoReport]
  <2>2. AfterWorker(st)
    BY <2>1
  <2>3. r \in RagAnswers
    BY WorldAssumption
  <2>4. /\ r.degraded \in BOOLEAN /\ auto \in BOOLEAN /\ clash \in BOOLEAN
        /\ draft \in Drafts
    BY <1>h, <2>3 DEF CopilotState, RagAnswers, Drafts
  <2> HIDE DEF auto, clash, draft
  <2>5. st \in CopilotState
    BY <1>h, <1>r, <2>3, <2>4 DEF CopilotState
  <2>6. Enter("rag") /\ UNCHANGED <<engine, base, saved, tickets, streak, faults>>
    BY <1>1 DEF RagAnswered
  <2> HIDE DEF st
  <2> QED BY <1>h, <1>t, <2>2, <2>5, <2>6, AfterWorkerType
<1>2. CASE RagRetrieved
  <2> DEFINE st == [s EXCEPT !.rag = RetrieveOnly, !.degraded = TRUE, !.autoSubmit = FALSE,
                      !.critic = NoReport, !.status = "running", !.nextAction = "supervisor"]
  <2>1. RetrieveOnly \in RagAnswers
    BY DEF RetrieveOnly, NoAnswer, RagAnswers
  <2>2. st \in CopilotState
    BY <1>h, <1>w, <1>r, <2>1 DEF CopilotState
  <2>3. /\ Enter("rag") /\ AfterWorker(st)
        /\ UNCHANGED <<engine, base, saved, tickets, streak, faults>>
    BY <1>2 DEF RagRetrieved
  <2> HIDE DEF st
  <2> QED BY <1>h, <1>t, <2>2, <2>3, AfterWorkerType
<1>3. CASE RagFailed
  <2> DEFINE st == Failed([s EXCEPT !.degraded = TRUE])
  <2>1. st \in CopilotState
    BY <1>h, <1>w DEF CopilotState, Failed
  <2>2. /\ Enter("rag") /\ AfterWorker(st)
        /\ UNCHANGED <<engine, base, saved, tickets, streak, faults>>
    BY <1>3 DEF RagFailed
  <2> HIDE DEF st
  <2> QED BY <1>h, <1>t, <2>1, <2>2, AfterWorkerType
<1>4. CASE QualityChecked
  <2> DEFINE st == [s EXCEPT !.critic = RunQualityChecks(s)]
  <2>1. st \in CopilotState
    BY <1>h, <1>q DEF CopilotState
  <2>2. /\ Enter("quality") /\ AfterWorker(st)
        /\ UNCHANGED <<engine, base, saved, tickets, streak, faults>>
    BY <1>4 DEF QualityChecked
  <2> HIDE DEF st
  <2> QED BY <1>h, <1>t, <2>1, <2>2, AfterWorkerType
<1>5. CASE WorkOrderDrafted
  <2>1. PICK d \in (IF s.draft = "none" THEN Drafts \ {"none"} ELSE {s.draft}) :
          AfterWorker([s EXCEPT !.draft = d, !.critic = RunQualityChecks([s EXCEPT !.draft = d])])
    BY <1>5 DEF WorkOrderDrafted
  <2> DEFINE report == RunQualityChecks([s EXCEPT !.draft = d])
             st == [s EXCEPT !.draft = d, !.critic = report]
  <2>2. d \in Drafts /\ report \in Reports
    BY <1>h, <1>q, <2>1 DEF CopilotState
  <2>3. AfterWorker(st)
    BY <2>1
  <2> HIDE DEF report
  <2>4. st \in CopilotState
    BY <1>h, <2>2 DEF CopilotState
  <2>5. Enter("work_order") /\ UNCHANGED <<engine, base, saved, tickets, streak, faults>>
    BY <1>5 DEF WorkOrderDrafted
  <2> HIDE DEF st
  <2> QED BY <1>h, <1>t, <2>3, <2>4, <2>5, AfterWorkerType
<1>6. CASE WorkOrderFailed
  <2>1. Failed(s) \in CopilotState
    BY <1>h, <1>w DEF CopilotState, Failed
  <2>2. /\ Enter("work_order") /\ AfterWorker(Failed(s))
        /\ UNCHANGED <<engine, base, saved, tickets, streak, faults>>
    BY <1>6 DEF WorkOrderFailed
  <2> QED BY <1>h, <1>t, <2>1, <2>2, AfterWorkerType
<1>7. CASE PartsChecked
  <2>1. PICK p \in PartsResults : AfterWorker([s EXCEPT !.parts = p])
    BY <1>7 DEF PartsChecked
  <2>2. [s EXCEPT !.parts = p] \in CopilotState
    BY <1>h, WorldAssumption DEF CopilotState
  <2>3. Enter("parts") /\ UNCHANGED <<engine, base, saved, tickets, streak, faults>>
    BY <1>7 DEF PartsChecked
  <2> QED BY <1>h, <1>t, <2>1, <2>2, <2>3, AfterWorkerType
<1>8. CASE Submitted
  <2> DEFINE elig == s.eligible \/ ~s.submitted
             st == [s EXCEPT !.submitted = TRUE, !.status = "succeeded", !.nextAction = "end",
                             !.eligible = elig]
  <2>1. elig \in BOOLEAN
    BY <1>h DEF CopilotState
  <2>2. /\ Enter("submit") /\ AfterWorker(st)
        /\ tickets' = IF s.submitted THEN tickets ELSE Deliver(TicketOf(s))
        /\ UNCHANGED <<engine, base, saved, streak, faults>>
    BY <1>8 DEF Submitted
  <2> HIDE DEF elig
  <2>3. st \in CopilotState
    BY <1>h, <1>w, <2>1 DEF CopilotState
  <2> HIDE DEF st
  <2> QED BY <1>h, <1>t, <2>2, <2>3, AfterWorkerType, DeliverType
<1>9. CASE SubmitFailed
  <2> DEFINE elig == EvaluateSubmitEligible(s)
             st == Failed([s EXCEPT !.eligible = elig])
  <2>1. elig \in BOOLEAN
    BY DEF EvaluateSubmitEligible
  <2>2. /\ Enter("submit") /\ AfterWorker(st)
        /\ \E arrived \in BOOLEAN :
              tickets' = IF arrived THEN Deliver(TicketOf(s)) ELSE tickets
        /\ UNCHANGED <<engine, base, saved, streak, faults>>
    BY <1>9 DEF SubmitFailed
  <2> HIDE DEF elig
  <2>3. st \in CopilotState
    BY <1>h, <1>w, <2>1 DEF CopilotState, Failed
  <2> HIDE DEF st
  <2> QED BY <1>h, <1>t, <2>2, <2>3, AfterWorkerType, DeliverType
<1> HIDE DEF Moved
<1> QED BY <1>1, <1>2, <1>3, <1>4, <1>5, <1>6, <1>7, <1>8, <1>9 DEF Worker

(* The chief and the engine.                                               *)
LEMMA OtherType ==
  ASSUME TypeOK, Pauses \/ ChiefDecides \/ HitlResolved \/ EngineRaises \/ Finishes
  PROVE  TypeOK'
<1>h. s \in CopilotState /\ base \in CopilotState
  BY DEF TypeOK
<1>t. \A n : Enter(n) => steps' \in Nat
  BY DEF TypeOK, Enter
<1>w. {"failed", "running"} \subseteq Statuses /\ {"end", "supervisor"} \subseteq Actions
  BY DEF Statuses, Terminal, Actions
<1>r. \A st \in CopilotState : RowOf(st) \in [status : Statuses \cup {"none"}, submitted : BOOLEAN]
  BY DEF RowOf, CopilotState
<1>1. CASE Pauses
  BY <1>1, <1>h, <1>t, <1>r DEF Pauses, TypeOK
<1>2. CASE ChiefDecides
  <2>1. PICK d \in Decisions \ {"none"}, ticked \in Confirmations :
          LET hitl == [s.hitl EXCEPT !.required = TRUE, !.resolved = TRUE,
                                     !.decision = d, !.confirmations = ticked]
          IN  /\ base' = [s EXCEPT !.hitl = hitl]
              /\ s' = [s EXCEPT !.hitl = hitl, !.status = "running",
                                !.nextAction = "supervisor"]
    BY <1>2 DEF ChiefDecides
  <2> DEFINE hitl == [s.hitl EXCEPT !.required = TRUE, !.resolved = TRUE,
                                    !.decision = d, !.confirmations = ticked]
  <2>2. hitl \in Hitls
    BY <1>h, WorldAssumption DEF CopilotState, Hitls
  <2>3. /\ base' = [s EXCEPT !.hitl = hitl]
        /\ s' = [s EXCEPT !.hitl = hitl, !.status = "running", !.nextAction = "supervisor"]
    BY <2>1
  <2> HIDE DEF hitl
  <2>4. s' \in CopilotState /\ base' \in CopilotState
    BY <1>h, <1>w, <2>2, <2>3 DEF CopilotState
  <2> QED BY <1>2, <2>4 DEF ChiefDecides, TypeOK
<1>3. CASE HitlResolved
  <2> DEFINE st == [s EXCEPT !.status = "running", !.nextAction = "supervisor"]
  <2>1. st \in CopilotState
    BY <1>h, <1>w DEF CopilotState
  <2>2. /\ Enter("human_confirm") /\ AfterWorker(st)
        /\ UNCHANGED <<engine, base, saved, tickets, streak, faults>>
    BY <1>3 DEF HitlResolved
  <2> HIDE DEF st
  <2>3. s' \in CopilotState /\ node' \in Nodes
    BY <2>1, <2>2, AfterWorkerType
  <2> QED BY <1>t, <2>2, <2>3 DEF TypeOK, Nodes
<1>4. CASE EngineRaises
  <2>1. Failed(base) \in CopilotState
    BY <1>h, <1>w DEF CopilotState, Failed
  <2>2. RowOf(Failed(base)) \in [status : Statuses \cup {"none"}, submitted : BOOLEAN]
    BY <1>r, <2>1
  <2>3. faults' \in Nat /\ UNCHANGED <<steps, base, tickets>>
    BY <1>4 DEF EngineRaises, TypeOK
  <2>4. CASE EngineStrict
    <3>1. /\ s' = Failed(base) /\ saved' = RowOf(Failed(base)) /\ node' = "done"
          /\ UNCHANGED <<engine, streak>>
      BY <1>4, <2>4 DEF EngineRaises
    <3> QED BY <2>1, <2>2, <2>3, <3>1 DEF TypeOK
  <2>5. CASE ~EngineStrict
    <3>1. /\ s' = base /\ engine' = "fallback" /\ UNCHANGED saved
          /\ node' \in {"human_confirm", "supervisor"}
          /\ streak' = [worker |-> "none", count |-> 0]
      BY <1>4, <2>5 DEF EngineRaises
    <3> QED BY <1>h, <2>3, <3>1 DEF TypeOK
  <2> QED BY <2>4, <2>5
<1>5. CASE Finishes
  BY <1>5, <1>h, <1>r DEF Finishes, TypeOK
<1> QED BY <1>1, <1>2, <1>3, <1>4, <1>5

(* Every variable keeps its type (graph/state.py CopilotState).            *)
THEOREM TypesAreKept == Spec => []TypeOK
<1>1. Init => TypeOK
  <2> SUFFICES ASSUME Init PROVE TypeOK
    OBVIOUS
  <2>1. PICK r \in Requests : s = InitialState(r) /\ engine = r.engine
    BY DEF Init
  <2>2. /\ r.role \in Roles /\ r.intent \in Intents /\ r.ticket \in Tickets
        /\ r.autoSubmit \in BOOLEAN /\ r.maxIterations \in Nat \ {0}
        /\ r.engine \in {"langgraph", "fallback"}
    BY RequestAssumption
  <2>3. /\ NoAnswer \in RagAnswers /\ NoReport \in Reports /\ NoParts \in PartsChecks
        /\ NoHitl \in Hitls
    BY DEF NoAnswer, RagAnswers, NoReport, Reports, NoParts, PartsChecks, NoHitl, Hitls, Decisions
  <2>4. "supervisor" \in Actions /\ "running" \in Statuses /\ "none" \in Drafts
    BY DEF Actions, Statuses, Drafts
  <2>5. << >> \in Seq(Workers \cup {"hitl"}) /\ << >> \in Seq(TicketType)
    BY EmptySeq
  <2>6. s \in CopilotState
    BY <2>1, <2>2, <2>3, <2>4, <2>5 DEF InitialState, CopilotState
  <2> QED BY <2>1, <2>2, <2>5, <2>6 DEF Init, TypeOK, NoRow
<1>2. TypeOK /\ [Next]_vars => TypeOK'
  <2>1. TypeOK /\ UNCHANGED vars => TypeOK'
    BY DEF vars, TypeOK
  <2> QED BY <2>1, SupervisorType, WorkerType, OtherType DEF Next, Step
<1> QED BY <1>1, <1>2, PTL DEF Spec

-----------------------------------------------------------------------------
(* What a node call leaves alone.                                          *)

(* The request, which no node ever changes.                                *)
SameRequest(a, b) ==
  /\ a.role = b.role /\ a.intent = b.intent /\ a.ticket = b.ticket
  /\ a.maxIterations = b.maxIterations

(* What the workers found out.                                             *)
SameFindings(a, b) ==
  /\ a.rag = b.rag /\ a.degraded = b.degraded /\ a.conflict = b.conflict
  /\ a.critic = b.critic /\ a.draft = b.draft /\ a.parts = b.parts
  /\ a.submitted = b.submitted

(* The supervisor as it leaves: the run it hands on, and where it goes.    *)
LEMMA LeavingSupervisor ==
  ASSUME NEW st, st \in CopilotState, AfterSupervisor(st)
  PROVE  /\ SameRequest(s', st) /\ SameFindings(s', st)
         /\ s'.hitl = st.hitl /\ s'.iteration = st.iteration /\ s'.autoSubmit = st.autoSubmit
         /\ s'.status \in {st.status, "failed"}
         /\ node' \in Workers => node' = st.nextAction
         /\ node' \notin {"paused", "done"}
         /\ node' = "human_confirm" => st.nextAction = "hitl" /\ s' = st
         /\ streak'.count \in {streak.count, streak.count + 1, 1}
         /\ st.nextAction = "end" => streak' = streak
<1> DEFINE out == IF engine = "fallback" THEN FallbackAfterSupervisor(st) ELSE st
<1>1. out = st \/ out = [st EXCEPT !.status = "failed", !.nextAction = "end"]
  BY DEF FallbackAfterSupervisor
<1>2. s' = out
  BY DEF AfterSupervisor
<1>3. node' = "end" \/ node' = RouteAfterSupervisor(out.nextAction)
  BY DEF AfterSupervisor
<1>4. /\ streak'.count \in {streak.count, streak.count + 1, 1}
      /\ out.nextAction = "end" => streak' = streak
  BY DEF AfterSupervisor, Workers
<1> HIDE DEF out
<1>5. CASE out = st
  BY <1>2, <1>3, <1>4, <1>5
     DEF RouteAfterSupervisor, SameRequest, SameFindings, Workers
<1>6. CASE out = [st EXCEPT !.status = "failed", !.nextAction = "end"]
  <2>1. node' = "end"
    BY <1>3, <1>6 DEF CopilotState, RouteAfterSupervisor, Workers
  <2> QED BY <1>2, <1>4, <1>6, <2>1 DEF CopilotState, SameRequest, SameFindings, Workers
<1> QED BY <1>1, <1>5, <1>6

(* A worker as it leaves.                                                  *)
LEMMA LeavingWorker ==
  ASSUME NEW st, st \in CopilotState, AfterWorker(st)
  PROVE  /\ SameRequest(s', st) /\ SameFindings(s', st) /\ s'.hitl = st.hitl
         /\ node' \in {"supervisor", "end"}
BY DEF AfterWorker, CopilotState, SameRequest, SameFindings

(* A pass of the supervisor keeps the request, the findings and, unless it *)
(* asks the chief, the question; it submits only a dispatch, calls another *)
(* worker only to dispatch, and never turns auto-submit on.                *)
LEMMA SupervisorFrame ==
  ASSUME TypeOK, Supervisor
  PROVE  /\ SameRequest(s', s) /\ SameFindings(s', s)
         /\ s'.iteration = s.iteration + 1
         /\ SupAsksChief \/ (s'.hitl = s.hitl /\ node' # "human_confirm")
         /\ node' = "submit" => s.intent = "fault_dispatch" /\ SupSubmits
         /\ node' \in Workers \ {"submit"} => SupDispatches
         /\ node' = "parts" => ~s.parts.done
         /\ node' \notin {"paused", "done"}
         /\ s'.autoSubmit => s.autoSubmit
         /\ streak'.count \in {streak.count, streak.count + 1, 1}
         /\ UNCHANGED <<engine, base, saved, tickets, faults>>
<1> DEFINE Kept(st) == /\ st \in CopilotState
                       /\ SameRequest(st, s) /\ SameFindings(st, s)
                       /\ st.iteration = s.iteration + 1
                       /\ st.autoSubmit => s.autoSubmit
<1>h. s \in CopilotState
  BY DEF TypeOK
<1>c. Kept(Counted) /\ Counted.hitl = s.hitl
  BY <1>h, ResumedType DEF Counted, CopilotState, SameRequest, SameFindings
<1>r. Kept(Resumed) /\ Resumed.hitl = s.hitl
  BY <1>c, ResumedType DEF Resumed, Awake, CopilotState, SameRequest, SameFindings
<1>g. Kept(Gated(Resumed)) /\ Gated(Resumed).hitl = s.hitl
  BY <1>r, ResumedType DEF Gated, AutoSubmitAfterGates, CopilotState, SameRequest, SameFindings
<1> HIDE DEF Kept
(* Every branch hands on a copy of such a state: new are its status, its   *)
(* next action, the auto-submit and eligibility flags, and perhaps hitl.   *)
<1>l. ASSUME NEW st, Kept(st), AfterSupervisor(st),
             SupAsksChief \/ (st.hitl = s.hitl /\ st.nextAction # "hitl"),
             st.nextAction = "submit" => s.intent = "fault_dispatch" /\ SupSubmits,
             st.nextAction \in Workers \ {"submit"} => SupDispatches,
             st.nextAction = "parts" => ~s.parts.done,
             UNCHANGED <<engine, base, saved, tickets, faults>>
      PROVE  /\ SameRequest(s', s) /\ SameFindings(s', s)
             /\ s'.iteration = s.iteration + 1
             /\ SupAsksChief \/ (s'.hitl = s.hitl /\ node' # "human_confirm")
             /\ node' = "submit" => s.intent = "fault_dispatch" /\ SupSubmits
             /\ node' \in Workers \ {"submit"} => SupDispatches
             /\ node' = "parts" => ~s.parts.done
             /\ node' \notin {"paused", "done"}
             /\ s'.autoSubmit => s.autoSubmit
             /\ streak'.count \in {streak.count, streak.count + 1, 1}
             /\ UNCHANGED <<engine, base, saved, tickets, faults>>
  BY <1>l, LeavingSupervisor DEF Kept, SameRequest, SameFindings, Workers
<1>w. \A a \in {"rejected", "succeeded", "failed", "waiting_hitl"} : a \in Statuses
  BY DEF Statuses, Terminal
<1>a. \A a \in {"end", "submit", "hitl"} : a \in Actions /\ a \notin Workers \ {"submit"}
  BY DEF Actions, Workers
<1>1. CASE SupStops
  <2> DEFINE st == [Counted EXCEPT
       !.routeHistory = IF Spinning(s) THEN s.routeHistory ELSE @,
       !.status = IF Spinning(s) \/ OverLimit(s) THEN "failed" ELSE @,
       !.nextAction = "end"]
  <2>1. Kept(st) /\ st.hitl = s.hitl /\ st.nextAction = "end"
    BY <1>h, <1>c, <1>w, <1>a DEF Kept, CopilotState, SameRequest, SameFindings
  <2>2. AfterSupervisor(st) /\ UNCHANGED <<engine, base, saved, tickets, faults>>
    BY <1>1 DEF SupStops
  <2> HIDE DEF st
  <2> QED BY <1>a, <1>l, <2>1, <2>2
<1>2. CASE SupRefusesIntent \/ SupRefusesRun
  <2> DEFINE st == [Resumed EXCEPT !.status = "rejected", !.nextAction = "end"]
  <2>1. Kept(st) /\ st.hitl = s.hitl /\ st.nextAction = "end"
    BY <1>r, <1>w, <1>a DEF Kept, CopilotState, SameRequest, SameFindings
  <2>2. AfterSupervisor(st) /\ UNCHANGED <<engine, base, saved, tickets, faults>>
    BY <1>2 DEF SupRefusesIntent, SupRefusesRun, SupGoesOn
  <2> HIDE DEF st
  <2> QED BY <1>a, <1>l, <2>1, <2>2
<1>3. CASE SupChiefSaidNo
  <2> DEFINE st == [Resumed EXCEPT
       !.status = IF s.hitl.decision = "reject" THEN "rejected" ELSE "succeeded",
       !.rework = IF s.hitl.decision = "return" THEN TRUE ELSE @,
       !.eligible = FALSE,
       !.nextAction = "end"]
  <2>1. Kept(st) /\ st.hitl = s.hitl /\ st.nextAction = "end"
    BY <1>r, <1>w, <1>a DEF Kept, CopilotState, SameRequest, SameFindings
  <2>2. AfterSupervisor(st) /\ UNCHANGED <<engine, base, saved, tickets, faults>>
    BY <1>3 DEF SupChiefSaidNo, SupGoesOn
  <2> HIDE DEF st
  <2> QED BY <1>a, <1>l, <2>1, <2>2
<1>4. CASE SupDispatches
  <2> DEFINE st == [Resumed EXCEPT !.nextAction = MissingWorker(s)]
  <2>1. /\ MissingWorker(s) \in {"rag", "quality", "work_order", "parts"}
        /\ MissingWorker(s) = "parts" => ~s.parts.done
    BY <1>4 DEF SupDispatches, MissingWorker
  <2>2. Kept(st) /\ st.hitl = s.hitl /\ st.nextAction \notin {"submit", "hitl"}
        /\ (st.nextAction = "parts" => ~s.parts.done)
    BY <1>r, <2>1 DEF Kept, CopilotState, SameRequest, SameFindings, Actions, Workers
  <2>3. AfterSupervisor(st) /\ UNCHANGED <<engine, base, saved, tickets, faults>>
    BY <1>4 DEF SupDispatches, SupGoesOn
  <2> HIDE DEF st
  <2> QED BY <1>4, <1>l, <2>2, <2>3
<1>5. CASE SupAsksChief
  <2> DEFINE auto == AutoSubmitAfterGates(s)
             hitl == [Resumed.hitl EXCEPT !.required = TRUE, !.resolved = FALSE,
                          !.pending = ComputePendingLayers(s), !.confirmations = {}]
             st == [Resumed EXCEPT !.autoSubmit = auto, !.hitl = hitl,
                      !.status = "waiting_hitl", !.eligible = FALSE, !.nextAction = "hitl"]
  <2>1. ComputePendingLayers(s) \in SUBSET Layers
    BY DEF ComputePendingLayers, FactLayers, Layers
  <2>2. auto \in BOOLEAN /\ hitl \in Hitls
    BY <1>h, <1>r, <2>1 DEF Kept, AutoSubmitAfterGates, CopilotState, Hitls
  <2>3. AfterSupervisor(st) /\ UNCHANGED <<engine, base, saved, tickets, faults>>
    BY <1>5 DEF SupAsksChief, SupGoesOn
  <2>4. auto => s.autoSubmit
    BY DEF AutoSubmitAfterGates
  <2> HIDE DEF auto, hitl
  <2>5. Kept(st) /\ st.nextAction = "hitl"
    BY <1>r, <1>w, <1>a, <2>2, <2>4 DEF Kept, CopilotState, SameRequest, SameFindings
  <2> HIDE DEF st
  <2> QED BY <1>5, <1>a, <1>l, <2>3, <2>5
<1>6. CASE SupSubmits
  <2> DEFINE st == [Gated(Resumed) EXCEPT !.eligible = TRUE, !.nextAction = "submit"]
  <2>1. Kept(st) /\ st.hitl = s.hitl /\ st.nextAction = "submit"
    BY <1>g, <1>a DEF Kept, CopilotState, SameRequest, SameFindings
  <2>2. AfterSupervisor(st) /\ UNCHANGED <<engine, base, saved, tickets, faults>>
    BY <1>6 DEF SupSubmits, SupGoesOn
  <2>3. s.intent = "fault_dispatch"
    BY <1>6, <1>h DEF SupSubmits, MaySubmit, Gated, CopilotState
  <2> HIDE DEF st
  <2> QED BY <1>6, <1>a, <1>l, <2>1, <2>2, <2>3
<1>7. CASE SupFinishes
  <2> DEFINE from == IF AlreadySubmitted(s) THEN Resumed ELSE Gated(Resumed)
             elig == IF ~AlreadySubmitted(s) /\ s.intent = "fault_dispatch"
                       THEN EvaluateSubmitEligible(s) ELSE from.eligible
             st == [from EXCEPT !.eligible = elig, !.status = "succeeded", !.nextAction = "end"]
  <2>1. Kept(from) /\ from.hitl = s.hitl
    BY <1>r, <1>g
  <2>2. elig \in BOOLEAN
    BY <2>1 DEF Kept, EvaluateSubmitEligible, CopilotState
  <2>3. AfterSupervisor(st) /\ UNCHANGED <<engine, base, saved, tickets, faults>>
    BY <1>7 DEF SupFinishes, SupGoesOn
  <2> HIDE DEF from, elig
  <2>4. Kept(st) /\ st.hitl = s.hitl /\ st.nextAction = "end"
    BY <1>w, <1>a, <2>1, <2>2 DEF Kept, CopilotState, SameRequest, SameFindings
  <2> HIDE DEF st
  <2> QED BY <1>a, <1>l, <2>3, <2>4
<1> QED BY <1>1, <1>2, <1>3, <1>4, <1>5, <1>6, <1>7 DEF Supervisor

(* Asking the chief puts the layers of the moment into the question.       *)
LEMMA AskingFrame ==
  ASSUME TypeOK, SupAsksChief
  PROVE  s'.hitl = [s.hitl EXCEPT !.required = TRUE, !.resolved = FALSE,
                       !.pending = ComputePendingLayers(s), !.confirmations = {}]
<1> DEFINE hitl == [Resumed.hitl EXCEPT !.required = TRUE, !.resolved = FALSE,
                       !.pending = ComputePendingLayers(s), !.confirmations = {}]
           st == [Resumed EXCEPT !.autoSubmit = AutoSubmitAfterGates(s), !.hitl = hitl,
                    !.status = "waiting_hitl", !.eligible = FALSE, !.nextAction = "hitl"]
<1>1. AfterSupervisor(st)
  BY DEF SupAsksChief
<1>2. Resumed \in CopilotState
  BY ResumedType
<1>3. Resumed.hitl = s.hitl
  <2>1. Counted.hitl = s.hitl
    BY DEF Counted, TypeOK, CopilotState
  <2>2. Counted \in CopilotState
    BY ResumedType
  <2> QED BY <2>1, <2>2 DEF Resumed, Awake, CopilotState
<1> HIDE DEF hitl
<1>4. st.hitl = hitl /\ FallbackAfterSupervisor(st).hitl = st.hitl
  BY <1>2 DEF FallbackAfterSupervisor, CopilotState
<1> HIDE DEF st
<1>5. s'.hitl = hitl
  BY <1>1, <1>4 DEF AfterSupervisor
<1> QED BY <1>3, <1>5 DEF hitl

(* A worker keeps the request, the question and the chief's answer.        *)
LEMMA WorkerFrame ==
  ASSUME TypeOK, Worker
  PROVE  /\ SameRequest(s', s) /\ s'.hitl = s.hitl /\ s'.iteration = s.iteration
         /\ node' \in {"supervisor", "end"}
         /\ UNCHANGED <<engine, base, saved, streak, faults>>
<1>h. s \in CopilotState
  BY DEF TypeOK
(* The states a worker hands on are copies of s that keep these fields.    *)
<1>l. ASSUME NEW st, AfterWorker(st),
             /\ st.role = s.role /\ st.intent = s.intent /\ st.ticket = s.ticket
             /\ st.maxIterations = s.maxIterations /\ st.iteration = s.iteration
             /\ st.hitl = s.hitl,
             DOMAIN st = DOMAIN s,
             UNCHANGED <<engine, base, saved, streak, faults>>
      PROVE  /\ SameRequest(s', s) /\ s'.hitl = s.hitl /\ s'.iteration = s.iteration
             /\ node' \in {"supervisor", "end"}
             /\ UNCHANGED <<engine, base, saved, streak, faults>>
  <2>1. s' = st \/ s' = [st EXCEPT !.nextAction = "supervisor"]
    BY <1>l DEF AfterWorker
  <2>2. node' \in {"supervisor", "end"}
    BY <1>l DEF AfterWorker
  <2>3. CASE s' = st
    BY <1>l, <2>2, <2>3 DEF SameRequest
  <2>4. CASE s' = [st EXCEPT !.nextAction = "supervisor"]
    BY <1>h, <1>l, <2>2, <2>4 DEF SameRequest, CopilotState
  <2> QED BY <2>1, <2>3, <2>4
<1>1. CASE RagAnswered
  BY <1>1, <1>h, <1>l DEF RagAnswered, CopilotState
<1>2. CASE RagRetrieved
  BY <1>2, <1>h, <1>l DEF RagRetrieved, CopilotState
<1>3. CASE RagFailed
  BY <1>3, <1>h, <1>l DEF RagFailed, Failed, CopilotState
<1>4. CASE QualityChecked
  BY <1>4, <1>h, <1>l DEF QualityChecked, CopilotState
<1>5. CASE WorkOrderDrafted
  BY <1>5, <1>h, <1>l DEF WorkOrderDrafted, CopilotState
<1>6. CASE WorkOrderFailed
  BY <1>6, <1>h, <1>l DEF WorkOrderFailed, Failed, CopilotState
<1>7. CASE PartsChecked
  BY <1>7, <1>h, <1>l DEF PartsChecked, CopilotState
<1>8. CASE Submitted
  BY <1>8, <1>h, <1>l DEF Submitted, CopilotState
<1>9. CASE SubmitFailed
  BY <1>9, <1>h, <1>l DEF SubmitFailed, Failed, CopilotState
<1> QED BY <1>1, <1>2, <1>3, <1>4, <1>5, <1>6, <1>7, <1>8, <1>9 DEF Worker

(* The chief's decision is written into the run and into the state the     *)
(* engine is handed, and nothing else is.                                  *)
LEMMA ChiefFrame ==
  ASSUME TypeOK, ChiefDecides
  PROVE  /\ s'.hitl = base'.hitl /\ s'.hitl.resolved /\ s'.hitl.decision # "none"
         /\ SameRequest(s', s) /\ SameFindings(s', s) /\ s'.iteration = s.iteration
         /\ SameRequest(base', s) /\ SameFindings(base', s)
         /\ node' = "supervisor"
         /\ UNCHANGED <<saved, tickets, streak, faults>>
<1>h. s \in CopilotState
  BY DEF TypeOK
<1>1. PICK d \in Decisions \ {"none"}, ticked \in Confirmations :
        LET hitl == [s.hitl EXCEPT !.required = TRUE, !.resolved = TRUE,
                                   !.decision = d, !.confirmations = ticked]
        IN  /\ base' = [s EXCEPT !.hitl = hitl]
            /\ s' = [s EXCEPT !.hitl = hitl, !.status = "running",
                              !.nextAction = "supervisor"]
  BY DEF ChiefDecides
<1> DEFINE hitl == [s.hitl EXCEPT !.required = TRUE, !.resolved = TRUE,
                                  !.decision = d, !.confirmations = ticked]
<1>2. hitl.resolved /\ hitl.decision # "none"
  BY <1>h DEF CopilotState, Hitls
<1>3. /\ base' = [s EXCEPT !.hitl = hitl]
      /\ s' = [s EXCEPT !.hitl = hitl, !.status = "running", !.nextAction = "supervisor"]
  BY <1>1
<1>4. node' = "supervisor" /\ UNCHANGED <<saved, tickets, streak, faults>>
  BY DEF ChiefDecides
<1> HIDE DEF hitl
<1> QED BY <1>h, <1>2, <1>3, <1>4 DEF CopilotState, SameRequest, SameFindings

-----------------------------------------------------------------------------
(* A decision stands.                                                      *)

(* The chief is only heard once, and from then on the state the engine     *)
(* would fall back to holds the decision as well.                          *)
DecisionKept ==
  /\ node = "paused" => ~s.hitl.resolved
  /\ s.hitl.resolved => base.hitl = s.hitl

(* No step changes a decision, nor the copy the engine goes back to.       *)
LEMMA DecisionStep ==
  ASSUME TypeOK, DecisionKept, [Next]_vars
  PROVE  DecisionKept' /\ (s.hitl.resolved => s'.hitl = s.hitl)
<1>h. s \in CopilotState /\ base \in CopilotState
  BY DEF TypeOK
<1>1. CASE Supervisor
  <2>1. CASE SupAsksChief
    <3>1. ~s.hitl.resolved
      BY <2>1 DEF SupAsksChief
    <3>2. node' # "paused"
      BY <1>1, SupervisorFrame
    <3>3. ~s'.hitl.resolved
      BY <2>1, <1>h, AskingFrame DEF CopilotState, Hitls
    <3> QED BY <3>1, <3>2, <3>3 DEF DecisionKept
  <2>2. CASE ~SupAsksChief
    <3>1. s'.hitl = s.hitl /\ node' # "paused" /\ base' = base
      BY <1>1, <2>2, SupervisorFrame
    <3> QED BY <3>1 DEF DecisionKept
  <2> QED BY <2>1, <2>2
<1>2. CASE Worker
  <2>1. s'.hitl = s.hitl /\ node' # "paused" /\ base' = base
    BY <1>2, WorkerFrame
  <2> QED BY <2>1 DEF DecisionKept
<1>3. CASE Pauses
  BY <1>3 DEF Pauses, DecisionKept
<1>4. CASE ChiefDecides
  <2>1. ~s.hitl.resolved /\ node' # "paused"
    BY <1>4 DEF ChiefDecides, DecisionKept
  <2>2. base'.hitl = s'.hitl
    BY <1>4, ChiefFrame
  <2> QED BY <2>1, <2>2 DEF DecisionKept
<1>5. CASE HitlResolved
  <2>1. s'.hitl = s.hitl /\ node' # "paused" /\ base' = base
    BY <1>5, <1>h DEF HitlResolved, AfterWorker, CopilotState
  <2> QED BY <2>1 DEF DecisionKept
<1>6. CASE EngineRaises
  <2>1. s'.hitl = base.hitl /\ node' # "paused" /\ base' = base
    BY <1>6, <1>h DEF EngineRaises, Failed, CopilotState
  <2> QED BY <2>1 DEF DecisionKept
<1>7. CASE Finishes
  BY <1>7 DEF Finishes, DecisionKept
<1>8. CASE UNCHANGED vars
  BY <1>8 DEF vars, DecisionKept
<1> QED BY <1>1, <1>2, <1>3, <1>4, <1>5, <1>6, <1>7, <1>8 DEF Next, Step

(* A chief's decision is never dropped or replaced within a run, not even  *)
(* when the resumed graph raises and the fallback engine starts over.      *)
THEOREM DecisionsAreKept == Spec => DecisionStands
<1>1. Init => DecisionKept
  BY DEF Init, InitialState, NoHitl, DecisionKept
<1>2. TypeOK /\ DecisionKept /\ [Next]_vars
        => DecisionKept' /\ [s.hitl.resolved => s'.hitl = s.hitl]_vars
  BY DecisionStep
<1> QED BY <1>1, <1>2, TypesAreKept, PTL DEF Spec, DecisionStands

-----------------------------------------------------------------------------
(* No ticket before the gate is passed.                                    *)

(* What keeps the three evaluations of the gate in agreement: a decision   *)
(* resolves, the findings carry what the knowledge source said, and a      *)
(* quality check forces the chief's confirmation only for a fact that      *)
(* raises a layer of its own.                                              *)
Coherent(st) ==
  /\ st.hitl.resolved <=> st.hitl.decision # "none"
  /\ st.rag.degraded => st.degraded
  /\ st.rag.conflicts => st.conflict
  /\ st.critic.forceHitl => FactLayers(st) # {}
  /\ ~st.parts.done => st.parts = NoParts

GateInv ==
  /\ Coherent(s) /\ Coherent(base)
  /\ node = "submit" => s.intent = "fault_dispatch"
  /\ node = "parts" => ~s.parts.done
  /\ GatedTickets

(* An eligible dispatch has every raised layer confirmed, or raises none.  *)
LEMMA EligibleIsGated ==
  ASSUME NEW st \in CopilotState, Coherent(st), st.intent = "fault_dispatch",
         EvaluateSubmitEligible(st)
  PROVE  GatedTicket(TicketOf(st))
<1>1. ComputePendingLayers(st) = FactLayers(st)
  BY DEF Coherent, ComputePendingLayers
<1>2. \A l \in FactLayers(st) : LayerConfirmed(st.hitl, l)
  BY DEF EvaluateSubmitEligible, Blocked, FactLayers, Layers
<1>3. CASE FactLayers(st) = {} /\ ~Approved(st.hitl)
  <2>1. CanSubmit(st.role)
    BY <1>3 DEF EvaluateSubmitEligible, Blocked
  <2>2. st.hitl.decision = "none"
    BY <1>3 DEF EvaluateSubmitEligible, Blocked, Coherent, Approved, CopilotState, Hitls, Decisions
  <2> QED BY <1>1, <1>3, <2>1, <2>2 DEF GatedTicket, TicketOf, CanSubmit
<1>4. CASE Approved(st.hitl)
  BY <1>1, <1>2, <1>4 DEF GatedTicket, TicketOf, Approved, LayerConfirmed
<1>5. CASE FactLayers(st) # {}
  <2>1. Approved(st.hitl)
    BY <1>2, <1>5 DEF LayerConfirmed
  <2> QED BY <1>4, <2>1
<1> QED BY <1>3, <1>4, <1>5

(* The quality check forces a confirmation only for a reason to ask.       *)
LEMMA ForcedForAReason ==
  ASSUME NEW st \in CopilotState, Coherent(st), RunQualityChecks(st).forceHitl
  PROVE  FactLayers(st) # {}
<1>1. \/ st.degraded \/ st.conflict \/ st.intent = "conflict_review"
      \/ st.parts.shortage \/ st.parts.unverified
  BY DEF RunQualityChecks, ConflictPresent, Coherent
<1>2. \E l \in {"degrade", "conflict", "shortage", "ledger"} : l \in FactLayers(st)
  BY <1>1 DEF FactLayers, Layers
<1> QED BY <1>2

(* A copy that agrees on request, findings and question is as coherent.    *)
LEMMA CoherentCopy ==
  ASSUME NEW a, NEW b, SameRequest(a, b), SameFindings(a, b), Coherent(b),
         a.hitl.resolved <=> a.hitl.decision # "none"
  PROVE  Coherent(a)
BY DEF Coherent, SameRequest, SameFindings, FactLayers, SlaRaised, WeatherRaised, VagueDispatch

(* Workers keep the run coherent: an answer wipes the report it outdates,  *)
(* and each report is made of the findings of the moment.                  *)
LEMMA WorkerCoherent ==
  ASSUME TypeOK, Coherent(s), node = "parts" => ~s.parts.done, Worker
  PROVE  Coherent(s')
<1>h. s \in CopilotState
  BY DEF TypeOK
<1>0. s' \in CopilotState /\ s'.hitl = s.hitl /\ SameRequest(s', s)
  BY WorkerType, WorkerFrame DEF TypeOK
<1>1. CASE RagAnswered
  <2>1. /\ s'.degraded = s'.rag.degraded /\ s'.critic = NoReport /\ s'.parts = s.parts
        /\ s'.rag.conflicts => s'.conflict
    <3>1. PICK r \in RagResults :
            AfterWorker([s EXCEPT
              !.rag = r,
              !.degraded = r.degraded,
              !.autoSubmit = @ /\ ~r.degraded,
              !.conflict = @ \/ r.conflicts \/ s.intent = "conflict_review",
              !.draft = IF @ = "none" /\ s.intent = "fault_dispatch" /\ CanCreateDraft(s.role)
                          THEN r.workOrder ELSE @,
              !.critic = NoReport])
      BY <1>1 DEF RagAnswered
    <3>2. /\ s'.rag = r /\ s'.degraded = r.degraded /\ s'.critic = NoReport
          /\ s'.parts = s.parts
          /\ s'.conflict = (s.conflict \/ r.conflicts \/ s.intent = "conflict_review")
      BY <1>h, <3>1 DEF AfterWorker, CopilotState
    <3> QED BY <3>2
  <2> QED BY <1>0, <2>1 DEF Coherent, NoReport
<1>2. CASE RagRetrieved
  <2>1. s'.degraded /\ s'.critic = NoReport /\ s'.rag = RetrieveOnly /\ s'.parts = s.parts
    BY <1>2, <1>h DEF RagRetrieved, AfterWorker, CopilotState
  <2> QED BY <1>0, <2>1 DEF Coherent, NoReport, RetrieveOnly, NoAnswer
<1>3. CASE RagFailed
  <2>1. s'.degraded /\ s'.rag = s.rag /\ s'.conflict = s.conflict /\ s'.parts = s.parts
    BY <1>3, <1>h DEF RagFailed, Failed, AfterWorker, CopilotState
  <2>2. "degrade" \in FactLayers(s')
    BY <2>1 DEF FactLayers, Layers
  <2> QED BY <1>0, <2>1, <2>2 DEF Coherent
<1>4. CASE QualityChecked
  <2>1. s'.critic = RunQualityChecks(s) /\ SameFindings([s' EXCEPT !.critic = s.critic], s)
    BY <1>4, <1>h, <1>0 DEF QualityChecked, AfterWorker, CopilotState, SameFindings
  <2>2. FactLayers(s') = FactLayers(s)
    BY <1>0, <2>1 DEF FactLayers, SameRequest, SameFindings, SlaRaised, WeatherRaised,
                      VagueDispatch, CopilotState
  <2>3. /\ s'.rag = s.rag /\ s'.degraded = s.degraded /\ s'.conflict = s.conflict
        /\ s'.parts = s.parts
    BY <1>0, <2>1 DEF SameFindings, CopilotState
  <2> QED BY <1>h, <1>0, <2>1, <2>2, <2>3, ForcedForAReason DEF Coherent
<1>5. CASE WorkOrderDrafted
  <2>1. PICK d \in (IF s.draft = "none" THEN Drafts \ {"none"} ELSE {s.draft}) :
          AfterWorker([s EXCEPT !.draft = d, !.critic = RunQualityChecks([s EXCEPT !.draft = d])])
    BY <1>5 DEF WorkOrderDrafted
  <2> DEFINE drafted == [s EXCEPT !.draft = d]
  <2>2. drafted \in CopilotState /\ Coherent(drafted)
    BY <1>h DEF CopilotState, Coherent, FactLayers, SlaRaised, WeatherRaised, VagueDispatch
  <2>3. s'.critic = RunQualityChecks(drafted)
    BY <1>h, <2>1 DEF AfterWorker, CopilotState
  <2>4. /\ s'.rag = s.rag /\ s'.degraded = s.degraded /\ s'.conflict = s.conflict
        /\ s'.parts = s.parts
    BY <1>h, <2>1 DEF AfterWorker, CopilotState
  <2>5. FactLayers(s') = FactLayers(drafted)
    BY <1>0, <1>h, <2>4 DEF FactLayers, SameRequest, SlaRaised, WeatherRaised,
                             VagueDispatch, CopilotState
  <2> HIDE DEF drafted
  <2> QED BY <1>0, <2>2, <2>3, <2>4, <2>5, ForcedForAReason DEF Coherent
<1>6. CASE WorkOrderFailed \/ Submitted \/ SubmitFailed
  <2>1. /\ s'.rag = s.rag /\ s'.degraded = s.degraded /\ s'.conflict = s.conflict
        /\ s'.critic = s.critic /\ s'.parts = s.parts
    <3>1. CASE WorkOrderFailed
      BY <3>1, <1>h DEF WorkOrderFailed, Failed, AfterWorker, CopilotState
    <3>2. CASE Submitted
      BY <3>2, <1>h DEF Submitted, AfterWorker, CopilotState
    <3>3. CASE SubmitFailed
      BY <3>3, <1>h DEF SubmitFailed, Failed, AfterWorker, CopilotState
    <3> QED BY <1>6, <3>1, <3>2, <3>3
  <2>2. FactLayers(s') = FactLayers(s)
    BY <1>0, <2>1 DEF FactLayers, SameRequest, SlaRaised, WeatherRaised, VagueDispatch
  <2> QED BY <1>0, <2>1, <2>2 DEF Coherent
<1>7. CASE PartsChecked
  <2>1. /\ s'.rag = s.rag /\ s'.degraded = s.degraded /\ s'.conflict = s.conflict
        /\ s'.critic = s.critic /\ s'.parts \in PartsResults
    BY <1>7, <1>h DEF PartsChecked, AfterWorker, CopilotState
  <2>2. s.parts = NoParts
    BY <1>7 DEF PartsChecked, Enter, Coherent
  <2>3. FactLayers(s) \subseteq FactLayers(s')
    BY <1>0, <2>1, <2>2 DEF FactLayers, SameRequest, SlaRaised, WeatherRaised, VagueDispatch, NoParts
  <2>4. s'.parts.done
    BY <2>1, WorldAssumption
  <2> QED BY <1>0, <2>1, <2>3, <2>4 DEF Coherent
<1> QED BY <1>1, <1>2, <1>3, <1>4, <1>5, <1>6, <1>7 DEF Worker

(* One more gated ticket at the destination, or a replay of the first.     *)
LEMMA DeliverGated ==
  ASSUME TypeOK, GatedTickets, GatedTicket(TicketOf(s))
  PROVE  \A i \in DOMAIN Deliver(TicketOf(s)) : GatedTicket(Deliver(TicketOf(s))[i])
<1> DEFINE t == TicketOf(s)
           more == Append(tickets, t)
<1>1. tickets \in Seq(TicketType)
  BY DEF TypeOK
<1>2. t \in TicketType
  <2>1. ComputePendingLayers(s) \in SUBSET Layers
    BY DEF ComputePendingLayers, FactLayers, Layers
  <2> QED BY <2>1 DEF TypeOK, TicketOf, TicketType, CopilotState, Hitls
<1>3. GatedTicket(t)
  OBVIOUS
<1> HIDE DEF t
<1>4. /\ DOMAIN more = 1 .. Len(tickets) + 1 /\ more[Len(tickets) + 1] = t
      /\ \A i \in 1 .. Len(tickets) : more[i] = tickets[i]
      /\ DOMAIN tickets = 1 .. Len(tickets) /\ Len(tickets) \in Nat
  BY <1>1, <1>2, AppendProperties, LenProperties
<1>5. \A i \in DOMAIN more : GatedTicket(more[i])
  BY <1>3, <1>4 DEF GatedTickets
<1> QED BY <1>5 DEF Deliver, GatedTickets, t

(* Every step keeps reports coherent and tickets behind the gate.          *)
LEMMA GateStep ==
  ASSUME TypeOK, GateInv, [Next]_vars
  PROVE  GateInv'
<1>h. s \in CopilotState /\ base \in CopilotState
  BY DEF TypeOK
<1>1. CASE Supervisor
  <2>1. /\ SameRequest(s', s) /\ SameFindings(s', s)
        /\ node' = "submit" => s.intent = "fault_dispatch"
        /\ node' = "parts" => ~s.parts.done
        /\ base' = base /\ tickets' = tickets
    BY <1>1, SupervisorFrame
  <2>2. s'.hitl.resolved <=> s'.hitl.decision # "none"
    <3>1. CASE SupAsksChief
      <4>1. ~s.hitl.resolved
        BY <3>1 DEF SupAsksChief
      <4> QED BY <1>h, <3>1, <4>1, AskingFrame DEF GateInv, Coherent, CopilotState, Hitls
    <3>2. CASE ~SupAsksChief
      BY <1>1, <3>2, SupervisorFrame DEF GateInv, Coherent
    <3> QED BY <3>1, <3>2
  <2>3. Coherent(s')
    BY <2>1, <2>2, CoherentCopy DEF GateInv
  <2> QED BY <2>1, <2>3 DEF GateInv, GatedTickets, SameRequest, SameFindings
<1>2. CASE Worker
  <2>1. Coherent(s')
    BY <1>2, WorkerCoherent DEF GateInv
  <2>2. node' \in {"supervisor", "end"} /\ base' = base
    BY <1>2, WorkerFrame
  <2>3. tickets' \in {tickets, Deliver(TicketOf(s))}
    BY <1>2 DEF Worker, RagAnswered, RagRetrieved, RagFailed, QualityChecked, WorkOrderDrafted,
                WorkOrderFailed, PartsChecked, Submitted, SubmitFailed
  <2>4. CASE tickets' = tickets
    BY <2>1, <2>2, <2>4 DEF GateInv, GatedTickets
  <2>5. CASE tickets' # tickets
    <3>1. node = "submit" /\ EvaluateSubmitEligible(s)
      BY <1>2, <2>5 DEF Worker, RagAnswered, RagRetrieved, RagFailed, QualityChecked,
            WorkOrderDrafted, WorkOrderFailed, PartsChecked, Submitted, SubmitFailed, Enter
    <3>2. GatedTicket(TicketOf(s))
      BY <1>h, <3>1, EligibleIsGated DEF GateInv
    <3>3. GatedTickets'
      BY <2>3, <2>5, <3>2, DeliverGated DEF GateInv, GatedTickets
    <3> QED BY <2>1, <2>2, <3>3 DEF GateInv
  <2> QED BY <2>4, <2>5
<1>3. CASE ChiefDecides
  <2>1. /\ s'.hitl = base'.hitl /\ s'.hitl.resolved /\ s'.hitl.decision # "none"
        /\ SameRequest(s', s) /\ SameFindings(s', s)
        /\ SameRequest(base', s) /\ SameFindings(base', s)
        /\ node' = "supervisor" /\ tickets' = tickets
    BY <1>3, ChiefFrame
  <2>2. Coherent(s') /\ Coherent(base')
    BY <2>1, CoherentCopy DEF GateInv
  <2> QED BY <2>1, <2>2 DEF GateInv, GatedTickets
<1>4. CASE HitlResolved
  <2>1. /\ s'.hitl = s.hitl /\ SameRequest(s', s) /\ SameFindings(s', s)
        /\ node' \in {"supervisor", "end"}
        /\ base' = base /\ tickets' = tickets
    <3> DEFINE st == [s EXCEPT !.status = "running", !.nextAction = "supervisor"]
    <3>1. st \in CopilotState
      BY <1>h DEF CopilotState, Statuses, Actions
    <3>2. st.hitl = s.hitl /\ SameRequest(st, s) /\ SameFindings(st, s)
      BY <1>h DEF CopilotState, SameRequest, SameFindings
    <3>3. AfterWorker(st) /\ base' = base /\ tickets' = tickets
      BY <1>4 DEF HitlResolved
    <3> HIDE DEF st
    <3> QED BY <3>1, <3>2, <3>3, LeavingWorker DEF SameRequest, SameFindings
  <2>2. Coherent(s')
    BY <2>1, CoherentCopy DEF GateInv, Coherent
  <2> QED BY <2>1, <2>2 DEF GateInv, GatedTickets
<1>5. CASE EngineRaises
  <2>1. /\ s'.hitl = base.hitl /\ SameRequest(s', base) /\ SameFindings(s', base)
        /\ node' \notin {"submit", "parts"}
        /\ base' = base /\ tickets' = tickets
    BY <1>5, <1>h DEF EngineRaises, Failed, CopilotState, SameRequest, SameFindings
  <2>2. Coherent(s')
    BY <2>1, CoherentCopy DEF GateInv, Coherent
  <2> QED BY <2>1, <2>2 DEF GateInv, GatedTickets
<1>6. CASE Pauses \/ Finishes \/ UNCHANGED vars
  BY <1>6 DEF Pauses, Finishes, vars, GateInv, GatedTickets
<1> QED BY <1>1, <1>2, <1>3, <1>4, <1>5, <1>6 DEF Next, Step

(* A ticket reaches the destination only after a chief approved and ticked *)
(* every layer the facts of the run raise, or by itself for a chief's own  *)
(* request that raises none (policy/gates.py, graph/nodes.py submit_node). *)
THEOREM NoTicketBeforeTheGate == Spec => []GatedTickets
<1>1. Init => GateInv
  <2> SUFFICES ASSUME Init PROVE GateInv
    OBVIOUS
  <2>1. PICK r \in Requests : s = InitialState(r)
    BY DEF Init
  <2>2. Coherent(s)
    BY <2>1 DEF InitialState, Coherent, NoHitl, NoAnswer, NoReport
  <2> QED BY <2>2 DEF Init, GateInv, GatedTickets
<1>2. TypeOK /\ GateInv /\ [Next]_vars => GateInv'
  BY GateStep
<1>3. GateInv => GatedTickets
  BY DEF GateInv
<1> QED BY <1>1, <1>2, <1>3, TypesAreKept, PTL DEF Spec

-----------------------------------------------------------------------------
(* What the chief is asked is enough.                                      *)

AskInv ==
  /\ node \in {"human_confirm", "paused"} /\ ~s.hitl.resolved =>
       /\ s.intent = "fault_dispatch" => s.draft # "none"
       /\ s.critic.done => s.critic.passed
       /\ s.hitl.pending = ComputePendingLayers(s)
  /\ base.nextAction = "hitl" => base.hitl.resolved

(* A run with a sound draft, asked about every layer it raises, is         *)
(* eligible once exactly those layers are confirmed.                       *)
LEMMA AskingAllIsEnough ==
  ASSUME NEW st \in CopilotState,
         st.draft # "none", st.critic.done => st.critic.passed,
         st.hitl.pending = ComputePendingLayers(st), st.intent = "fault_dispatch"
  PROVE  EvaluateSubmitEligible(ApprovedAsAsked(st))
<1> DEFINE hitl == [st.hitl EXCEPT !.resolved = TRUE, !.decision = "approve",
                                   !.confirmations = LayersAsked(st)]
           ok == ApprovedAsAsked(st)
<1>1. /\ hitl.resolved /\ hitl.decision = "approve" /\ hitl.confirmations = LayersAsked(st)
  BY DEF CopilotState, Hitls
<1>2. /\ SameRequest(ok, st) /\ SameFindings(ok, st) /\ ok.hitl = hitl
  BY DEF ApprovedAsAsked, CopilotState, SameRequest, SameFindings
<1>3. FactLayers(st) \subseteq LayersAsked(st)
  BY DEF LayersAsked, ComputePendingLayers
<1>4. \A l \in FactLayers(st) : LayerConfirmed(ok.hitl, l)
  BY <1>1, <1>2, <1>3 DEF LayerConfirmed, Approved
<1>5. Approved(ok.hitl) /\ ok.hitl.resolved /\ ok.hitl.decision = "approve"
  BY <1>1, <1>2 DEF Approved
<1> HIDE DEF ok, hitl
<1>6. FactLayers(ok) = FactLayers(st)
  BY <1>2 DEF FactLayers, SameRequest, SameFindings, SlaRaised, WeatherRaised, VagueDispatch
<1>7. ok.draft # "none" /\ (ok.critic.done => ok.critic.passed) /\ ok.intent = "fault_dispatch"
  BY <1>2 DEF SameRequest, SameFindings
<1>8. ~Blocked(ok)
  BY <1>4, <1>5, <1>6, <1>7 DEF Blocked, FactLayers, Layers
<1> QED BY <1>8 DEF EvaluateSubmitEligible, ok

(* What the chief is shown stays what the facts raise.                     *)
LEMMA AskStep ==
  ASSUME TypeOK, AskInv, [Next]_vars
  PROVE  AskInv'
<1>h. s \in CopilotState /\ base \in CopilotState
  BY DEF TypeOK
<1>1. CASE Supervisor
  <2>1. node' # "paused" /\ base' = base /\ SameRequest(s', s) /\ SameFindings(s', s)
    BY <1>1, SupervisorFrame
  <2>2. CASE SupAsksChief
    <3>1. Complete(s)
      BY <2>2 DEF SupAsksChief
    <3>2. /\ s.intent = "fault_dispatch" => s.draft # "none"
          /\ s.critic.done => s.critic.passed
      BY <3>1 DEF Complete, QualityRefused, MissingWorker
    <3>3. s'.hitl.pending = ComputePendingLayers(s)
      BY <1>h, <2>2, AskingFrame DEF CopilotState, Hitls
    <3>4. ComputePendingLayers(s') = ComputePendingLayers(s)
      BY <2>1 DEF ComputePendingLayers, FactLayers, SameRequest, SameFindings, SlaRaised,
                  WeatherRaised, VagueDispatch
    <3> QED BY <2>1, <3>2, <3>3, <3>4 DEF AskInv, SameRequest, SameFindings
  <2>3. CASE ~SupAsksChief
    <3>1. node' # "human_confirm"
      BY <1>1, <2>3, SupervisorFrame
    <3> QED BY <2>1, <3>1 DEF AskInv
  <2> QED BY <2>2, <2>3
<1>2. CASE Worker
  <2>1. node' \in {"supervisor", "end"} /\ base' = base
    BY <1>2, WorkerFrame
  <2> QED BY <2>1 DEF AskInv
<1>3. CASE ChiefDecides
  <2>1. base'.hitl.resolved /\ node' = "supervisor"
    BY <1>3, ChiefFrame
  <2> QED BY <2>1 DEF AskInv
<1>4. CASE Pauses
  BY <1>4 DEF Pauses, Enter, AskInv
<1>5. CASE HitlResolved
  BY <1>5 DEF HitlResolved, AfterWorker, AskInv
<1>6. CASE EngineRaises
  <2>1. base' = base /\ s'.hitl = base.hitl
    BY <1>6, <1>h DEF EngineRaises, Failed, CopilotState
  <2>2. node' # "paused" /\ (node' = "human_confirm" => base.nextAction = "hitl")
    BY <1>6 DEF EngineRaises
  <2> QED BY <2>1, <2>2 DEF AskInv
<1>7. CASE Finishes \/ UNCHANGED vars
  BY <1>7 DEF Finishes, vars, AskInv
<1> QED BY <1>1, <1>2, <1>3, <1>4, <1>5, <1>6, <1>7 DEF Next, Step

(* Whenever a dispatch waits for the chief, confirming exactly the layers  *)
(* shown lifts every blocker evaluate_submit_eligible knows.               *)
THEOREM TheQuestionSuffices == Spec => []AskIsEnough
<1>1. Init => AskInv
  BY DEF Init, InitialState, AskInv
<1>2. TypeOK /\ AskInv /\ [Next]_vars => AskInv'
  BY AskStep
<1>3. TypeOK /\ AskInv /\ (node = "paused" => ~s.hitl.resolved) => AskIsEnough
  BY AskingAllIsEnough DEF TypeOK, AskInv, AskIsEnough
<1>4. Init => DecisionKept
  BY DEF Init, InitialState, NoHitl, DecisionKept
<1>5. TypeOK /\ DecisionKept /\ [Next]_vars => DecisionKept'
  BY DecisionStep
<1>6. DecisionKept => (node = "paused" => ~s.hitl.resolved)
  BY DEF DecisionKept
<1> QED BY <1>1, <1>2, <1>3, <1>4, <1>5, <1>6, TypesAreKept, PTL DEF Spec

-----------------------------------------------------------------------------
(* Failing workers.                                                        *)

(* The passes counted so far bound the calls of one worker in a row, and   *)
(* the limit bounds the passes that dispatch; a graph that raised may have *)
(* put the count back, but then nothing runs any more or the row starts    *)
(* anew.                                                                   *)
RetryInv ==
  /\ base.maxIterations = s.maxIterations
  /\ streak.count <= s.maxIterations
  /\ node # "done" => streak.count <= s.iteration

(* Every dispatch in a row has cost a pass.                                *)
LEMMA RetryStep ==
  ASSUME TypeOK, RetryInv, [Next]_vars
  PROVE  RetryInv'
<1>h. s \in CopilotState /\ base \in CopilotState
  BY DEF TypeOK
<1>n. /\ s.iteration \in Nat /\ s.maxIterations \in Nat \ {0} /\ base.iteration \in Nat
      /\ streak.count \in Nat
  BY DEF TypeOK, CopilotState
<1>1. CASE Supervisor
  <2>1. /\ s'.maxIterations = s.maxIterations /\ s'.iteration = s.iteration + 1
        /\ base' = base /\ streak'.count \in {streak.count, streak.count + 1, 1}
        /\ node' # "done" /\ node = "supervisor"
    BY <1>1, SupervisorFrame
       DEF SameRequest, Supervisor, SupStops, SupRefusesIntent, SupChiefSaidNo, SupRefusesRun,
           SupDispatches, SupAsksChief, SupSubmits, SupFinishes, SupGoesOn, Enter
  <2>2. CASE SupStops
    <3> DEFINE st == [Counted EXCEPT
         !.routeHistory = IF Spinning(s) THEN s.routeHistory ELSE @,
         !.status = IF Spinning(s) \/ OverLimit(s) THEN "failed" ELSE @,
         !.nextAction = "end"]
    <3>1. st \in CopilotState /\ st.nextAction = "end"
      <4>1. Counted \in CopilotState
        BY ResumedType
      <4>2. "failed" \in Statuses /\ "end" \in Actions
        BY DEF Statuses, Terminal, Actions
      <4> QED BY <1>h, <4>1, <4>2 DEF CopilotState
    <3>2. AfterSupervisor(st)
      BY <2>2 DEF SupStops
    <3> HIDE DEF st
    <3>3. streak' = streak
      BY <3>1, <3>2, LeavingSupervisor
    <3> QED BY <1>n, <2>1, <3>3 DEF RetryInv
  <2>3. CASE ~SupStops
    <3>1. s.iteration + 1 <= s.maxIterations
      BY <1>1, <1>n, <2>3
         DEF Supervisor, SupRefusesIntent, SupChiefSaidNo, SupRefusesRun, SupDispatches,
             SupAsksChief, SupSubmits, SupFinishes, SupGoesOn, OverLimit
    <3> QED BY <1>n, <2>1, <3>1 DEF RetryInv
  <2> QED BY <2>2, <2>3
<1>2. CASE Worker
  <2>1. /\ s'.maxIterations = s.maxIterations /\ s'.iteration = s.iteration
        /\ base' = base /\ streak' = streak /\ node # "done"
    BY <1>2, WorkerFrame
       DEF SameRequest, Worker, RagAnswered, RagRetrieved, RagFailed, QualityChecked,
           WorkOrderDrafted, WorkOrderFailed, PartsChecked, Submitted, SubmitFailed, Enter
  <2> QED BY <2>1 DEF RetryInv
<1>3. CASE ChiefDecides
  <2>1. /\ s'.maxIterations = s.maxIterations /\ base'.maxIterations = s.maxIterations
        /\ s'.iteration = s.iteration /\ streak' = streak
    BY <1>3, ChiefFrame DEF SameRequest
  <2>2. node # "done"
    BY <1>3 DEF ChiefDecides
  <2> QED BY <2>1, <2>2 DEF RetryInv
<1>4. CASE HitlResolved
  <2>1. /\ s'.maxIterations = s.maxIterations /\ s'.iteration = s.iteration
        /\ base' = base /\ streak' = streak /\ node # "done"
    BY <1>4, <1>h DEF HitlResolved, AfterWorker, Enter, CopilotState
  <2> QED BY <2>1 DEF RetryInv
<1>5. CASE EngineRaises
  <2>1. /\ s'.maxIterations = base.maxIterations /\ s'.iteration = base.iteration
        /\ base' = base
        /\ \/ node' = "done" /\ streak' = streak
           \/ streak' = [worker |-> "none", count |-> 0]
    BY <1>5, <1>h DEF EngineRaises, Failed, CopilotState
  <2> QED BY <1>n, <2>1 DEF RetryInv
<1>6. CASE Pauses \/ Finishes \/ UNCHANGED vars
  BY <1>6 DEF Pauses, Finishes, Enter, vars, RetryInv
<1> QED BY <1>1, <1>2, <1>3, <1>4, <1>5, <1>6 DEF Next, Step

(* The supervisor's pass limit bounds how often a failing worker is called *)
(* again, although the cycle check never sees it.                          *)
THEOREM RetriesAreBounded == Spec => []RetriesBounded
<1>1. Init => RetryInv
  <2> SUFFICES ASSUME Init PROVE RetryInv
    OBVIOUS
  <2>1. PICK r \in Requests : s = InitialState(r)
    BY DEF Init
  <2>2. r.maxIterations \in Nat \ {0}
    BY RequestAssumption
  <2> QED BY <2>1, <2>2 DEF Init, InitialState, RetryInv
<1>2. TypeOK /\ RetryInv /\ [Next]_vars => RetryInv'
  BY RetryStep
<1>3. RetryInv => RetriesBounded
  BY DEF RetryInv, RetriesBounded
<1> QED BY <1>1, <1>2, <1>3, TypesAreKept, PTL DEF Spec

=============================================================================
