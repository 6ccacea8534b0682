------------------------- MODULE GateRunTickets_proofs -------------------------
(***************************************************************************)
(* The ticket of a run against its record and the chief's answer, for      *)
(* every set of requests, answers and confirmations, both engines, both    *)
(* destinations, and every number of engine exceptions.                    *)
(***************************************************************************)
EXTENDS GateRun_proofs

-----------------------------------------------------------------------------
(* Tickets and the record.                                                 *)

(* The states a run is kept in name no ticket that is not there.           *)
TicketInv ==
  s.submitted \/ base.submitted \/ saved.submitted => tickets # <<>>

(* Delivering leaves a ticket.                                             *)
LEMMA DeliverLeaves ==
  ASSUME TypeOK, NEW t \in TicketType
  PROVE  Deliver(t) # <<>>
<1> DEFINE more == Append(tickets, t)
<1>1. more \in Seq(TicketType) /\ Len(more) = Len(tickets) + 1 /\ Len(tickets) \in Nat
  BY AppendProperties, LenProperties DEF TypeOK
<1>2. more # <<>>
  BY <1>1, EmptySeq
<1> QED BY <1>2 DEF Deliver

(* What a worker does to the tickets, and what it says it did.             *)
LEMMA WorkerTickets ==
  ASSUME TypeOK, Worker
  PROVE  /\ \/ tickets' = tickets
            \/ /\ tickets' = Deliver(TicketOf(s)) /\ node = "submit"
               /\ EvaluateSubmitEligible(s) /\ ~s.submitted
         /\ s'.submitted => s.submitted \/ tickets' = Deliver(TicketOf(s))
<1>h. s \in CopilotState
  BY DEF TypeOK
<1>1. CASE RagAnswered \/ RagRetrieved \/ RagFailed \/ QualityChecked \/ WorkOrderDrafted
             \/ WorkOrderFailed \/ PartsChecked
  <2>1. tickets' = tickets
    BY <1>1 DEF RagAnswered, RagRetrieved, RagFailed, QualityChecked, WorkOrderDrafted,
                WorkOrderFailed, PartsChecked
  <2>2. s'.submitted = s.submitted
    BY <1>1, <1>h DEF RagAnswered, RagRetrieved, RagFailed, QualityChecked, WorkOrderDrafted,
                WorkOrderFailed, PartsChecked, AfterWorker, Failed, CopilotState
  <2> QED BY <2>1, <2>2
<1>2. CASE Submitted
  BY <1>2 DEF Submitted, Enter
<1>3. CASE SubmitFailed
  <2>1. s'.submitted = s.submitted
    BY <1>3, <1>h DEF SubmitFailed, AfterWorker, Failed, CopilotState
  <2> QED BY <1>3, <2>1 DEF SubmitFailed, Enter
<1> QED BY <1>1, <1>2, <1>3 DEF Worker

(* The record sent to the destination has the type of a ticket.            *)
LEMMA TicketIsOne ==
  ASSUME TypeOK
  PROVE  TicketOf(s) \in TicketType
<1>1. ComputePendingLayers(s) \in SUBSET Layers
  BY DEF ComputePendingLayers, FactLayers, Layers
<1> QED BY <1>1 DEF TypeOK, TicketOf, TicketType, CopilotState, Hitls

(* No step marks a run submitted without a ticket.                         *)
LEMMA TicketStep ==
  ASSUME TypeOK, TicketInv, [Next]_vars
  PROVE  TicketInv'
<1>h. s \in CopilotState /\ base \in CopilotState
  BY DEF TypeOK
<1>1. CASE Supervisor
  <2>1. s'.submitted = s.submitted /\ UNCHANGED <<base, saved, tickets>>
    BY <1>1, SupervisorFrame DEF SameFindings
  <2> QED BY <2>1 DEF TicketInv
<1>2. CASE Worker
  <2>1. base' = base /\ saved' = saved
    BY <1>2, WorkerFrame
  <2>2. Deliver(TicketOf(s)) # <<>>
    BY DeliverLeaves, TicketIsOne
  <2> QED BY <1>2, <2>1, <2>2, WorkerTickets DEF TicketInv
<1>3. CASE ChiefDecides
  <2>1. /\ s'.submitted = s.submitted /\ base'.submitted = s.submitted
        /\ saved' = saved /\ tickets' = tickets
    BY <1>3, ChiefFrame DEF SameFindings
  <2> QED BY <2>1 DEF TicketInv
<1>4. CASE HitlResolved
  <2>1. s'.submitted = s.submitted /\ UNCHANGED <<base, saved, tickets>>
    BY <1>4, <1>h DEF HitlResolved, AfterWorker, CopilotState
  <2> QED BY <2>1 DEF TicketInv
<1>5. CASE EngineRaises
  <2>1. Failed(base).submitted = base.submitted
    BY <1>h DEF Failed, CopilotState
  <2>2. RowOf(Failed(base)).submitted = base.submitted
    BY <2>1 DEF RowOf
  <2>3. /\ s'.submitted = base.submitted /\ base' = base /\ tickets' = tickets
        /\ saved' = saved \/ saved' = RowOf(Failed(base))
    BY <1>5, <2>1 DEF EngineRaises
  <2> QED BY <2>2, <2>3 DEF TicketInv
<1>6. CASE Pauses \/ Finishes
  <2>1. UNCHANGED <<s, base, tickets>> /\ saved'.submitted = s.submitted
    BY <1>6 DEF Pauses, Finishes, RowOf
  <2> QED BY <2>1 DEF TicketInv
<1>7. CASE UNCHANGED vars
  BY <1>7 DEF vars, TicketInv
<1> QED BY <1>1, <1>2, <1>3, <1>4, <1>5, <1>6, <1>7 DEF Next, Step

(* A new run has sent nothing.                                             *)
LEMMA TicketInit ==
  ASSUME Init
  PROVE  TicketInv
<1>1. ~s.submitted
  BY DEF Init, InitialState
<1> QED BY <1>1 DEF Init, NoRow, TicketInv

(* A row that names a ticket is backed by one at the destination, whatever *)
(* raised in between (graph/runner.py _persist).                           *)
THEOREM RowsAreBacked == Spec => []NoPhantomTicket
<1>1. TypeOK /\ TicketInv /\ [Next]_vars => TicketInv'
  BY TicketStep
<1>2. TicketInv => NoPhantomTicket
  BY DEF TicketInv, NoPhantomTicket
<1> QED BY <1>1, <1>2, TicketInit, TypesAreKept, PTL DEF Spec

-----------------------------------------------------------------------------
(* The chief's no.                                                         *)

Refused(st) == st.hitl.decision \in {"reject", "return"}

(* A run that a ticket may have left: no worker is to be called for it any *)
(* more, and whoever must be asked has answered.                           *)
Settled(st) == MissingWorker(st) = "none" /\ (NeedHitl(st) => st.hitl.resolved)

(* Under LangGraph a run with a ticket stays settled, so it never comes to *)
(* ask the chief; the fallback engine, which does start over with a ticket *)
(* out, cannot ask.                                                        *)
RefusalInv ==
  /\ Refused(s) \/ Refused(base) => tickets = <<>>
  /\ Refused(base) => base.hitl = s.hitl
  /\ node \in {"human_confirm", "paused"} /\ ~s.hitl.resolved =>
       engine = "langgraph" /\ tickets = <<>>
  /\ engine = "langgraph" /\ node # "done" /\ (node = "submit" \/ tickets # <<>>) =>
       Settled(s) /\ node \in {"supervisor", "submit", "end"}

(* Being settled depends on the request, the findings, the answer and the  *)
(* wish to submit, of which less never unsettles.                          *)
LEMMA SettledCopy ==
  ASSUME NEW a, NEW b, SameRequest(a, b), Settled(b), a.hitl = b.hitl,
         a.autoSubmit => b.autoSubmit,
         /\ a.rag = b.rag /\ a.degraded = b.degraded /\ a.conflict = b.conflict
         /\ a.critic = b.critic /\ a.draft = b.draft /\ a.parts = b.parts
  PROVE  Settled(a)
<1>1. MissingWorker(a) = MissingWorker(b)
  BY DEF MissingWorker, SameRequest
<1>2. NeedHitl(a) => NeedHitl(b)
  BY DEF NeedHitl, GateReady, RoleGate, SlaRaised, WeatherRaised, VagueDispatch, SameRequest
<1> QED BY <1>1, <1>2 DEF Settled

(* In the fallback engine a run that would ask the chief is failed.        *)
LEMMA FallbackDoesNotAsk ==
  ASSUME TypeOK, SupAsksChief, engine # "langgraph"
  PROVE  node' = "end"
<1> DEFINE st == [Resumed EXCEPT !.autoSubmit = AutoSubmitAfterGates(s),
                    !.hitl = [@ EXCEPT !.required = TRUE, !.resolved = FALSE,
                          !.pending = ComputePendingLayers(s), !.confirmations = {}],
                    !.status = "waiting_hitl", !.eligible = FALSE, !.nextAction = "hitl"]
<1>1. AfterSupervisor(st)
  BY DEF SupAsksChief
<1>2. Resumed \in CopilotState
  BY ResumedType
<1>3. st.status = "waiting_hitl" /\ st.nextAction = "hitl"
  BY <1>2 DEF CopilotState
<1>4. FallbackAfterSupervisor(st).status = "failed"
  BY <1>2, <1>3 DEF FallbackAfterSupervisor, CopilotState
<1>5. engine = "fallback"
  BY DEF TypeOK
<1> HIDE DEF st
<1> QED BY <1>1, <1>4, <1>5 DEF AfterSupervisor, Terminal

(* Submitting, or failing to, finds out nothing new.                       *)
LEMMA SubmitKeepsFindings ==
  ASSUME TypeOK, Submitted \/ SubmitFailed
  PROVE  /\ s'.autoSubmit = s.autoSubmit
         /\ s'.rag = s.rag /\ s'.degraded = s.degraded /\ s'.conflict = s.conflict
         /\ s'.critic = s.critic /\ s'.draft = s.draft /\ s'.parts = s.parts
<1>h. s \in CopilotState
  BY DEF TypeOK
<1>1. CASE Submitted
  BY <1>1, <1>h DEF Submitted, AfterWorker, CopilotState
<1>2. CASE SubmitFailed
  <2> DEFINE eligible == EvaluateSubmitEligible(s)
             st == [s EXCEPT !.eligible = eligible, !.status = "failed", !.nextAction = "end"]
  <2>1. AfterWorker(st)
    BY <1>2 DEF SubmitFailed, Failed
  <2> HIDE DEF eligible
  <2> QED BY <1>h, <2>1 DEF AfterWorker, CopilotState
<1> QED BY <1>1, <1>2

(* No step sends a ticket for a run the chief has turned down.             *)
LEMMA RefusalStep ==
  ASSUME TypeOK, GateInv, DecisionKept, AskInv, TicketInv, RefusalInv, [Next]_vars
  PROVE  RefusalInv'
<1>h. s \in CopilotState /\ base \in CopilotState
  BY DEF TypeOK
<1>d. s.hitl.resolved => s'.hitl = s.hitl
  BY DecisionStep
<1>c. (Refused(s) => s.hitl.resolved) /\ (Refused(base) => s.hitl.resolved)
  BY DEF GateInv, Coherent, RefusalInv, Refused
<1>1. CASE Supervisor
  <2>1. /\ SameRequest(s', s) /\ SameFindings(s', s) /\ (s'.autoSubmit => s.autoSubmit)
        /\ SupAsksChief \/ (s'.hitl = s.hitl /\ node' # "human_confirm")
        /\ node' = "submit" => SupSubmits
        /\ node' \in Workers \ {"submit"} => SupDispatches
        /\ node' \notin {"paused", "done"}
        /\ UNCHANGED <<engine, base, saved, tickets>>
    BY <1>1, SupervisorFrame
  <2>n. node = "supervisor"
    BY <1>1 DEF Supervisor, SupStops, SupRefusesIntent, SupChiefSaidNo, SupRefusesRun,
           SupDispatches, SupAsksChief, SupSubmits, SupFinishes, SupGoesOn, Enter
  <2>2. CASE SupAsksChief
    <3>1. ~Settled(s) /\ ~s.hitl.resolved
      BY <2>2 DEF SupAsksChief, Settled
    <3>2. ~(engine = "langgraph" /\ tickets # <<>>)
      BY <2>n, <3>1 DEF RefusalInv
    <3>3. s'.hitl.decision = s.hitl.decision
      BY <1>h, <2>2, AskingFrame DEF CopilotState, Hitls
    <3>4. ~Refused(s) /\ ~Refused(s') /\ ~Refused(base)
      BY <1>c, <3>1, <3>3 DEF Refused
    <3>5. engine # "langgraph" => node' = "end"
      BY <2>2, FallbackDoesNotAsk
    <3>6. node' # "submit"
      BY <2>1, <2>2 DEF SupSubmits, SupAsksChief, PassesGates
    <3> QED BY <2>1, <3>2, <3>4, <3>5, <3>6 DEF RefusalInv
  <2>3. CASE ~SupAsksChief
    <3>1. s'.hitl = s.hitl /\ node' # "human_confirm"
      BY <2>1, <2>3
    <3>2. Refused(s') = Refused(s)
      BY <3>1 DEF Refused
    <3>3. ASSUME engine = "langgraph", node' = "submit" \/ tickets # <<>>
          PROVE  Settled(s') /\ node' \in {"supervisor", "submit", "end"}
      <4>1. Settled(s)
        <5>1. CASE node' = "submit"
          BY <2>1, <5>1 DEF SupSubmits, PassesGates, Complete, Settled
        <5>2. CASE tickets # <<>>
          BY <2>n, <3>3, <5>2 DEF RefusalInv
        <5> QED BY <3>3, <5>1, <5>2
      <4>2. Settled(s')
        BY <2>1, <3>1, <4>1, SettledCopy DEF SameFindings
      <4>3. ~SupDispatches
        BY <4>1 DEF SupDispatches, Settled
      <4>4. node' \in Nodes
        BY <1>1, SupervisorType DEF TypeOK, Nodes
      <4> QED BY <2>1, <3>1, <4>2, <4>3, <4>4 DEF Nodes
    <3> QED BY <2>1, <3>1, <3>2, <3>3 DEF RefusalInv
  <2> QED BY <2>2, <2>3
<1>2. CASE Worker
  <2>1. /\ SameRequest(s', s) /\ s'.hitl = s.hitl /\ node' \in {"supervisor", "end"}
        /\ UNCHANGED <<engine, base, saved>>
    BY <1>2, WorkerFrame
  <2>2. \/ tickets' = tickets
        \/ tickets' = Deliver(TicketOf(s)) /\ node = "submit" /\ EvaluateSubmitEligible(s)
    BY <1>2, WorkerTickets
  <2>3. EvaluateSubmitEligible(s) => ~Refused(s) /\ ~Refused(base)
    BY <1>c DEF EvaluateSubmitEligible, Blocked, Refused, RefusalInv
  <2>4. Refused(s') = Refused(s) /\ Refused(base') = Refused(base)
    BY <2>1 DEF Refused
  <2>5. ASSUME engine = "langgraph", tickets' # <<>>
        PROVE  Settled(s')
    <3>n. node # "done"
      BY <1>2 DEF Worker, RagAnswered, RagRetrieved, RagFailed, QualityChecked, WorkOrderDrafted,
             WorkOrderFailed, PartsChecked, Submitted, SubmitFailed, Enter
    <3>1. Settled(s) /\ node \in {"supervisor", "submit", "end"}
      BY <2>2, <2>5, <3>n DEF RefusalInv
    <3>2. Submitted \/ SubmitFailed
      BY <1>2, <3>1 DEF Worker, RagAnswered, RagRetrieved, RagFailed, QualityChecked,
             WorkOrderDrafted, WorkOrderFailed, PartsChecked, Enter
    <3>3. /\ s'.autoSubmit = s.autoSubmit
          /\ s'.rag = s.rag /\ s'.degraded = s.degraded /\ s'.conflict = s.conflict
          /\ s'.critic = s.critic /\ s'.draft = s.draft /\ s'.parts = s.parts
      BY <3>2, SubmitKeepsFindings
    <3> QED BY <2>1, <3>1, <3>3, SettledCopy
  <2> QED BY <2>1, <2>2, <2>3, <2>4, <2>5 DEF RefusalInv
<1>3. CASE Pauses
  BY <1>3 DEF Pauses, Enter, RefusalInv, Refused
<1>4. CASE ChiefDecides
  <2>1. /\ s'.hitl = base'.hitl /\ s'.hitl.resolved /\ node' = "supervisor"
        /\ UNCHANGED tickets
    BY <1>4, ChiefFrame
  <2>2. node = "paused" /\ ~s.hitl.resolved
    BY <1>4 DEF ChiefDecides, DecisionKept
  <2>3. tickets = <<>>
    BY <2>2 DEF RefusalInv
  <2> QED BY <2>1, <2>3 DEF RefusalInv
<1>5. CASE HitlResolved
  <2>1. /\ s'.hitl = s.hitl /\ UNCHANGED <<engine, base, saved, tickets>>
        /\ node = "human_confirm" /\ node' \in {"supervisor", "end"}
    BY <1>5, <1>h DEF HitlResolved, AfterWorker, Enter, CopilotState
  <2>2. ~(engine = "langgraph" /\ tickets # <<>>)
    BY <2>1 DEF RefusalInv
  <2> QED BY <2>1, <2>2 DEF RefusalInv, Refused
<1>6. CASE EngineRaises
  <2>1. /\ s'.hitl = base.hitl /\ base' = base /\ tickets' = tickets
        /\ \/ node' = "done"
           \/ /\ engine' = "fallback"
              /\ node' \in {"human_confirm", "supervisor"}
              /\ node' = "human_confirm" => base.nextAction = "hitl"
    BY <1>6, <1>h DEF EngineRaises, Failed, CopilotState
  <2>2. base.nextAction = "hitl" => base.hitl.resolved
    BY DEF AskInv
  <2> QED BY <2>1, <2>2 DEF RefusalInv, Refused
<1>7. CASE Finishes
  BY <1>7 DEF Finishes, RefusalInv, Refused
<1>8. CASE UNCHANGED vars
  BY <1>8 DEF vars, RefusalInv, Refused, Settled
<1> QED BY <1>1, <1>2, <1>3, <1>4, <1>5, <1>6, <1>7, <1>8 DEF Next, Step

(* The invariants above, together.                                         *)
RunInv == GateInv /\ DecisionKept /\ AskInv /\ TicketInv /\ RefusalInv

(* A new run satisfies all five.                                           *)
LEMMA RunInit ==
  ASSUME Init
  PROVE  RunInv
<1>1. PICK r \in Requests : s = InitialState(r)
  BY DEF Init
<1>2. Coherent(s)
  BY <1>1 DEF InitialState, Coherent, NoHitl, NoAnswer, NoReport
<1>3. GateInv
  BY <1>2 DEF Init, GateInv, GatedTickets
<1>4. DecisionKept /\ AskInv
  BY DEF Init, InitialState, NoHitl, DecisionKept, AskInv
<1>5. RefusalInv
  BY <1>1 DEF Init, InitialState, NoHitl, RefusalInv, Refused
<1> QED BY <1>3, <1>4, <1>5, TicketInit DEF RunInv

(* And every step keeps all five.                                          *)
LEMMA RunStep ==
  ASSUME TypeOK, RunInv, [Next]_vars
  PROVE  RunInv'
BY GateStep, DecisionStep, AskStep, TicketStep, RefusalStep DEF RunInv

(* A run the chief rejected or returned never has a ticket, whichever      *)
(* engine carries the decision on and however often it is retried          *)
(* (graph/nodes.py hitl_node, supervisor_node; graph/runner.py).           *)
THEOREM NoTicketAgainstTheChief == Spec => []ChiefsNoHolds
<1>1. TypeOK /\ RunInv /\ [Next]_vars => RunInv'
  BY RunStep
<1>2. RunInv => ChiefsNoHolds
  BY DEF RunInv, RefusalInv, TicketInv, Refused, ChiefsNoHolds
<1> QED BY <1>1, <1>2, RunInit, TypesAreKept, PTL DEF Spec

-----------------------------------------------------------------------------
(* The chief's yes.                                                        *)

(* A dispatch the chief approved can be submitted, and no worker is to be  *)
(* called for it any more.                                                 *)
Answered(st) ==
  st.hitl.resolved =>
    /\ MissingWorker(st) = "none"
    /\ st.intent = "fault_dispatch" /\ st.hitl.decision = "approve" => EvaluateSubmitEligible(st)

Honoured(st) ==
  st.status = "succeeded" /\ st.hitl.decision = "approve" /\ st.intent = "fault_dispatch"
     => st.submitted

HonourInv ==
  /\ node \in {"human_confirm", "paused"} /\ ~s.hitl.resolved =>
       MissingWorker(s) = "none" /\ s.status = "waiting_hitl"
  /\ Answered(s) /\ Answered(base)
  /\ s.hitl.resolved => node \notin {"rag", "quality", "work_order", "parts"}
  /\ Honoured(s) /\ base.status # "succeeded"
  /\ saved.status = "succeeded" => node = "done" /\ saved = RowOf(s)

(* Whether a request is answered depends on the workers' results only.     *)
LEMMA AnsweredCopy ==
  ASSUME NEW a, NEW b, SameRequest(a, b), a.hitl = b.hitl, Answered(b),
         /\ a.rag = b.rag /\ a.degraded = b.degraded /\ a.conflict = b.conflict
         /\ a.critic = b.critic /\ a.draft = b.draft /\ a.parts = b.parts
  PROVE  Answered(a)
BY DEF Answered, MissingWorker, EvaluateSubmitEligible, Blocked, SlaRaised, WeatherRaised,
       VagueDispatch, SameRequest

(* Every layer the facts raise is confirmed: nothing blocks the dispatch.  *)
LEMMA ConfirmedIsEligible ==
  ASSUME NEW st, st.intent = "fault_dispatch", st.draft # "none", st.critic.done => st.critic.passed,
         st.hitl.resolved, st.hitl.decision = "approve", FactLayers(st) \subseteq st.hitl.confirmations
  PROVE  EvaluateSubmitEligible(st)
<1>1. Approved(st.hitl) /\ \A l \in FactLayers(st) : LayerConfirmed(st.hitl, l)
  BY DEF Approved, LayerConfirmed
<1> QED BY <1>1 DEF EvaluateSubmitEligible, Blocked, FactLayers, Layers

(* The supervisor ends a run well only as the chief told it to, or with    *)
(* nothing left to submit.                                                 *)
LEMMA EndingWell ==
  ASSUME TypeOK, Supervisor, s'.status = "succeeded"
  PROVE  s.status = "succeeded" \/ s.hitl.decision = "return" \/ SupFinishes
<1>h. s \in CopilotState
  BY DEF TypeOK
<1>r. Counted \in CopilotState /\ Resumed \in CopilotState /\ Gated(Resumed) \in CopilotState
  BY ResumedType
<1>c. Counted.status = s.status
  BY <1>h DEF Counted, CopilotState
<1>s. Resumed.status = "succeeded" => s.status = "succeeded"
  BY <1>r, <1>c DEF Resumed, Awake, CopilotState
<1>g. Gated(Resumed).status = Resumed.status
  BY <1>r DEF Gated, CopilotState
<1>l. ASSUME NEW st \in CopilotState, AfterSupervisor(st),
             st.status = "succeeded" => s.status = "succeeded" \/ s.hitl.decision = "return"
      PROVE  s.status = "succeeded" \/ s.hitl.decision = "return"
  BY <1>l, LeavingSupervisor
<1>w. {"rejected", "succeeded", "failed", "waiting_hitl"} \subseteq Statuses
  BY DEF Statuses, Terminal
<1>a. {"end", "submit", "hitl"} \subseteq Actions
  BY DEF Actions, Workers
<1>1. CASE SupStops
  <2> DEFINE st == [Counted EXCEPT
       !.routeHistory = IF Spinning(s) THEN s.routeHistory ELSE @,
       !.status = IF Spinning(s) \/ OverLimit(s) THEN "failed" ELSE @,
       !.nextAction = "end"]
  <2>1. st \in CopilotState /\ st.status \in {"failed", Counted.status}
    BY <1>r, <1>h, <1>w, <1>a DEF CopilotState
  <2>2. AfterSupervisor(st)
    BY <1>1 DEF SupStops
  <2> HIDE DEF st
  <2> QED BY <1>c, <1>l, <2>1, <2>2
<1>2. CASE SupRefusesIntent \/ SupRefusesRun
  <2> DEFINE st == [Resumed EXCEPT !.status = "rejected", !.nextAction = "end"]
  <2>1. st \in CopilotState /\ st.status = "rejected"
    BY <1>r, <1>w, <1>a DEF CopilotState
  <2>2. AfterSupervisor(st)
    BY <1>2 DEF SupRefusesIntent, SupRefusesRun
  <2> HIDE DEF st
  <2> QED BY <1>l, <2>1, <2>2
<1>3. CASE SupChiefSaidNo
  <2> DEFINE st == [Resumed EXCEPT
       !.status = IF s.hitl.decision = "reject" THEN "rejected" ELSE "succeeded",
       !.rework = IF s.hitl.decision = "return" THEN TRUE ELSE @,
       !.eligible = FALSE,
       !.nextAction = "end"]
  <2>1. st \in CopilotState /\ (st.status = "succeeded" => s.hitl.decision # "reject")
    BY <1>r, <1>w, <1>a, ZenonT(40) DEF CopilotState
  <2>2. AfterSupervisor(st) /\ s.hitl.decision \in {"reject", "return"}
    BY <1>3 DEF SupChiefSaidNo
  <2> HIDE DEF st
  <2> QED BY <1>l, <2>1, <2>2
<1>4. CASE SupDispatches
  <2> DEFINE st == [Resumed EXCEPT !.nextAction = MissingWorker(s)]
  <2>1. MissingWorker(s) \in Actions
    BY <1>4 DEF SupDispatches, MissingWorker, Actions, Workers
  <2>2. st \in CopilotState /\ st.status = Resumed.status
    BY <1>r, <2>1 DEF CopilotState
  <2>3. AfterSupervisor(st)
    BY <1>4 DEF SupDispatches
  <2> HIDE DEF st
  <2> QED BY <1>s, <1>l, <2>2, <2>3
<1>5. CASE SupAsksChief
  <2> DEFINE auto == AutoSubmitAfterGates(s)
             hitl == [Resumed.hitl EXCEPT !.required = TRUE, !.resolved = FALSE,
                          !.pending = ComputePendingLayers(s), !.confirmations = {}]
             st == [Resumed EXCEPT !.autoSubmit = auto, !.hitl = hitl,
                      !.status = "waiting_hitl", !.eligible = FALSE, !.nextAction = "hitl"]
  <2>1. ComputePendingLayers(s) \in SUBSET Layers
    BY DEF ComputePendingLayers, FactLayers, Layers
  <2>2. auto \in BOOLEAN /\ hitl \in Hitls
    BY <1>h, <1>r, <2>1 DEF AutoSubmitAfterGates, CopilotState, Hitls
  <2>3. AfterSupervisor(st)
    BY <1>5 DEF SupAsksChief
  <2> HIDE DEF auto, hitl
  <2>4. st.status = "waiting_hitl"
    BY <1>r DEF CopilotState
  <2>5. st \in CopilotState
    <3>1. "waiting_hitl" \in Statuses /\ "hitl" \in Actions
      BY <1>w, <1>a
    <3> QED BY <1>r, <2>2, <3>1 DEF CopilotState
  <2> HIDE DEF st
  <2> QED BY <1>l, <2>3, <2>4, <2>5
<1>6. CASE SupSubmits
  <2> DEFINE st == [Gated(Resumed) EXCEPT !.eligible = TRUE, !.nextAction = "submit"]
  <2>1. st \in CopilotState /\ st.status = Gated(Resumed).status
    BY <1>r, <1>a DEF CopilotState
  <2>2. AfterSupervisor(st)
    BY <1>6 DEF SupSubmits
  <2> HIDE DEF st
  <2> QED BY <1>g, <1>s, <1>l, <2>1, <2>2
<1> QED BY <1>1, <1>2, <1>3, <1>4, <1>5, <1>6 DEF Supervisor

(* A run that is led to the chief is marked as waiting.                    *)
LEMMA AskedIsWaiting ==
  ASSUME TypeOK, SupAsksChief, node' = "human_confirm"
  PROVE  s'.status = "waiting_hitl"
<1> DEFINE auto == AutoSubmitAfterGates(s)
           hitl == [Resumed.hitl EXCEPT !.required = TRUE, !.resolved = FALSE,
                        !.pending = ComputePendingLayers(s), !.confirmations = {}]
           st == [Resumed EXCEPT !.autoSubmit = auto, !.hitl = hitl,
                    !.status = "waiting_hitl", !.eligible = FALSE, !.nextAction = "hitl"]
<1>1. AfterSupervisor(st)
  BY DEF SupAsksChief
<1>2. Resumed \in CopilotState
  BY ResumedType
<1>3. engine = "langgraph"
  BY FallbackDoesNotAsk
<1> HIDE DEF auto, hitl
<1>4. st.status = "waiting_hitl"
  BY <1>2 DEF CopilotState
<1> HIDE DEF st
<1> QED BY <1>1, <1>3, <1>4 DEF AfterSupervisor

(* A step away from an approved run files its ticket or fails the run.     *)
LEMMA HonourStep ==
  ASSUME TypeOK, RunInv, HonourInv, [Next]_vars
  PROVE  HonourInv'
<1>h. s \in CopilotState /\ base \in CopilotState
  BY DEF TypeOK
<1>d. s.hitl.resolved <=> s.hitl.decision # "none"
  BY DEF RunInv, GateInv, Coherent
<1>1. CASE Supervisor
  <2>1. /\ SameRequest(s', s) /\ SameFindings(s', s)
        /\ SupAsksChief \/ (s'.hitl = s.hitl /\ node' # "human_confirm")
        /\ node' \in Workers \ {"submit"} => SupDispatches
        /\ node' \notin {"paused", "done"}
        /\ UNCHANGED <<base, saved>>
    BY <1>1, SupervisorFrame
  <2>n. node = "supervisor" /\ saved.status # "succeeded"
    BY <1>1 DEF Supervisor, SupStops, SupRefusesIntent, SupChiefSaidNo, SupRefusesRun,
           SupDispatches, SupAsksChief, SupSubmits, SupFinishes, SupGoesOn, Enter, HonourInv
  <2>2. CASE SupAsksChief
    <3>1. ~s.hitl.resolved /\ Complete(s)
      BY <2>2 DEF SupAsksChief
    <3>2. s'.hitl.decision = "none" /\ ~s'.hitl.resolved
      BY <1>h, <1>d, <2>2, <3>1, AskingFrame DEF CopilotState, Hitls
    <3>3. MissingWorker(s') = "none"
      BY <2>1, <3>1 DEF Complete, MissingWorker, SameRequest, SameFindings
    <3>4. node' = "human_confirm" => s'.status = "waiting_hitl"
      BY <2>2, AskedIsWaiting
    <3> QED BY <2>1, <2>n, <3>2, <3>3, <3>4 DEF HonourInv, Answered, Honoured
  <2>3. CASE ~SupAsksChief
    <3>1. s'.hitl = s.hitl /\ node' # "human_confirm"
      BY <2>1, <2>3
    <3>2. Answered(s')
      BY <2>1, <3>1, AnsweredCopy DEF HonourInv, SameFindings
    <3>3. s'.hitl.resolved => node' \notin {"rag", "quality", "work_order", "parts"}
      BY <2>1, <3>1 DEF HonourInv, Answered, SupDispatches, Workers
    <3>4. Honoured(s')
      <4> SUFFICES ASSUME s'.status = "succeeded", s.hitl.decision = "approve",
                          s.intent = "fault_dispatch", ~s.submitted
                   PROVE  FALSE
        BY <2>1, <3>1 DEF Honoured, SameRequest, SameFindings
      <4>1. SupFinishes
        BY <1>1, EndingWell DEF HonourInv, Honoured
      <4>2. ~MaySubmit(Gated(s)) /\ ~AlreadySubmitted(s)
        BY <4>1 DEF SupFinishes, AlreadySubmitted
      <4>3. EvaluateSubmitEligible(s) /\ Approved(s.hitl)
        BY <1>d DEF HonourInv, Answered, Approved
      <4>4. /\ SameRequest(Gated(s), s) /\ SameFindings(Gated(s), s) /\ Gated(s).hitl = s.hitl
        BY <1>h DEF Gated, CopilotState, SameRequest, SameFindings
      <4>5. EvaluateSubmitEligible(Gated(s))
        BY <4>3, <4>4 DEF EvaluateSubmitEligible, Blocked, SlaRaised, WeatherRaised, VagueDispatch,
                          SameRequest, SameFindings
      <4> QED BY <4>2, <4>3, <4>4, <4>5 DEF MaySubmit, SameRequest, SameFindings
    <3> QED BY <2>1, <2>n, <3>1, <3>2, <3>3, <3>4 DEF HonourInv
  <2> QED BY <2>2, <2>3
<1>2. CASE Worker
  <2>1. /\ SameRequest(s', s) /\ s'.hitl = s.hitl /\ node' \in {"supervisor", "end"}
        /\ UNCHANGED <<base, saved>>
    BY <1>2, WorkerFrame
  <2>n. node # "done"
    BY <1>2 DEF Worker, RagAnswered, RagRetrieved, RagFailed, QualityChecked, WorkOrderDrafted,
           WorkOrderFailed, PartsChecked, Submitted, SubmitFailed, Enter
  <2>2. CASE ~s.hitl.resolved
    <3>1. s'.hitl.decision = "none"
      BY <1>d, <2>1, <2>2
    <3> QED BY <2>1, <2>n, <2>2, <3>1 DEF HonourInv, Answered, Honoured
  <2>3. CASE s.hitl.resolved
    <3>1. Submitted \/ SubmitFailed
      BY <1>2, <2>3 DEF Worker, RagAnswered, RagRetrieved, RagFailed, QualityChecked,
             WorkOrderDrafted, WorkOrderFailed, PartsChecked, Enter, HonourInv
    <3>2. Answered(s')
      BY <2>1, <3>1, SubmitKeepsFindings, AnsweredCopy DEF HonourInv
    <3>3. Honoured(s')
      <4>1. CASE Submitted
        <5>1. s'.submitted
          BY <4>1, <1>h DEF Submitted, AfterWorker, CopilotState
        <5> QED BY <5>1 DEF Honoured
      <4>2. CASE SubmitFailed
        <5> DEFINE eligible == EvaluateSubmitEligible(s)
                   st == [s EXCEPT !.eligible = eligible, !.status = "failed", !.nextAction = "end"]
        <5>1. AfterWorker(st)
          BY <4>2 DEF SubmitFailed, Failed
        <5> HIDE DEF eligible
        <5>2. s'.status = "failed"
          BY <1>h, <5>1 DEF AfterWorker, CopilotState
        <5> QED BY <5>2 DEF Honoured
      <4> QED BY <3>1, <4>1, <4>2
    <3> QED BY <2>1, <2>n, <3>2, <3>3 DEF HonourInv
  <2> QED BY <2>2, <2>3
<1>3. CASE Pauses
  <2>1. /\ node = "human_confirm" /\ ~s.hitl.resolved /\ node' = "paused" /\ saved' = RowOf(s)
        /\ UNCHANGED <<s, base>>
    BY <1>3 DEF Pauses, Enter
  <2>2. saved'.status = "waiting_hitl"
    BY <2>1 DEF HonourInv, RowOf
  <2> QED BY <2>1, <2>2 DEF HonourInv, Answered, Honoured
<1>4. CASE ChiefDecides
  <2>1. /\ s'.hitl = base'.hitl /\ s'.hitl.resolved /\ node' = "supervisor"
        /\ SameRequest(s', s) /\ SameFindings(s', s)
        /\ SameRequest(base', s) /\ SameFindings(base', s)
        /\ saved' = saved
    BY <1>4, ChiefFrame
  <2>2. node = "paused" /\ ~s.hitl.resolved /\ saved.status = "waiting_hitl"
    BY <1>4 DEF ChiefDecides, RunInv, DecisionKept
  <2>3. s'.status = "running" /\ base'.status = s.status
    BY <1>4, <1>h DEF ChiefDecides, CopilotState
  <2>4. s'.hitl.decision = "approve" => LayersAsked(s) \subseteq s'.hitl.confirmations
    <3>1. PICK d \in Decisions \ {"none"}, ticked \in Confirmations :
            /\ d = "approve" => MissingLayerConfirmations(LayersAsked(s), ticked) = {}
            /\ s' = [s EXCEPT !.hitl = [s.hitl EXCEPT !.required = TRUE, !.resolved = TRUE,
                                                      !.decision = d, !.confirmations = ticked],
                              !.status = "running", !.nextAction = "supervisor"]
      BY <1>4 DEF ChiefDecides
    <3>2. s'.hitl.decision = d /\ s'.hitl.confirmations = ticked
      BY <1>h, <3>1 DEF CopilotState, Hitls
    <3> QED BY <3>1, <3>2 DEF MissingLayerConfirmations
  <2>5. FactLayers(s) \subseteq LayersAsked(s)
    BY <2>2 DEF RunInv, AskInv, LayersAsked, ComputePendingLayers
  <2>6. ASSUME NEW st, SameRequest(st, s), SameFindings(st, s), st.hitl = s'.hitl
        PROVE  Answered(st)
    <3>1. MissingWorker(st) = "none"
      BY <2>2, <2>6 DEF HonourInv, MissingWorker, SameRequest, SameFindings
    <3>2. FactLayers(st) = FactLayers(s)
      BY <2>6 DEF FactLayers, SameRequest, SameFindings, SlaRaised, WeatherRaised, VagueDispatch
    <3>3. /\ s.intent = "fault_dispatch" => s.draft # "none"
          /\ s.critic.done => s.critic.passed
      BY <2>2 DEF RunInv, AskInv
    <3>4. st.intent = "fault_dispatch" /\ st.hitl.decision = "approve" => EvaluateSubmitEligible(st)
      BY <2>1, <2>4, <2>5, <2>6, <3>2, <3>3, ConfirmedIsEligible DEF SameRequest, SameFindings
    <3> QED BY <3>1, <3>4 DEF Answered
  <2>7. Answered(s') /\ Answered(base')
    BY <2>1, <2>6
  <2> QED BY <2>1, <2>2, <2>3, <2>7 DEF HonourInv, Honoured
<1>5. CASE HitlResolved
  <2> DEFINE st == [s EXCEPT !.status = "running", !.nextAction = "supervisor"]
  <2>1. st \in CopilotState
    BY <1>h DEF CopilotState, Statuses, Actions
  <2>2. SameRequest(st, s) /\ SameFindings(st, s) /\ st.hitl = s.hitl /\ st.status = "running"
    BY <1>h DEF CopilotState, SameRequest, SameFindings
  <2>3. AfterWorker(st) /\ UNCHANGED <<base, saved>> /\ node = "human_confirm"
    BY <1>5 DEF HitlResolved, Enter
  <2> HIDE DEF st
  <2>4. /\ SameRequest(s', s) /\ SameFindings(s', s) /\ s'.hitl = s.hitl
        /\ node' \in {"supervisor", "end"}
    BY <2>1, <2>2, <2>3, LeavingWorker DEF SameRequest, SameFindings
  <2>5. s'.status = "running"
    BY <2>1, <2>2, <2>3 DEF AfterWorker, CopilotState
  <2>6. Answered(s')
    BY <2>4, AnsweredCopy DEF HonourInv, SameFindings
  <2> QED BY <2>3, <2>4, <2>5, <2>6 DEF HonourInv, Honoured
<1>6. CASE EngineRaises
  <2>1. /\ s'.hitl = base.hitl /\ SameRequest(s', base) /\ SameFindings(s', base)
        /\ base' = base /\ node # "done"
        /\ node' \in {"human_confirm", "supervisor", "done"}
        /\ node' = "human_confirm" => base.nextAction = "hitl"
    BY <1>6, <1>h DEF EngineRaises, Executing, Workers, Failed, CopilotState, SameRequest, SameFindings
  <2>2. Failed(base).status = "failed"
    BY <1>h DEF Failed, CopilotState
  <2>3. s'.status # "succeeded" /\ saved'.status # "succeeded"
    BY <1>6, <2>1, <2>2 DEF EngineRaises, RowOf, HonourInv
  <2>4. Answered(s')
    BY <2>1, AnsweredCopy DEF HonourInv, SameFindings
  <2>5. node' = "human_confirm" => s'.hitl.resolved
    BY <2>1 DEF RunInv, AskInv
  <2> QED BY <2>1, <2>3, <2>4, <2>5 DEF HonourInv, Honoured
<1>7. CASE Finishes
  BY <1>7 DEF Finishes, RowOf, HonourInv, Answered, Honoured
<1>8. CASE UNCHANGED vars
  BY <1>8 DEF vars, HonourInv, Answered, Honoured, RowOf
<1> QED BY <1>1, <1>2, <1>3, <1>4, <1>5, <1>6, <1>7, <1>8 DEF Next, Step

(* An approved dispatch that ends well has filed its ticket: no way leads  *)
(* from the approval past the submission to a successful end               *)
(* (graph/nodes.py supervisor_node, _route_submit; main.py decide_hitl).   *)
THEOREM ApprovalsAreHonoured == Spec => []ApprovalIsHonoured
<1>1. Init => HonourInv
  BY DEF Init, InitialState, NoHitl, NoRow, HonourInv, Answered, Honoured
<1>2. TypeOK /\ RunInv /\ [Next]_vars => RunInv'
  BY RunStep
<1>3. TypeOK /\ RunInv /\ HonourInv /\ [Next]_vars => HonourInv'
  BY HonourStep
<1>4. HonourInv => ApprovalIsHonoured
  BY DEF HonourInv, Honoured, RowOf, ApprovalIsHonoured
<1> QED BY <1>1, <1>2, <1>3, <1>4, RunInit, TypesAreKept, PTL DEF Spec

=============================================================================
