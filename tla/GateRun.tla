------------------------------- MODULE GateRun -------------------------------
(***************************************************************************)
(* One run of the ticket gate: the supervisor and its workers              *)
(* (graph/nodes.py) under the LangGraph engine (graph/builder.py) or the   *)
(* fallback engine (graph/runner.py), the pause for the station chief and  *)
(* the chief's decision (main.py decide_hitl, runner.apply_hitl).          *)
(*                                                                         *)
(* The run's state is one record, as in the code: every node copies it,    *)
(* changes some fields and hands it on.  Each action is one node call.     *)
(***************************************************************************)
EXTENDS GatePolicy, Naturals, Sequences

CONSTANTS
  Requests,        (* requests POST /runs may bring; see RequestAssumption *)
  RagResults,      (* answers the knowledge source may give                *)
  PartsResults,    (* outcomes of the parts pre-check                      *)
  Confirmations,   (* sets of layers a chief may tick                      *)
  EngineStrict,    (* settings.engine_strict                               *)
  FileOutbox,      (* TRUE: file_outbox; FALSE: rag_mock_inbox             *)
  RecursionLimit,  (* LangGraph's bound on node calls of one invocation    *)
  MaxFaults        (* bound: engine exceptions of one run                  *)

ASSUME RequestAssumption ==
  Requests \subseteq [role : Roles, intent : Intents, ticket : Tickets, autoSubmit : BOOLEAN,
                      maxIterations : Nat \ {0}, engine : {"langgraph", "fallback"}]

ASSUME WorldAssumption ==
  /\ RagResults \subseteq {r \in RagAnswers : r.done}
  /\ PartsResults \subseteq {p \in PartsChecks : p.done}
  /\ Confirmations \subseteq SUBSET Layers
  /\ EngineStrict \in BOOLEAN /\ FileOutbox \in BOOLEAN
  /\ RecursionLimit \in Nat \ {0} /\ MaxFaults \in Nat

VARIABLES
  s,          (* the CopilotState of the run                               *)
  engine,     (* the engine executing it                                   *)
  node,       (* the node the engine calls next                            *)
  steps,      (* node calls of the current LangGraph invocation            *)
  base,       (* the state the engine was handed: what an exception leaves *)
  saved,      (* the row in runs.db: its status, and if it names a ticket  *)
  tickets,    (* tickets at the destination, in the order they arrived     *)
  streak,     (* history: the worker dispatched last, and how often in a row *)
  faults      (* engine exceptions so far                                  *)

vars == <<s, engine, node, steps, base, saved, tickets, streak, faults>>

-----------------------------------------------------------------------------
Workers == {"rag", "quality", "work_order", "parts", "submit"}
Actions == Workers \cup {"supervisor", "hitl", "end"}
Terminal == {"succeeded", "failed", "rejected"}   \* "cancelled" is the store's
Statuses == Terminal \cup {"running", "waiting_hitl"}

CopilotState ==
  [role : Roles, intent : Intents, ticket : Tickets, autoSubmit : BOOLEAN,
   maxIterations : Nat \ {0}, iteration : Nat, nextAction : Actions, status : Statuses,
   routeHistory : Seq(Workers \cup {"hitl"}), rag : RagAnswers, degraded : BOOLEAN,
   conflict : BOOLEAN, critic : Reports, draft : Drafts, parts : PartsChecks, hitl : Hitls,
   eligible : BOOLEAN, submitted : BOOLEAN, rework : BOOLEAN]

InitialState(r) ==
  [role |-> r.role, intent |-> r.intent, ticket |-> r.ticket, autoSubmit |-> r.autoSubmit,
   maxIterations |-> r.maxIterations, iteration |-> 0, nextAction |-> "supervisor",
   status |-> "running", routeHistory |-> <<>>, rag |-> NoAnswer, degraded |-> FALSE,
   conflict |-> FALSE, critic |-> NoReport, draft |-> "none", parts |-> NoParts,
   hitl |-> NoHitl, eligible |-> FALSE, submitted |-> FALSE, rework |-> FALSE]

(* What a ticket at the destination is evidence of: the facts of the run   *)
(* when it was sent, and the decision summary sent along with it.          *)
TicketOf(st) == [role |-> st.role, raised |-> ComputePendingLayers(st),
                 decision |-> st.hitl.decision, confirmed |-> st.hitl.confirmations,
                 phase |-> "resolved"]

NoRow == [status |-> "none", submitted |-> FALSE]
RowOf(st) == [status |-> st.status, submitted |-> st.submitted]

Init ==
  /\ \E r \in Requests : s = InitialState(r) /\ engine = r.engine
  /\ base = s
  /\ node = "supervisor"
  /\ steps = 0
  /\ saved = NoRow
  /\ tickets = <<>>
  /\ streak = [worker |-> "none", count |-> 0]
  /\ faults = 0

-----------------------------------------------------------------------------
(* Where the engine goes after a node.                                     *)

(* Mutant: the action is taken for the name of the node.                   *)
RouteByAction(action) == IF action \in Workers \cup {"hitl"} THEN action ELSE "end"

(* builder.route_after_supervisor                                          *)
RouteAfterSupervisor(action) ==
  CASE action = "hitl" -> "human_confirm"
    [] action \in Workers -> action
    [] OTHER -> "end"

(* runner.step_fallback, after the supervisor: the fallback engine cannot  *)
(* pause, a run that would wait for the chief fails there.                 *)
FallbackAfterSupervisor(st) ==
  IF st.status = "waiting_hitl" /\ st.nextAction = "hitl"
    THEN [st EXCEPT !.status = "failed", !.nextAction = "end"]
    ELSE st

AfterSupervisor(st) ==
  LET out == IF engine = "fallback" THEN FallbackAfterSupervisor(st) ELSE st
  IN  /\ s' = out
      /\ node' = IF engine = "fallback" /\ out.status \in Terminal
                   THEN "end" ELSE RouteAfterSupervisor(out.nextAction)
      /\ streak' = IF out.nextAction \notin Workers THEN streak
                   ELSE [worker |-> out.nextAction,
                         count |-> IF streak.worker = out.nextAction THEN streak.count + 1 ELSE 1]

(* Every worker has an edge back to the supervisor in the LangGraph graph; *)
(* the fallback engine stops at a terminal status instead.                 *)
AfterWorker(st) ==
  IF engine = "langgraph"
    THEN s' = st /\ node' = "supervisor"
    ELSE IF st.status \in Terminal
      THEN s' = st /\ node' = "end"
      ELSE s' = [st EXCEPT !.nextAction = "supervisor"] /\ node' = "supervisor"

(* A LangGraph invocation calls at most RecursionLimit nodes.              *)
Enter(n) ==
  /\ node = n
  /\ engine = "langgraph" => steps < RecursionLimit
  /\ steps' = IF engine = "langgraph" THEN steps + 1 ELSE steps

-----------------------------------------------------------------------------
(* The supervisor.  Its early returns, in order; a later branch is taken   *)
(* only when no earlier one is.                                            *)

(* _detect_route_cycle                                                     *)
Spinning(st) ==
  LET history == SelectSeq(st.routeHistory, LAMBDA a : a # "hitl")
      n == Len(history)
  IN  /\ st.nextAction \in Workers
      /\ n >= 2
      /\ {history[n], history[n - 1]} = {st.nextAction}

(* _record_route keeps the last sixteen actions.                           *)
RecordRoute(st) ==
  IF st.nextAction \in {"supervisor", "end"} THEN st.routeHistory
  ELSE LET h == Append(st.routeHistory, st.nextAction)
       IN  SubSeq(h, IF Len(h) > 16 THEN Len(h) - 15 ELSE 1, Len(h))

(* Mutant: the pass at hand is not counted.                                *)
OverLimitTooLate(st) == st.iteration > st.maxIterations

OverLimit(st) == st.iteration + 1 > st.maxIterations

StillWaiting(st) == st.status = "waiting_hitl" /\ ~st.hitl.resolved

(* A waiting run whose chief has decided is running again.                 *)
Awake(st) == [st EXCEPT !.status = IF @ = "waiting_hitl" THEN "running" ELSE @]

AlreadySubmitted(st) == st.submitted /\ Awake(st).status = "running"

(* The state once the supervisor has counted and recorded the pass.        *)
Counted == [s EXCEPT !.iteration = @ + 1, !.routeHistory = RecordRoute(s)]

(* The three early exits that decide nothing: idle spinning, too many      *)
(* passes (both fail the run) and a run that still waits for the chief.    *)
SupStops ==
  /\ Enter("supervisor")
  /\ Spinning(s) \/ OverLimit(s) \/ StillWaiting(s)
  /\ AfterSupervisor([Counted EXCEPT
       !.routeHistory = IF Spinning(s) THEN s.routeHistory ELSE @,
       !.status = IF Spinning(s) \/ OverLimit(s) THEN "failed" ELSE @,
       !.nextAction = "end"])
  /\ UNCHANGED <<engine, base, saved, tickets, faults>>

(* The pass goes on: the rest of the supervisor reads the run from here.   *)
SupGoesOn ==
  /\ Enter("supervisor")
  /\ ~Spinning(s) /\ ~OverLimit(s) /\ ~StillWaiting(s)
  /\ UNCHANGED <<engine, base, saved, tickets, faults>>

Resumed == Awake(Counted)

(* Requests that are no business of the gate are turned away.              *)
SupRefusesIntent ==
  /\ SupGoesOn
  /\ ~AlreadySubmitted(s)
  /\ s.intent \in RefusedIntents
  /\ AfterSupervisor([Resumed EXCEPT !.status = "rejected", !.nextAction = "end"])

Business(st) == ~AlreadySubmitted(st) /\ st.intent \notin RefusedIntents

(* The chief rejected the run, or returned it to be filed again.           *)
SupChiefSaidNo ==
  /\ SupGoesOn
  /\ Business(s)
  /\ s.hitl.resolved /\ s.hitl.decision \in {"reject", "return"}
  /\ AfterSupervisor([Resumed EXCEPT
       !.status = IF s.hitl.decision = "reject" THEN "rejected" ELSE "succeeded",
       !.rework = IF s.hitl.decision = "return" THEN TRUE ELSE @,
       !.eligible = FALSE,
       !.nextAction = "end"])

Open(st) == Business(st) /\ ~(st.hitl.resolved /\ st.hitl.decision \in {"reject", "return"})

(* _route_after_rag: the worker whose result is missing.                   *)
MissingWorker(st) ==
  CASE ~st.rag.done -> "rag"
    [] st.rag.done /\ ~st.critic.done -> "quality"
    [] OTHER -> IF st.intent = "fault_dispatch" /\ st.draft = "none" THEN "work_order"
                ELSE IF st.intent = "fault_dispatch" /\ ~st.parts.done THEN "parts"
                ELSE "none"

QualityRefused(st) == st.rag.done /\ st.critic.done /\ ~st.critic.passed

DraftRefused(st) == MissingWorker(st) = "work_order" /\ ~CanCreateDraft(st.role)

SupRefusesRun ==
  /\ SupGoesOn
  /\ Open(s)
  /\ QualityRefused(s) \/ DraftRefused(s)
  /\ AfterSupervisor([Resumed EXCEPT !.status = "rejected", !.nextAction = "end"])

SupDispatches ==
  /\ SupGoesOn
  /\ Open(s)
  /\ ~QualityRefused(s) /\ ~DraftRefused(s)
  /\ MissingWorker(s) # "none"
  /\ AfterSupervisor([Resumed EXCEPT !.nextAction = MissingWorker(s)])

(* Nothing is missing: the gates, then the submission.                     *)
Complete(st) == Open(st) /\ ~QualityRefused(st) /\ MissingWorker(st) = "none"

SupAsksChief ==
  /\ SupGoesOn
  /\ Complete(s)
  /\ NeedHitl(s) /\ ~s.hitl.resolved
  /\ AfterSupervisor([Resumed EXCEPT
       !.autoSubmit = AutoSubmitAfterGates(s),
       !.hitl = [@ EXCEPT !.required = TRUE, !.resolved = FALSE,
                          !.pending = ComputePendingLayers(s), !.confirmations = {}],
       !.status = "waiting_hitl",
       !.eligible = FALSE,
       !.nextAction = "hitl"])

(* _route_submit: automatically, or because the chief approved.            *)
Gated(st) == [st EXCEPT !.autoSubmit = AutoSubmitAfterGates(st)]

(* Mutant: a draft of a run without auto_submit stays, approved or not.    *)
SubmitsOnlyByItself(st) ==
  /\ st.intent = "fault_dispatch"
  /\ EvaluateSubmitEligible(st)
  /\ ~st.submitted
  /\ st.autoSubmit /\ ~st.degraded

MaySubmit(st) ==
  /\ st.intent = "fault_dispatch"
  /\ EvaluateSubmitEligible(st)
  /\ ~st.submitted
  /\ \/ st.autoSubmit /\ ~st.degraded
     \/ Approved(st.hitl)

PassesGates(st) == Complete(st) /\ (NeedHitl(st) => st.hitl.resolved)

SupSubmits ==
  /\ SupGoesOn
  /\ PassesGates(s)
  /\ MaySubmit(Gated(s))
  /\ AfterSupervisor([Gated(Resumed) EXCEPT !.eligible = TRUE, !.nextAction = "submit"])

(* The run ends well: nothing to submit, or it was submitted already.      *)
SupFinishes ==
  /\ SupGoesOn
  /\ \/ AlreadySubmitted(s)
     \/ PassesGates(s) /\ ~MaySubmit(Gated(s))
  /\ AfterSupervisor([(IF AlreadySubmitted(s) THEN Resumed ELSE Gated(Resumed)) EXCEPT
       !.eligible = IF ~AlreadySubmitted(s) /\ s.intent = "fault_dispatch"
                      THEN EvaluateSubmitEligible(s) ELSE @,
       !.status = "succeeded",
       !.nextAction = "end"])

Supervisor ==
  \/ SupStops \/ SupRefusesIntent \/ SupChiefSaidNo \/ SupRefusesRun
  \/ SupDispatches \/ SupAsksChief \/ SupSubmits \/ SupFinishes

-----------------------------------------------------------------------------
(* The workers.                                                            *)

(* Mutant: any failure marks the run as degraded, a failed submission too. *)
FailedAndDegraded(st) ==
  [st EXCEPT !.status = "failed", !.nextAction = "end", !.degraded = TRUE]

(* A worker that fails marks the run failed and asks to end it.            *)
Failed(st) == [st EXCEPT !.status = "failed", !.nextAction = "end"]

RetrieveOnly == [NoAnswer EXCEPT !.done = TRUE, !.degraded = TRUE]

(* rag_node: ask answered.                                                 *)
RagAnswered ==
  /\ Enter("rag")
  /\ \E r \in RagResults :
       AfterWorker([s EXCEPT
         !.rag = r,
         !.degraded = r.degraded,
         !.autoSubmit = @ /\ ~r.degraded,
         !.conflict = @ \/ r.conflicts \/ s.intent = "conflict_review",
         !.draft = IF @ = "none" /\ s.intent = "fault_dispatch" /\ CanCreateDraft(s.role)
                     THEN r.workOrder ELSE @,
         !.critic = NoReport])
  /\ UNCHANGED <<engine, base, saved, tickets, streak, faults>>

(* rag_node: ask failed, but retrieve found passages.                      *)
RagRetrieved ==
  /\ Enter("rag")
  /\ AfterWorker([s EXCEPT !.rag = RetrieveOnly, !.degraded = TRUE, !.autoSubmit = FALSE,
                           !.critic = NoReport, !.status = "running",
                           !.nextAction = "supervisor"])
  /\ UNCHANGED <<engine, base, saved, tickets, streak, faults>>

(* rag_node: nothing could be had from the knowledge source.               *)
RagFailed ==
  /\ Enter("rag")
  /\ AfterWorker(Failed([s EXCEPT !.degraded = TRUE]))
  /\ UNCHANGED <<engine, base, saved, tickets, streak, faults>>

QualityChecked ==
  /\ Enter("quality")
  /\ AfterWorker([s EXCEPT !.critic = RunQualityChecks(s)])
  /\ UNCHANGED <<engine, base, saved, tickets, streak, faults>>

(* work_order_node: a draft that came with the answer is kept, otherwise   *)
(* the draft service is called; the quality check is run again on it.      *)
WorkOrderDrafted ==
  /\ Enter("work_order")
  /\ \E d \in (IF s.draft = "none" THEN Drafts \ {"none"} ELSE {s.draft}) :
       AfterWorker([s EXCEPT !.draft = d, !.critic = RunQualityChecks([s EXCEPT !.draft = d])])
  /\ UNCHANGED <<engine, base, saved, tickets, streak, faults>>

WorkOrderFailed ==
  /\ Enter("work_order")
  /\ s.draft = "none"
  /\ AfterWorker(Failed(s))
  /\ UNCHANGED <<engine, base, saved, tickets, streak, faults>>

PartsChecked ==
  /\ Enter("parts")
  /\ \E p \in PartsResults : AfterWorker([s EXCEPT !.parts = p])
  /\ UNCHANGED <<engine, base, saved, tickets, streak, faults>>

(* Mutant: the outbox replays without a look whether there is a file.      *)
ReplaysBlindly(t) == IF FileOutbox THEN tickets ELSE Append(tickets, t)

(* submit_destination: the file outbox writes one file per run and replays *)
(* it; the mock inbox is posted to on every call.                          *)
Deliver(t) == IF FileOutbox /\ tickets # <<>> THEN tickets ELSE Append(tickets, t)

(* submit_node: the ticket is filed, or had been filed already.            *)
Submitted ==
  /\ Enter("submit")
  /\ s.submitted \/ EvaluateSubmitEligible(s)
  /\ tickets' = IF s.submitted THEN tickets ELSE Deliver(TicketOf(s))
  /\ AfterWorker([s EXCEPT !.submitted = TRUE, !.status = "succeeded", !.nextAction = "end",
                           !.eligible = @ \/ ~s.submitted])
  /\ UNCHANGED <<engine, base, saved, streak, faults>>

(* submit_node: the gate refuses, or the destination raised - for the mock *)
(* inbox possibly after the ticket had arrived (a timeout, an answer that  *)
(* breaks the contract).                                                   *)
SubmitFailed ==
  /\ Enter("submit")
  /\ ~s.submitted
  /\ \E arrived \in BOOLEAN :
       /\ arrived => ~FileOutbox /\ EvaluateSubmitEligible(s)
       /\ tickets' = IF arrived THEN Deliver(TicketOf(s)) ELSE tickets
  /\ AfterWorker(Failed([s EXCEPT !.eligible = EvaluateSubmitEligible(s)]))
  /\ UNCHANGED <<engine, base, saved, streak, faults>>

Worker ==
  \/ RagAnswered \/ RagRetrieved \/ RagFailed
  \/ QualityChecked
  \/ WorkOrderDrafted \/ WorkOrderFailed
  \/ PartsChecked
  \/ Submitted \/ SubmitFailed

-----------------------------------------------------------------------------
(* The chief.                                                              *)

(* hitl_node interrupts; the engine saves the run as waiting.              *)
Pauses ==
  /\ Enter("human_confirm")
  /\ ~s.hitl.resolved
  /\ node' = "paused"
  /\ saved' = RowOf(s)
  /\ UNCHANGED <<s, engine, base, tickets, streak, faults>>

(* decide_hitl and apply_hitl: an approval must tick every pending layer.  *)
(* The graph is resumed inside hitl_node with the decision; the state the  *)
(* engine was handed is the saved one with the decision written into it.   *)
(* Without its checkpoint the run goes on in the fallback engine, unless   *)
(* the engine is strict.                                                   *)
LayersAsked(st) == IF st.hitl.pending # {} THEN st.hitl.pending ELSE ComputePendingLayers(st)

(* Mutant: the engine is handed the saved state without the decision.      *)
ChiefDecidesUnrecorded ==
  /\ node = "paused"
  /\ saved.status = "waiting_hitl"
  /\ \E d \in Decisions \ {"none"}, ticked \in Confirmations :
       /\ d = "approve" => MissingLayerConfirmations(LayersAsked(s), ticked) = {}
       /\ base' = s
       /\ s' = [s EXCEPT !.hitl = [@ EXCEPT !.required = TRUE, !.resolved = TRUE,
                                           !.decision = d, !.confirmations = ticked],
                         !.status = "running", !.nextAction = "supervisor"]
  /\ node' = "supervisor"
  /\ steps' = 1
  /\ engine' = engine \/ (~EngineStrict /\ engine' = "fallback")
  /\ UNCHANGED <<saved, tickets, streak, faults>>

ChiefDecides ==
  /\ node = "paused"
  /\ saved.status = "waiting_hitl"
  /\ \E d \in Decisions \ {"none"}, ticked \in Confirmations :
       /\ d = "approve" => MissingLayerConfirmations(LayersAsked(s), ticked) = {}
       /\ LET hitl == [s.hitl EXCEPT !.required = TRUE, !.resolved = TRUE,
                                     !.decision = d, !.confirmations = ticked]
          IN  /\ base' = [s EXCEPT !.hitl = hitl]
              /\ s' = [s EXCEPT !.hitl = hitl, !.status = "running",
                                !.nextAction = "supervisor"]
  /\ node' = "supervisor"
  /\ steps' = 1
  /\ engine' = engine \/ (~EngineStrict /\ engine' = "fallback")
  /\ UNCHANGED <<saved, tickets, streak, faults>>

(* hitl_node with a decision already in the state: the fallback engine     *)
(* taking over a resumption that raised.                                   *)
HitlResolved ==
  /\ Enter("human_confirm")
  /\ s.hitl.resolved
  /\ AfterWorker([s EXCEPT !.status = "running", !.nextAction = "supervisor"])
  /\ UNCHANGED <<engine, base, saved, tickets, streak, faults>>

-----------------------------------------------------------------------------
(* The engine.                                                             *)

Executing == node \in Workers \cup {"supervisor", "human_confirm"}

(* Mutant: a graph that raised is invoked again, from where it was handed  *)
(* the run.                                                                *)
InvokesAgain ==
  /\ Executing
  /\ engine = "langgraph"
  /\ steps >= RecursionLimit \/ faults < MaxFaults
  /\ faults' = IF steps >= RecursionLimit THEN faults ELSE faults + 1
  /\ s' = base /\ steps' = 0
  /\ node' = IF base.nextAction = "hitl" THEN "human_confirm" ELSE "supervisor"
  /\ streak' = [worker |-> "none", count |-> 0]
  /\ UNCHANGED <<engine, base, saved, tickets>>

(* The graph raises: it ran into its recursion limit, or a node, the       *)
(* checkpointer or the library failed.  Strictly the run is failed; else   *)
(* the fallback engine starts over from the state the engine was handed.   *)
EngineRaises ==
  /\ Executing
  /\ engine = "langgraph"
  /\ steps >= RecursionLimit \/ faults < MaxFaults
  /\ faults' = IF steps >= RecursionLimit THEN faults ELSE faults + 1
  /\ IF EngineStrict
       THEN /\ s' = Failed(base)
            /\ saved' = RowOf(Failed(base))
            /\ node' = "done"
            /\ UNCHANGED <<engine, streak>>
       ELSE /\ s' = base
            /\ engine' = "fallback"
            /\ node' = IF base.nextAction = "hitl" THEN "human_confirm" ELSE "supervisor"
            /\ streak' = [worker |-> "none", count |-> 0]
            /\ UNCHANGED saved
  /\ UNCHANGED <<steps, base, tickets>>

(* The run has ended: its state is saved.                                  *)
Finishes ==
  /\ node = "end"
  /\ node' = "done"
  /\ saved' = RowOf(s)
  /\ UNCHANGED <<s, engine, steps, base, tickets, streak, faults>>

Step == Supervisor \/ Worker \/ Pauses \/ HitlResolved \/ Finishes

Next == Step \/ ChiefDecides \/ EngineRaises

Spec == Init /\ [][Next]_vars

(* The engine keeps calling nodes; nobody obliges a chief to decide, and   *)
(* nothing obliges the engine to raise, except at its recursion limit.     *)
LimitRaises == EngineRaises /\ steps >= RecursionLimit

FairSpec == Spec /\ WF_vars(Step) /\ WF_vars(LimitRaises)

-----------------------------------------------------------------------------
(* Properties.                                                             *)

TicketType == [role : Roles, raised : SUBSET Layers, decision : Decisions,
               confirmed : SUBSET Layers, phase : {"resolved"}]

(* Every variable keeps its type (graph/state.py CopilotState).            *)
TypeOK ==
  /\ s \in CopilotState /\ base \in CopilotState
  /\ engine \in {"langgraph", "fallback"}
  /\ node \in Workers \cup {"supervisor", "human_confirm", "paused", "end", "done"}
  /\ steps \in Nat /\ faults \in Nat
  /\ saved \in [status : Statuses \cup {"none"}, submitted : BOOLEAN]
  /\ tickets \in Seq(TicketType)
  /\ streak \in [worker : Workers \cup {"none"}, count : Nat]

(* "No ticket before the gate is passed": a ticket reached the destination *)
(* only after a chief approved and ticked every layer the facts of the run *)
(* raise, or by itself for a chief's own request that raises none.  The    *)
(* gate is evaluated by the supervisor, by submit_node and by decide_hitl  *)
(* on copies of the state taken at different times.                        *)
GatedTicket(t) ==
  \/ t.decision = "approve" /\ t.raised \subseteq t.confirmed
  \/ t.decision = "none" /\ t.raised = {} /\ t.role = "station_chief"

GatedTickets == \A i \in DOMAIN tickets : GatedTicket(tickets[i])

(* A run the chief rejected or returned never has a ticket, whichever      *)
(* engine carries the decision on and however often it is retried.         *)
ChiefsNoHolds == s.hitl.decision \in {"reject", "return"} => tickets = <<>> /\ ~saved.submitted

(* A row that names a ticket is backed by one at the destination.          *)
NoPhantomTicket == saved.submitted => tickets # <<>>

(* What the chief is asked is enough: approving exactly the layers shown   *)
(* lifts every blocker evaluate_submit_eligible knows, so compute_pending_ *)
(* layers, the gates and the eligibility rules never disagree.             *)
ApprovedAsAsked(st) ==
  [st EXCEPT !.hitl = [@ EXCEPT !.resolved = TRUE, !.decision = "approve",
                                !.confirmations = LayersAsked(st)]]

AskIsEnough ==
  node = "paused" /\ s.intent = "fault_dispatch" => EvaluateSubmitEligible(ApprovedAsAsked(s))

(* An approved dispatch that ends well has filed its ticket: no way leads  *)
(* from the approval past the submission to a successful end.              *)
ApprovalIsHonoured ==
  (saved.status = "succeeded" /\ s.hitl.decision = "approve" /\ s.intent = "fault_dispatch")
     => saved.submitted

(* The supervisor's pass limit bounds how often a failing worker is called *)
(* again, for the graph leads every failed worker back to the supervisor.  *)
RetriesBounded == streak.count <= s.maxIterations

(* A chief's decision is never dropped or replaced within a run, not even  *)
(* when the resumed graph raises and the fallback engine starts over.      *)
DecisionStands == [][s.hitl.resolved => s'.hitl = s.hitl]_vars

(* A run always comes to rest, finished or waiting for the chief: failing  *)
(* workers, engine exceptions and resumptions do not keep it going.        *)
Rests == []<>(node \in {"paused", "done"})

(* Said by the documents, and not so.                                      *)

(* ARCHITECTURE.md: submission is the last node, submit -> END; so a run   *)
(* that has its ticket is not failed afterwards.                           *)
FiledRunIsNotFailed == saved.submitted => saved.status # "failed"

=============================================================================
