------------------------------ MODULE GatePolicy ------------------------------
(***************************************************************************)
(* The deterministic rules of the ticket gate, as operators on the fields  *)
(* of one run's state that they read: who may draft and submit             *)
(* (policy/role_graph.py), which confirmation layers a station chief must  *)
(* tick (policy/hitl_layers.py), what blocks a submission                  *)
(* (policy/gates.py), when the supervisor must stop for the chief          *)
(* (graph/nodes.py) and the rule-based quality check (quality/rules.py).   *)
(*                                                                         *)
(* A run is a record; only truth values the rules branch on are kept.      *)
(***************************************************************************)

CONSTANTS
  EnableWeatherPol,        (* settings.enable_weather_pol                  *)
  HitlRequiredOnConflict   (* settings.hitl_required_on_conflict           *)

ASSUME SettingsAssumption ==
  /\ EnableWeatherPol \in BOOLEAN
  /\ HitlRequiredOnConflict \in BOOLEAN

-----------------------------------------------------------------------------
(* Roles, intents and layers.                                              *)

Roles == {"technician", "parts_clerk", "station_chief", "finance", "hr", "general"}

(* Mutant: the column for drafting is read where the one for submitting    *)
(* should be.                                                              *)
AnyDrafterSubmits(role) == role \notin {"finance", "hr"}

(* Rows of ROLE_MATRIX; a role that is no row is read as a technician.     *)
CanSubmit(role) == role = "station_chief"
CanCreateDraft(role) == role \notin {"finance", "hr"}

RefusedIntents == {"chitchat", "injection", "acl_probe"}
Intents == RefusedIntents \cup {"fault_dispatch", "knowledge_only", "conflict_review"}

Layers == {"conflict", "shortage", "sla", "degrade", "station", "ledger", "weather", "intent"}

Decisions == {"none", "approve", "reject", "return"}

(* The service ticket extracted from the request: only the fields a rule   *)
(* asks about.  "vague" is an intent confidence below the threshold.       *)
Tickets == [secondVisit : BOOLEAN, urgent : BOOLEAN, station : BOOLEAN,
            weatherRisk : BOOLEAN, faultCodes : BOOLEAN, vague : BOOLEAN]

(* What the knowledge source answered; done = FALSE is the empty result.   *)
RagAnswers == [done : BOOLEAN, block : {"no", "grounding", "hard"}, evidence : BOOLEAN,
               conflicts : BOOLEAN, degraded : BOOLEAN, workOrder : {"none", "bare", "coded"}]
NoAnswer == [done |-> FALSE, block |-> "no", evidence |-> FALSE,
             conflicts |-> FALSE, degraded |-> FALSE, workOrder |-> "none"]

(* A work order draft, with or without fault codes in it.                  *)
Drafts == {"none", "bare", "coded"}

(* The parts pre-check: a shortage; "unverified" is a degraded ledger, an  *)
(* unknown part or a part of another machine model.                        *)
PartsChecks == [done : BOOLEAN, shortage : BOOLEAN, unverified : BOOLEAN]
NoParts == [done |-> FALSE, shortage |-> FALSE, unverified |-> FALSE]

Reports == [done : BOOLEAN, passed : BOOLEAN, forceHitl : BOOLEAN]
NoReport == [done |-> FALSE, passed |-> FALSE, forceHitl |-> FALSE]

Hitls == [required : BOOLEAN, resolved : BOOLEAN, decision : Decisions,
          pending : SUBSET Layers, confirmations : SUBSET Layers]
NoHitl == [required |-> FALSE, resolved |-> FALSE, decision |-> "none",
           pending |-> {}, confirmations |-> {}]

-----------------------------------------------------------------------------
(* Layered confirmation.                                                   *)

Approved(hitl) == hitl.resolved /\ hitl.decision = "approve"

LayerConfirmed(hitl, layer) == Approved(hitl) /\ layer \in hitl.confirmations

MissingLayerConfirmations(pending, confirmations) == pending \ confirmations

VagueDispatch(st) == st.intent = "fault_dispatch" /\ st.ticket.vague
WeatherRaised(st) == EnableWeatherPol /\ st.ticket.weatherRisk
SlaRaised(st) == st.ticket.secondVisit \/ st.ticket.urgent

(* The layers the facts of a run raise, before the catch-all of force_hitl *)
FactLayers(st) ==
  {l \in Layers :
     \/ l = "conflict" /\ (st.conflict \/ st.intent = "conflict_review")
     \/ l = "shortage" /\ st.parts.shortage
     \/ l = "ledger" /\ st.parts.unverified
     \/ l = "sla" /\ SlaRaised(st)
     \/ l = "degrade" /\ st.degraded
     \/ l = "station" /\ st.intent = "fault_dispatch" /\ ~st.ticket.station
     \/ l = "weather" /\ WeatherRaised(st)
     \/ l = "intent" /\ VagueDispatch(st)}

(* Mutant: a forced confirmation hides the layers the facts raise.         *)
OnlyDegradeWhenForced(st) == IF st.critic.forceHitl THEN {"degrade"} ELSE FactLayers(st)

ComputePendingLayers(st) ==
  IF st.critic.forceHitl /\ FactLayers(st) = {} THEN {"degrade"} ELSE FactLayers(st)

-----------------------------------------------------------------------------
(* evaluate_submit_eligible: a draft may leave only when nothing blocks it *)

Blocked(st) ==
  \/ st.draft = "none"
  \/ st.critic.done /\ ~st.critic.passed
  \/ st.conflict /\ ~LayerConfirmed(st.hitl, "conflict")
  \/ st.parts.shortage /\ ~LayerConfirmed(st.hitl, "shortage")
  \/ st.parts.unverified /\ ~LayerConfirmed(st.hitl, "ledger")
  \/ st.critic.forceHitl /\ ~Approved(st.hitl)
  \/ st.degraded /\ ~LayerConfirmed(st.hitl, "degrade")
  \/ SlaRaised(st) /\ ~LayerConfirmed(st.hitl, "sla")
  \/ st.hitl.required /\ ~st.hitl.resolved
  \/ st.hitl.resolved /\ st.hitl.decision \in {"reject", "return"}
  \/ ~st.ticket.station /\ ~LayerConfirmed(st.hitl, "station")
  \/ WeatherRaised(st) /\ ~LayerConfirmed(st.hitl, "weather")
  \/ VagueDispatch(st) /\ ~LayerConfirmed(st.hitl, "intent")
  \/ ~CanSubmit(st.role) /\ ~Approved(st.hitl)

EvaluateSubmitEligible(st) == ~Blocked(st)

-----------------------------------------------------------------------------
(* _evaluate_hitl_gates: whether the chief must be asked.  Beside the      *)
(* answer, the function clears auto_submit when the knowledge source was   *)
(* degraded or when the requester's role may not submit by itself.         *)

GateReady(st) == st.intent = "fault_dispatch" => st.draft # "none" /\ st.parts.done

RoleGate(st) ==
  /\ st.intent = "fault_dispatch"
  /\ ~CanSubmit(st.role)
  /\ st.autoSubmit /\ ~st.degraded

NeedHitl(st) ==
  /\ GateReady(st)
  /\ \/ HitlRequiredOnConflict /\ (st.conflict \/ st.intent = "conflict_review")
     \/ st.critic.forceHitl
     \/ st.parts.shortage
     \/ st.parts.unverified
     \/ SlaRaised(st)
     \/ st.degraded
     \/ st.intent = "fault_dispatch" /\ ~st.ticket.station
     \/ WeatherRaised(st)
     \/ VagueDispatch(st)
     \/ RoleGate(st)

AutoSubmitAfterGates(st) ==
  st.autoSubmit /\ ~(GateReady(st) /\ (st.degraded \/ RoleGate(st)))

-----------------------------------------------------------------------------
(* run_quality_checks: reasons that refuse the run outright, and reasons   *)
(* that only force the chief's confirmation.  Missing evidence is soft     *)
(* when sources conflict, for the chief has to look anyway.                *)

ConflictPresent(st) == st.rag.conflicts \/ st.conflict \/ st.intent = "conflict_review"

Ungrounded(st) ==
  \/ st.rag.block = "grounding"
  \/ st.rag.block = "no" /\ ~st.rag.evidence

DraftLacksCodes(st) ==
  st.intent = "fault_dispatch" /\ st.draft = "bare" /\ ~st.ticket.faultCodes

HardReason(st) ==
  \/ st.rag.block = "hard"
  \/ Ungrounded(st) /\ ~ConflictPresent(st)
  \/ DraftLacksCodes(st)
  \/ st.intent = "knowledge_only" /\ st.draft # "none"

RunQualityChecks(st) ==
  [done |-> TRUE,
   passed |-> ~HardReason(st),
   forceHitl |-> \/ st.rag.degraded \/ st.degraded
                 \/ ConflictPresent(st)
                 \/ st.parts.shortage \/ st.parts.unverified]

=============================================================================
