------------------------------ MODULE MCGateRun ------------------------------
(* Small worlds for GateRun.                                               *)
EXTENDS GateRun

Plain == [secondVisit |-> FALSE, urgent |-> FALSE, station |-> TRUE,
          weatherRisk |-> FALSE, faultCodes |-> TRUE, vague |-> FALSE]

MCTickets == {Plain,
              [Plain EXCEPT !.urgent = TRUE],
              [Plain EXCEPT !.secondVisit = TRUE, !.station = FALSE],
              [Plain EXCEPT !.weatherRisk = TRUE, !.faultCodes = FALSE],
              [Plain EXCEPT !.vague = TRUE]}

(* Every role and intent that the rules tell apart, both settings of       *)
(* auto_submit, and pass limits that end a run early, in time and late: the*)
(* largest that the API takes is beyond the graph's recursion limit.       *)
MCRequests ==
  [role : {"technician", "station_chief", "finance"}, intent : {"fault_dispatch"},
   ticket : MCTickets, autoSubmit : BOOLEAN, maxIterations : {5, 8}, engine : {"langgraph"}]
  \cup
  [role : {"technician"}, intent : {"injection", "knowledge_only", "conflict_review"},
   ticket : {Plain}, autoSubmit : {TRUE}, maxIterations : {8}, engine : {"langgraph", "fallback"}]
  \cup
  [role : {"technician", "station_chief"}, intent : {"fault_dispatch"},
   ticket : {Plain}, autoSubmit : BOOLEAN, maxIterations : {8}, engine : {"fallback"}]
  \cup
  [role : {"technician"}, intent : {"fault_dispatch"},
   ticket : {Plain}, autoSubmit : {TRUE}, maxIterations : {20}, engine : {"langgraph"}]

Good == [done |-> TRUE, block |-> "no", evidence |-> TRUE,
         conflicts |-> FALSE, degraded |-> FALSE, workOrder |-> "none"]

MCRagResults == {Good,
                 [Good EXCEPT !.workOrder = "coded"],
                 [Good EXCEPT !.conflicts = TRUE, !.evidence = FALSE],
                 [Good EXCEPT !.degraded = TRUE, !.workOrder = "bare"],
                 [Good EXCEPT !.block = "grounding"],
                 [Good EXCEPT !.block = "hard"]}

InStock == [done |-> TRUE, shortage |-> FALSE, unverified |-> FALSE]

MCPartsResults == {InStock, [InStock EXCEPT !.shortage = TRUE],
                   [InStock EXCEPT !.shortage = TRUE, !.unverified = TRUE]}

(* A chief ticks nothing, one layer, the usual ones or all of them.        *)
MCConfirmations == {{}, {"degrade"}, {"sla"}, {"sla", "station", "shortage"},
                    {"conflict", "weather"}, Layers}

=============================================================================
