----------------------------- MODULE RunLifecycle -----------------------------
(***************************************************************************)
(* What a caller of the service may rely on for each run, whatever happens *)
(* inside (ARCHITECTURE.md, the sequence of the chief's confirmation): a   *)
(* run may come to wait for the chief once, and closes once; the ticket is *)
(* filed at most once and only while the run is open; a run that closes as *)
(* rejected has none.  Only cancelling touches a closed run.               *)
(***************************************************************************)
CONSTANT Runs

VARIABLES
  status,    (* status[r]: what GET /runs/{r} shows                        *)
  filed      (* the runs with a ticket at the destination                  *)

lifecycle == <<status, filed>>

Closed == {"succeeded", "failed", "rejected", "cancelled"}

Init ==
  /\ status = [r \in Runs |-> "none"]
  /\ filed = {}

Wait(r) ==
  /\ status[r] = "none" /\ r \notin filed
  /\ status' = [status EXCEPT ![r] = "waiting_hitl"]
  /\ UNCHANGED filed

File(r) ==
  /\ status[r] \in {"none", "waiting_hitl"} /\ r \notin filed
  /\ filed' = filed \cup {r}
  /\ UNCHANGED status

Close(r) ==
  /\ status[r] \in {"none", "waiting_hitl"}
  /\ \E how \in Closed :
       /\ how = "rejected" => r \notin filed
       /\ status' = [status EXCEPT ![r] = how]
  /\ UNCHANGED filed

Cancel(r) ==
  /\ status[r] # "none"
  /\ status' = [status EXCEPT ![r] = "cancelled"]
  /\ UNCHANGED filed

Next == \E r \in Runs : Wait(r) \/ File(r) \/ Close(r) \/ Cancel(r)

Spec == Init /\ [][Next]_lifecycle

=============================================================================
