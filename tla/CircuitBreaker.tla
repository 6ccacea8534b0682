---------------------------- MODULE CircuitBreaker ----------------------------
(***************************************************************************)
(* The breaker in front of the knowledge source: tools/circuit_breaker.py  *)
(* as RagClient._request (tools/rag_client.py) uses it from the threads of *)
(* the request pool.  The lock makes each circuit_* call atomic; between   *)
(* being let through and recording the outcome a call holds no lock.       *)
(***************************************************************************)
EXTENDS Integers, FiniteSets

CONSTANTS
  Callers,           (* threads that may be calling the source             *)
  FailureThreshold,  (* RagClient._CIRCUIT_THRESHOLD                       *)
  MaxRetries         (* RagClient._MAX_RETRIES, for GET only               *)

ASSUME BreakerAssumption ==
  IsFiniteSet(Callers) /\ FailureThreshold \in Nat \ {0} /\ MaxRetries \in Nat

VARIABLES
  open, failures,    (* CircuitState                                       *)
  cooled,            (* cooldown_s has passed since opened_at              *)
  attempts,          (* attempts[c]: attempts the call of c has left       *)
  up                 (* the source answers                                 *)

vars == <<open, failures, cooled, attempts, up>>

Init ==
  /\ open = FALSE /\ failures = 0 /\ cooled = FALSE
  /\ attempts = [c \in Callers |-> 0]
  /\ up \in BOOLEAN

-----------------------------------------------------------------------------
Admits == ~open \/ cooled

(* circuit_allow, then the call: a GET has retries, any other method none. *)
(* A cooled breaker closes and forgets its failures.                       *)
Calls(c) ==
  /\ attempts[c] = 0
  /\ Admits
  /\ \E n \in {1, MaxRetries + 1} : attempts' = [attempts EXCEPT ![c] = n]
  /\ open' = FALSE
  /\ failures' = IF open THEN 0 ELSE failures
  /\ UNCHANGED <<cooled, up>>

Ends(c) ==
  /\ attempts[c] > 0
  /\ attempts' = [attempts EXCEPT ![c] = 0]
  /\ UNCHANGED up

(* circuit_record_success: also a late one, of a call let through before   *)
(* the breaker opened.                                                     *)
Succeeds(c) ==
  /\ up
  /\ Ends(c)
  /\ open' = FALSE /\ failures' = 0 /\ cooled' = FALSE

(* An answer below 500 other than success is recorded as nothing.          *)
IsRefused(c) ==
  /\ up
  /\ Ends(c)
  /\ UNCHANGED <<open, failures, cooled>>

(* A transient failure with attempts left: no outcome is recorded.         *)
Retries(c) ==
  /\ ~up
  /\ attempts[c] > 1
  /\ attempts' = [attempts EXCEPT ![c] = @ - 1]
  /\ UNCHANGED <<open, failures, cooled, up>>

(* Mutant: the breaker opens when the count passes the threshold.          *)
OpensLate(n) == n > FailureThreshold

Opens(n) == n >= FailureThreshold

(* circuit_record_failure, after the last attempt or an error that is not  *)
(* retried; a late one restarts the cooldown of an open breaker.           *)
Fails(c) ==
  /\ ~up
  /\ Ends(c)
  /\ failures' = failures + 1
  /\ open' = (open \/ Opens(failures'))
  /\ cooled' = (cooled /\ ~Opens(failures'))

(* Mutant: time passes for a closed breaker only.                          *)
NeverCools ==
  /\ ~open /\ ~cooled
  /\ cooled' = TRUE
  /\ UNCHANGED <<open, failures, attempts, up>>

CoolsDown ==
  /\ open /\ ~cooled
  /\ cooled' = TRUE
  /\ UNCHANGED <<open, failures, attempts, up>>

SourceTurns ==
  /\ up' = ~up
  /\ UNCHANGED <<open, failures, cooled, attempts>>

Outcome(c) == Succeeds(c) \/ IsRefused(c) \/ Retries(c) \/ Fails(c)

Next ==
  \/ \E c \in Callers : Calls(c) \/ Outcome(c)
  \/ CoolsDown \/ SourceTurns

Spec == Init /\ [][Next]_vars

(* Every call times out at the latest, time passes, and somebody asks.     *)
FairSpec ==
  /\ Spec
  /\ \A c \in Callers : WF_vars(Calls(c)) /\ WF_vars(Outcome(c))
  /\ WF_vars(CoolsDown)

-----------------------------------------------------------------------------
(* Every variable keeps its type (CircuitState, the loop of _request).     *)
TypeOK ==
  /\ open \in BOOLEAN /\ cooled \in BOOLEAN /\ up \in BOOLEAN
  /\ failures \in Nat
  /\ attempts \in [Callers -> 0 .. MaxRetries + 1]

InFlight == {c \in Callers : attempts[c] > 0}

(* However the calls overlap, a source that is down costs at most the      *)
(* threshold and one late failure of every other caller before the breaker *)
(* is reset: the count never runs away (circuit_record_failure).           *)
FailuresBounded ==
  /\ failures + Cardinality(InFlight) < FailureThreshold + Cardinality(Callers)
  /\ ~open => failures < FailureThreshold

(* Once the source stays up the breaker does not keep it out for good,     *)
(* whatever late results arrive (circuit_allow).                           *)
Recovers == <>[]up => []<>~open

=============================================================================
