---------------------------- MODULE KnowledgeSource ----------------------------
(***************************************************************************)
(* How the service reaches the knowledge source: tools/rag_factory.py      *)
(* decides between RagClient (http) and DemoRagClient (fixture) by a cached*)
(* probe, main.py guards the runs that must be live, and every call goes   *)
(* through the circuit breaker.  A caller is a request thread; its request *)
(* creates a run, decides on one, asks for /health or reads the inbox.     *)
(*                                                                         *)
(* Time passes in ticks.  An age counts the ticks since something happened *)
(* and stops at Ttl, RAG_REACHABILITY_TTL_S.  The cooldown of the breaker  *)
(* is as long as it likes.                                                 *)
(***************************************************************************)
EXTENDS CircuitBreaker

CONSTANTS
  Runs,
  Settings,      (* subsets of the switches below                          *)
  Ttl,
  None

(* offline: DEMO_OFFLINE.  fallback: RAG_AUTO_FALLBACK.  live: REQUIRE_LIVE*)
(* or BLOCK_RUNS_WHEN_NOT_LIVE.  standalone: COPILOT_RUNTIME_MODE says so. *)
(* inbox: SUBMIT_DESTINATION=rag_mock_inbox.                               *)
Switches == {"offline", "fallback", "live", "standalone", "inbox"}

ASSUME SourceAssumption ==
  Ttl \in Nat /\ Settings \subseteq SUBSET Switches /\ None \notin {"up", "down"}

VARIABLES
  on,            (* the switches of this process                           *)
  cache,         (* _rag_reachable_cache and the age of its stamp          *)
  job,           (* job[c]: the request the caller is in                   *)
  run,           (* run[r]: its row                                        *)
  lastUp,        (* history: age of the source answering                   *)
  lastTrouble    (* history: age of the source, or the breaker, not letting*)
                 (* a call through, or of an answer that is none           *)

wire == <<open, failures, cooled, attempts, up>>
seen == <<lastUp, lastTrouble>>
all  == <<wire, on, cache, job, run, seen>>

Free == [pc |-> "free", for |-> "none", run |-> None, client |-> "none",
         force |-> FALSE, age |-> 0, found |-> None]

NoRun == [status |-> "none", rag_offline_mode |-> FALSE, ticket |-> "none", asked |-> "none"]

SourceInit ==
  /\ Init
  /\ on \in Settings
  /\ cache = None
  /\ job = [c \in Callers |-> Free]
  /\ run = [r \in Runs |-> NoRun]
  /\ lastUp = (IF up THEN 0 ELSE Ttl) /\ lastTrouble = (IF up THEN Ttl ELSE 0)

-----------------------------------------------------------------------------
(* resolve_runtime_mode: the explicit mode wins; offline without the       *)
(* demand to be live is standalone as well.                                *)
Standalone == "standalone" \in on \/ ("offline" \in on /\ "live" \notin on)

(* _live_required                                                          *)
LiveRequired ==
  ~Standalone /\ ("live" \in on \/ ("fallback" \notin on /\ "offline" \notin on))

Goes(c, j) == job' = [job EXCEPT ![c] = j]

Frees(c) == Goes(c, Free)

(* A request on its way to its next probe, or to its calls.                *)
Moves(j, pc, force) == [j EXCEPT !.pc = pc, !.force = force, !.age = 0, !.found = None]

(* _guard_live_linkage, build_rag_client, _guard_live_client: only the     *)
(* guards insist on a probe of their own.                                  *)
Guarded(j) == IF LiveRequired THEN Moves(j, "guard", TRUE) ELSE Moves(j, "build", FALSE)

Built(j, client) ==
  LET k == [j EXCEPT !.client = client]
  IN  CASE j.for = "create" -> IF LiveRequired THEN Moves(k, "guard_client", TRUE)
                               ELSE Moves(k, "trace", FALSE)
        [] j.for = "decide" -> Moves(k, "submit", FALSE)
        [] j.for = "inbox"  -> Moves(k, "read", FALSE)

(* Mutant: falling back leaves the request without a client.               *)
BuildsNothing(j, reach) ==
  IF reach THEN Built(j, "http")
  ELSE IF "fallback" \in on THEN Built(j, "none") ELSE Free

BuildsClient(j, reach) ==
  IF reach THEN Built(j, "http")
  ELSE IF "fallback" \in on THEN Built(j, "fixture") ELSE Free

(* Mutant: the second guard looks at the source only.                      *)
PassesAnyClient(j, reach) == IF reach THEN Moves(j, "trace", FALSE) ELSE Free

PassesClient(j, reach) ==
  IF reach /\ j.client = "http" THEN Moves(j, "trace", FALSE) ELSE Free

(* What becomes of a request once it knows whether the source is reached;  *)
(* the trace of a new run only writes it down.                             *)
Reached(j, reach) ==
  CASE j.pc = "guard"  -> IF reach THEN Moves(j, "build", FALSE) ELSE Free
    [] j.pc = "build"  -> BuildsClient(j, reach)
    [] j.pc = "guard_client" -> PassesClient(j, reach)
    [] j.pc = "trace"  -> Moves(j, "ask", FALSE)
    [] j.pc = "health" -> IF reach THEN Moves(j, "read", FALSE) ELSE Free

Asking == {"guard", "build", "guard_client", "trace", "health"}

(* Without the fallback, build_rag_client does not trust the cache.        *)
Forced(j) == j.force \/ (j.pc = "build" /\ "fallback" \notin on)

-----------------------------------------------------------------------------
(* A request comes in.  decide_hitl takes a run that waits and has no      *)
(* guard; /health and /inbox have none either.                             *)
Creates(c) ==
  \E r \in Runs :
    /\ run[r].status = "none" /\ \A d \in Callers : job[d].run # r
    /\ Goes(c, Guarded([Free EXCEPT !.for = "create", !.run = r]))

Decides(c) ==
  \E r \in Runs :
    /\ run[r].status = "waiting_hitl" /\ \A d \in Callers : job[d].run # r
    /\ Goes(c, Moves([Free EXCEPT !.for = "decide", !.run = r], "build", FALSE))

ReadsHealth(c) ==
  "offline" \notin on /\ Goes(c, Moves([Free EXCEPT !.for = "health"], "health", TRUE))

ReadsInbox(c) == Goes(c, Moves([Free EXCEPT !.for = "inbox"], "build", FALSE))

Asks(c) ==
  /\ job[c].pc = "free"
  /\ Creates(c) \/ Decides(c) \/ ReadsHealth(c) \/ ReadsInbox(c)
  /\ UNCHANGED <<wire, on, cache, run, seen>>

(* is_rag_reachable, offline or within the ttl.                            *)
Cached == cache # None /\ cache.age < Ttl

Unprobed(c) == job[c].pc \in Asking /\ attempts[c] = 0 /\ job[c].found = None

KnowsReach(c) ==
  /\ Unprobed(c)
  /\ \/ /\ "offline" \in on
        /\ Goes(c, IF job[c].pc = "build" THEN Built(job[c], "fixture")
                   ELSE Reached(job[c], FALSE))
     \/ /\ "offline" \notin on /\ ~Forced(job[c]) /\ Cached
        /\ Goes(c, Reached(job[c], cache.value))
  /\ UNCHANGED <<wire, on, cache, run, seen>>

(* Otherwise the clock is read and GET /health sent, unless the breaker    *)
(* forbids it, in one step: nothing is waited for in between.              *)
NeedsProbe(c) == Unprobed(c) /\ "offline" \notin on /\ (Forced(job[c]) \/ ~Cached)

StartsProbe(c) ==
  /\ NeedsProbe(c)
  /\ Calls(c) /\ attempts'[c] = MaxRetries + 1
  /\ Goes(c, [job[c] EXCEPT !.age = 0])
  /\ UNCHANGED <<on, cache, run, seen>>

Finds(c, found) == Goes(c, [job[c] EXCEPT !.found = found])

RefusedProbe(c) ==
  /\ NeedsProbe(c) /\ ~Admits
  /\ Finds(c, "down")
  /\ UNCHANGED <<wire, on, cache, run, seen>>

(* A refusal, or an answer that is no JSON, is trouble to a probe only.    *)
Puzzles(c) == (IsRefused(c) \/ Succeeds(c)) /\ Finds(c, "down") /\ lastTrouble' = 0

ProbeEnds(c) ==
  /\ job[c].pc \in Asking /\ attempts[c] > 0
  /\ \/ Puzzles(c)
     \/ /\ \/ Succeeds(c) /\ Finds(c, "up")
           \/ Fails(c) /\ Finds(c, "down")
           \/ Retries(c) /\ UNCHANGED job
        /\ UNCHANGED lastTrouble
  /\ UNCHANGED <<on, cache, run, lastUp>>

(* Mutant: the verdict is stamped with the time it is stored at.           *)
StampedWhenStored(j) == [value |-> j.found = "up", age |-> 0]

(* Verdict and stamp, the time read before the probe, are stored together: *)
(* no call lies between the two assignments (see PartsDesk).               *)
Stamped(j) == [value |-> j.found = "up", age |-> j.age]

Stores(c) ==
  /\ job[c].found # None
  /\ cache' = Stamped(job[c])
  /\ Goes(c, Reached(job[c], job[c].found = "up"))
  /\ UNCHANGED <<wire, on, run, seen>>

-----------------------------------------------------------------------------
(* The run: asking, drafting and submitting are POSTs, with one attempt;   *)
(* the reading endpoints GET.                                              *)
Working == {"ask", "submit", "feedback", "read"}

Remote(c) ==
  /\ job[c].pc \in Working /\ job[c].client # "fixture"
  /\ ~(job[c].pc = "submit" /\ "inbox" \notin on)

Tries(pc) == IF pc = "read" THEN MaxRetries + 1 ELSE 1

SendsCall(c) ==
  /\ Remote(c) /\ attempts[c] = 0
  /\ Calls(c)
  /\ attempts'[c] = Tries(job[c].pc)
  /\ UNCHANGED <<on, cache, job, run, seen>>

Row(c, row) == run' = [run EXCEPT ![job[c].run] = row]

(* The answer is in: after the last question the run waits for the chief or*)
(* goes on to the ticket.  The node that asked marks a fixture.            *)
Marked(r, client) == [r EXCEPT !.asked = client, !.rag_offline_mode = (client = "fixture")]

Answered(c) ==
  LET j == job[c]
      r == run[j.run]
  IN  \/ j.pc = "ask" /\ UNCHANGED <<job, run>>
      \/ /\ j.pc = "ask"
         /\ Frees(c) /\ Row(c, [Marked(r, j.client) EXCEPT !.status = "waiting_hitl"])
      \/ /\ j.pc = "ask"
         /\ Goes(c, Moves(j, "submit", FALSE)) /\ Row(c, Marked(r, j.client))
      \/ /\ j.pc = "submit" /\ "inbox" \in on
         /\ Goes(c, Moves(j, "feedback", FALSE)) /\ Row(c, [r EXCEPT !.ticket = j.client])
      \/ /\ j.pc = "feedback"
         /\ Frees(c) /\ Row(c, [r EXCEPT !.status = "succeeded"])
      \/ j.pc = "read" /\ Frees(c) /\ UNCHANGED run

(* An error fails the run, or the supervisor asks once more; a lost        *)
(* feedback does not matter.                                               *)
Errs(c) ==
  LET j == job[c]
  IN  \/ j.pc = "ask" /\ UNCHANGED <<job, run>>
      \/ /\ j.pc \in {"ask", "submit"}
         /\ Frees(c) /\ Row(c, [run[j.run] EXCEPT !.status = "failed"])
      \/ /\ j.pc = "feedback"
         /\ Frees(c) /\ Row(c, [run[j.run] EXCEPT !.status = "succeeded"])
      \/ /\ j.pc = "read"
         /\ Frees(c) /\ UNCHANGED run

(* An answer that breaks the contract is an error, too.                    *)
CallEnds(c) ==
  /\ job[c].pc \in Working /\ attempts[c] > 0
  /\ \/ Succeeds(c) /\ (Answered(c) \/ Errs(c))
     \/ (IsRefused(c) \/ Fails(c)) /\ Errs(c)
     \/ Retries(c) /\ UNCHANGED <<job, run>>
  /\ UNCHANGED <<on, cache, seen>>

RefusedCall(c) ==
  /\ Remote(c) /\ attempts[c] = 0
  /\ ~Admits /\ Errs(c)
  /\ UNCHANGED <<wire, on, cache, seen>>

(* The fixture answers at once; a file needs nobody.                       *)
ServesLocally(c) ==
  /\ job[c].pc \in Working /\ attempts[c] = 0
  /\ \/ job[c].client = "fixture" /\ Answered(c)
     \/ /\ job[c].pc = "submit" /\ "inbox" \notin on
        /\ Goes(c, Moves(job[c], "feedback", FALSE))
        /\ Row(c, [run[job[c].run] EXCEPT !.ticket = "file"])
  /\ UNCHANGED <<wire, on, cache, seen>>

-----------------------------------------------------------------------------
Older(age) == IF age < Ttl THEN age + 1 ELSE age

Probing(c) == job[c].pc \in Asking /\ (attempts[c] > 0 \/ job[c].found # None)

Tick ==
  /\ cache' = IF cache = None THEN None ELSE [cache EXCEPT !.age = Older(@)]
  /\ job' = [c \in Callers |-> IF Probing(c) THEN [job[c] EXCEPT !.age = Older(@)] ELSE job[c]]
  /\ lastUp' = IF up THEN 0 ELSE Older(lastUp)
  /\ lastTrouble' = IF up /\ Admits THEN Older(lastTrouble) ELSE 0
  /\ UNCHANGED <<wire, on, run>>

Turns == SourceTurns /\ lastUp' = 0 /\ lastTrouble' = 0 /\ UNCHANGED <<on, cache, job, run>>

Cools == CoolsDown /\ UNCHANGED <<on, cache, job, run, seen>>

Acts(c) ==
  \/ KnowsReach(c) \/ StartsProbe(c) \/ RefusedProbe(c) \/ ProbeEnds(c) \/ Stores(c)
  \/ SendsCall(c) \/ CallEnds(c) \/ RefusedCall(c) \/ ServesLocally(c)

SourceNext ==
  \/ \E c \in Callers : Asks(c) \/ Acts(c)
  \/ Tick \/ Turns \/ Cools

SourceSpec == SourceInit /\ [][SourceNext]_all

(* A request goes on, time passes, and /health keeps being asked for.      *)
SourceFairSpec ==
  /\ SourceSpec
  /\ \A c \in Callers : WF_all(Acts(c)) /\ WF_all(Asks(c))
  /\ WF_all(Cools) /\ WF_all(Tick)

-----------------------------------------------------------------------------
SourceTypeOK ==
  /\ TypeOK
  /\ on \in Settings
  /\ cache \in {None} \cup [value : BOOLEAN, age : 0..Ttl]
  /\ \A c \in Callers :
       /\ job[c].pc \in {"free"} \cup Asking \cup Working
       /\ job[c].age \in 0..Ttl /\ job[c].found \in {None, "up", "down"}
       /\ job[c].pc \in Working \ {"read"} => job[c].client # "none"
  /\ \A r \in Runs : run[r].status \in {"none", "waiting_hitl", "succeeded", "failed"}
  /\ lastUp \in 0..Ttl /\ lastTrouble \in 0..Ttl

(* rag_factory.py:27: no lock, probes that overlap and end out of order.   *)
(* What the cache says while it counts was so within the ttl: the source   *)
(* answered, or it, or the breaker, kept a caller out.                     *)
VerdictIsRecent ==
  cache # None /\ cache.age < Ttl =>
    IF cache.value THEN lastUp <= cache.age ELSE lastTrouble <= cache.age

(* main.py:216: where live linkage is required no run is asked of, or      *)
(* created on, the fixture, although the source may go away between the    *)
(* two guards.                                                             *)
LiveAsksTheSource ==
  LiveRequired => \A r \in Runs : run[r].asked # "fixture"

(* demo_rag.py:4: in live mode the fixture must not silently stand in.     *)
LiveIsNeverFixture ==
  LiveRequired => \A r \in Runs : run[r].ticket # "fixture"

=============================================================================
