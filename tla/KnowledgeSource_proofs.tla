------------------------ MODULE KnowledgeSource_proofs ------------------------
(***************************************************************************)
(* What holds of the breaker, the cached verdict on the source and the     *)
(* guards, for every number of threads, threshold, number of retries, time *)
(* to live and set of settings.                                            *)
(***************************************************************************)
EXTENDS KnowledgeSource, FiniteSetTheorems, TLAPS

-----------------------------------------------------------------------------
(* The breaker: each call counts once, as in flight or as a failure.       *)

BreakerInv == TypeOK /\ FailuresBounded

(* How many calls are in flight.                                           *)
LEMMA InFlightFacts ==
  ASSUME TypeOK
  PROVE  /\ Cardinality(InFlight) \in Nat /\ Cardinality(Callers) \in Nat
         /\ IsFiniteSet(InFlight)
         /\ Cardinality(InFlight) <= Cardinality(Callers)
<1>1. InFlight \subseteq Callers /\ IsFiniteSet(Callers)
  BY BreakerAssumption DEF InFlight
<1> QED BY <1>1, FS_Subset, FS_CardinalityType

(* A call begins only where there is room for one more failure.            *)
LEMMA CallsKeeps ==
  ASSUME BreakerInv, NEW c \in Callers, Calls(c)
  PROVE  BreakerInv'
<1>1. /\ FailureThreshold \in Nat \ {0} /\ MaxRetries \in Nat
      /\ failures \in Nat /\ (~open => failures < FailureThreshold)
  BY BreakerAssumption DEF BreakerInv, TypeOK, FailuresBounded
<1>2. failures' \in Nat /\ failures' < FailureThreshold
  BY <1>1 DEF Calls
<1>3. TypeOK'
  <2>1. PICK n \in {1, MaxRetries + 1} : attempts' = [attempts EXCEPT ![c] = n]
    BY DEF Calls
  <2>2. n \in 0 .. MaxRetries + 1
    BY <1>1, <2>1
  <2>3. attempts' \in [Callers -> 0 .. MaxRetries + 1]
    BY <2>1, <2>2 DEF BreakerInv, TypeOK
  <2>4. open' = FALSE /\ cooled' = cooled /\ up' = up
    BY DEF Calls
  <2> QED BY <1>2, <2>3, <2>4 DEF BreakerInv, TypeOK
<1>4. /\ Cardinality(InFlight)' \in Nat /\ Cardinality(Callers) \in Nat
      /\ Cardinality(InFlight)' <= Cardinality(Callers)
  <2>1. InFlight' \subseteq Callers /\ IsFiniteSet(Callers)
    BY BreakerAssumption DEF InFlight
  <2> QED BY <2>1, FS_Subset, FS_CardinalityType
<1> QED BY <1>1, <1>2, <1>3, <1>4 DEF BreakerInv, FailuresBounded

(* A call that ends is in flight no more.                                  *)
LEMMA EndsLeaves ==
  ASSUME TypeOK, NEW c \in Callers, Ends(c)
  PROVE  /\ attempts' \in [Callers -> 0 .. MaxRetries + 1]
         /\ Cardinality(InFlight)' \in Nat
         /\ Cardinality(InFlight) = Cardinality(InFlight)' + 1
<1>1. attempts' \in [Callers -> 0 .. MaxRetries + 1]
  BY BreakerAssumption DEF TypeOK, Ends
<1>2. c \in InFlight /\ InFlight' = InFlight \ {c}
  BY BreakerAssumption DEF TypeOK, Ends, InFlight
<1>3. IsFiniteSet(InFlight) /\ Cardinality(InFlight) \in Nat
  BY InFlightFacts
<1>4. Cardinality(InFlight)' = Cardinality(InFlight) - 1 /\ IsFiniteSet(InFlight')
  BY <1>2, <1>3, FS_RemoveElement
<1>5. Cardinality(InFlight)' \in Nat
  BY <1>4, FS_CardinalityType
<1> QED BY <1>1, <1>3, <1>4, <1>5

(* However it ends.                                                        *)
LEMMA OutcomeKeeps ==
  ASSUME BreakerInv, NEW c \in Callers, Outcome(c)
  PROVE  BreakerInv'
<1>1. /\ FailureThreshold \in Nat \ {0} /\ MaxRetries \in Nat /\ TypeOK
      /\ failures + Cardinality(InFlight) < FailureThreshold + Cardinality(Callers)
      /\ ~open => failures < FailureThreshold
      /\ failures \in Nat
  BY BreakerAssumption DEF BreakerInv, TypeOK, FailuresBounded
<1>2. /\ Cardinality(InFlight) \in Nat /\ Cardinality(Callers) \in Nat
      /\ Cardinality(InFlight) <= Cardinality(Callers)
  BY <1>1, InFlightFacts
<1>3. CASE Succeeds(c)
  <2>1. /\ attempts' \in [Callers -> 0 .. MaxRetries + 1]
        /\ Cardinality(InFlight)' \in Nat
        /\ Cardinality(InFlight) = Cardinality(InFlight)' + 1
    BY <1>1, <1>3, EndsLeaves DEF Succeeds
  <2>2. failures' = 0 /\ TypeOK'
    BY <1>1, <1>3, <2>1 DEF Succeeds, Ends, TypeOK
  <2> QED BY <1>1, <1>2, <2>1, <2>2 DEF BreakerInv, FailuresBounded
<1>4. CASE IsRefused(c)
  <2>1. /\ attempts' \in [Callers -> 0 .. MaxRetries + 1]
        /\ Cardinality(InFlight)' \in Nat
        /\ Cardinality(InFlight) = Cardinality(InFlight)' + 1
    BY <1>1, <1>4, EndsLeaves DEF IsRefused
  <2>2. failures' = failures /\ open' = open /\ TypeOK'
    BY <1>1, <1>4, <2>1 DEF IsRefused, Ends, TypeOK
  <2> QED BY <1>1, <1>2, <2>1, <2>2 DEF BreakerInv, FailuresBounded
<1>5. CASE Retries(c)
  <2>1. TypeOK' /\ InFlight' = InFlight /\ failures' = failures /\ open' = open
    BY <1>1, <1>5 DEF Retries, TypeOK, InFlight
  <2> QED BY <1>1, <1>2, <2>1 DEF BreakerInv, FailuresBounded
<1>6. CASE Fails(c)
  <2>1. /\ attempts' \in [Callers -> 0 .. MaxRetries + 1]
        /\ Cardinality(InFlight)' \in Nat
        /\ Cardinality(InFlight) = Cardinality(InFlight)' + 1
    BY <1>1, <1>6, EndsLeaves DEF Fails
  <2>2. failures' = failures + 1 /\ failures' \in Nat
    BY <1>1, <1>6 DEF Fails
  <2>3. ~open' => failures' < FailureThreshold
    <3>1. open' = (open \/ Opens(failures'))
      BY <1>6 DEF Fails
    <3>2. ~open' => ~Opens(failures')
      BY <3>1
    <3> QED BY <1>1, <2>2, <3>2 DEF Opens
  <2>4. open' \in BOOLEAN /\ cooled' \in BOOLEAN /\ up' \in BOOLEAN
    <3>1. open' = (open \/ Opens(failures')) /\ cooled' = (cooled /\ ~Opens(failures')) /\ up' = up
      BY <1>6 DEF Fails, Ends
    <3>2. open' \in BOOLEAN
      BY <3>1
    <3>3. cooled' \in BOOLEAN
      BY <3>1
    <3>4. up' \in BOOLEAN
      BY <1>1, <3>1 DEF TypeOK
    <3> QED BY <3>2, <3>3, <3>4
  <2>5. TypeOK'
    BY <2>1, <2>2, <2>4 DEF TypeOK
  <2> QED BY <1>1, <1>2, <2>1, <2>2, <2>3, <2>5 DEF BreakerInv, FailuresBounded
<1> QED BY <1>3, <1>4, <1>5, <1>6 DEF Outcome

(* Nothing else touches the count.                                         *)
LEMMA WireKeeps ==
  ASSUME BreakerInv, UNCHANGED wire \/ CoolsDown \/ SourceTurns
  PROVE  BreakerInv'
BY DEF BreakerInv, TypeOK, FailuresBounded, InFlight, wire, CoolsDown, SourceTurns

-----------------------------------------------------------------------------
(* The invariant, part by part.                                            *)

Clients == {"none", "http", "fixture"}

JobSet ==
  [pc : {"free"} \cup Asking \cup Working, for : {"none", "create", "decide", "health", "inbox"},
   run : Runs \cup {None}, client : Clients, force : BOOLEAN, age : 0 .. Ttl,
   found : {None, "up", "down"}]

RowSet ==
  [status : {"none", "waiting_hitl", "succeeded", "failed"}, rag_offline_mode : BOOLEAN,
   ticket : Clients \cup {"file"}, asked : Clients]

VerdictSet == [value : BOOLEAN, age : 0 .. Ttl]

(* A request is where its kind may be, with a client once it needs one, and*)
(* with no fixture past the second guard of a service that must be live.   *)
RightJob(j) ==
  /\ j.pc \in {"guard", "guard_client", "trace"} => j.for = "create"
  /\ j.pc = "build" => j.for \in {"create", "decide", "inbox"}
  /\ j.pc \in {"guard_client", "trace", "ask", "submit", "feedback"} => j.client # "none"
  /\ j.found # None => j.pc \in Asking
  /\ LiveRequired /\ j.pc \in {"trace", "ask"} => j.client # "fixture"

(* What a probe found has been so since the clock was read for it.         *)
RecentJob(j) ==
  /\ j.found = "up" => lastUp <= j.age
  /\ j.found = "down" => lastTrouble <= j.age

JobsInv ==
  /\ job \in [Callers -> JobSet]
  /\ \A c \in Callers : RightJob(job[c]) /\ RecentJob(job[c])

RunsInv ==
  /\ run \in [Runs -> RowSet]
  /\ LiveRequired => \A r \in Runs : run[r].asked # "fixture"

CacheInv ==
  /\ cache \in {None} \cup VerdictSet
  /\ cache # None => IF cache.value THEN lastUp <= cache.age ELSE lastTrouble <= cache.age

ClockInv ==
  /\ lastUp \in 0 .. Ttl /\ lastTrouble \in 0 .. Ttl
  /\ up => lastUp = 0
  /\ ~up \/ ~Admits => lastTrouble = 0

SourceInv == BreakerInv /\ on \in Settings /\ JobsInv /\ RunsInv /\ CacheInv /\ ClockInv

-----------------------------------------------------------------------------
(* The steps of a request.                                                 *)

(* A request that moves on has nothing left of its last probe.             *)
LEMMA MovesFacts ==
  ASSUME NEW j \in JobSet, NEW pc \in {"free"} \cup Asking \cup Working, NEW f \in BOOLEAN
  PROVE  LET k == Moves(j, pc, f)
         IN  /\ k \in JobSet
             /\ k.pc = pc /\ k.for = j.for /\ k.run = j.run /\ k.client = j.client
             /\ k.age = 0 /\ k.found = None
<1>1. 0 \in 0 .. Ttl
  BY SourceAssumption
<1> QED BY <1>1 DEF Moves, JobSet

(* No request is a request like any other.                                 *)
LEMMA FreeFacts ==
  /\ Free \in JobSet /\ RightJob(Free)
  /\ Free.pc = "free" /\ Free.for = "none" /\ Free.found = None /\ Free.client = "none"
<1>1. 0 \in 0 .. Ttl
  BY SourceAssumption
<1>2. /\ Free \in JobSet
      /\ Free.pc = "free" /\ Free.for = "none" /\ Free.found = None /\ Free.client = "none"
  BY <1>1 DEF Free, JobSet, Clients
<1> QED BY <1>2 DEF RightJob

(* A request gets its client.                                              *)
LEMMA BuiltIsRight ==
  ASSUME NEW j \in JobSet, j.for \in {"create", "decide", "inbox"}, NEW cl \in {"http", "fixture"}
  PROVE  LET k == Built(j, cl) IN k \in JobSet /\ RightJob(k) /\ k.found = None
<1> DEFINE i == [j EXCEPT !.client = cl]
<1>1. i \in JobSet /\ i.for = j.for /\ i.client = cl
  BY DEF JobSet, Clients
<1> HIDE DEF i
<1>2. {"guard_client", "trace", "submit", "read"} \subseteq {"free"} \cup Asking \cup Working
  BY DEF Asking, Working
<1>3. CASE j.for = "create" /\ LiveRequired
  <2> DEFINE k == Moves(i, "guard_client", TRUE)
  <2>1. Built(j, cl) = k
    BY <1>1, <1>3 DEF Built, i
  <2>2. k \in JobSet /\ k.pc = "guard_client" /\ k.for = j.for /\ k.client = cl /\ k.found = None
    BY <1>1, <1>2, MovesFacts
  <2> HIDE DEF k
  <2> QED BY <1>3, <2>1, <2>2 DEF RightJob
<1>4. CASE j.for = "create" /\ ~LiveRequired
  <2> DEFINE k == Moves(i, "trace", FALSE)
  <2>1. Built(j, cl) = k
    BY <1>1, <1>4 DEF Built, i
  <2>2. k \in JobSet /\ k.pc = "trace" /\ k.for = j.for /\ k.client = cl /\ k.found = None
    BY <1>1, <1>2, MovesFacts
  <2> HIDE DEF k
  <2> QED BY <1>4, <2>1, <2>2 DEF RightJob
<1>5. CASE j.for = "decide"
  <2> DEFINE k == Moves(i, "submit", FALSE)
  <2>1. Built(j, cl) = k
    BY <1>1, <1>5 DEF Built, i
  <2>2. k \in JobSet /\ k.pc = "submit" /\ k.client = cl /\ k.found = None
    BY <1>1, <1>2, MovesFacts
  <2> HIDE DEF k
  <2> QED BY <2>1, <2>2 DEF RightJob
<1>6. CASE j.for = "inbox"
  <2> DEFINE k == Moves(i, "read", FALSE)
  <2>1. Built(j, cl) = k
    BY <1>1, <1>6 DEF Built, i
  <2>2. k \in JobSet /\ k.pc = "read" /\ k.client = cl /\ k.found = None
    BY <1>1, <1>2, MovesFacts
  <2> HIDE DEF k
  <2> QED BY <2>1, <2>2 DEF RightJob
<1> QED BY <1>3, <1>4, <1>5, <1>6

(* A request learns whether the source is reached.                         *)
LEMMA ReachedIsRight ==
  ASSUME NEW j \in JobSet, RightJob(j), j.pc \in Asking, NEW reach \in BOOLEAN
  PROVE  LET k == Reached(j, reach) IN k \in JobSet /\ RightJob(k) /\ k.found = None
<1>1. {"build", "trace", "ask", "read"} \subseteq {"free"} \cup Asking \cup Working
  BY DEF Asking, Working
<1>2. CASE j.pc = "guard"
  <2> DEFINE k == Moves(j, "build", FALSE)
  <2>1. Reached(j, reach) = IF reach THEN k ELSE Free
    BY <1>2 DEF Reached
  <2>2. k \in JobSet /\ k.pc = "build" /\ k.for = "create" /\ k.found = None
    BY <1>1, <1>2, MovesFacts DEF RightJob
  <2> HIDE DEF k
  <2>3. RightJob(k)
    BY <2>2 DEF RightJob
  <2> QED BY <2>1, <2>2, <2>3, FreeFacts
<1>3. CASE j.pc = "build"
  <2>1. j.for \in {"create", "decide", "inbox"}
    BY <1>3 DEF RightJob
  <2>2. Reached(j, reach) \in {Built(j, "http"), Built(j, "fixture"), Free}
    BY <1>3 DEF Reached, BuildsClient
  <2> QED BY <2>1, <2>2, BuiltIsRight, FreeFacts
<1>4. CASE j.pc = "guard_client"
  <2> DEFINE k == Moves(j, "trace", FALSE)
  <2>1. Reached(j, reach) = IF reach /\ j.client = "http" THEN k ELSE Free
    BY <1>4 DEF Reached, PassesClient
  <2>2. k \in JobSet /\ k.pc = "trace" /\ k.for = "create" /\ k.client = j.client /\ k.found = None
    BY <1>1, <1>4, MovesFacts DEF RightJob
  <2> HIDE DEF k
  <2>3. j.client = "http" => RightJob(k)
    BY <2>2 DEF RightJob
  <2> QED BY <2>1, <2>2, <2>3, FreeFacts
<1>5. CASE j.pc = "trace"
  <2> DEFINE k == Moves(j, "ask", FALSE)
  <2>1. Reached(j, reach) = k
    BY <1>5 DEF Reached
  <2>2. k \in JobSet /\ k.pc = "ask" /\ k.client = j.client /\ k.found = None
    BY <1>1, MovesFacts
  <2> HIDE DEF k
  <2>3. RightJob(k)
    BY <1>5, <2>2 DEF RightJob
  <2> QED BY <2>1, <2>2, <2>3
<1>6. CASE j.pc = "health"
  <2> DEFINE k == Moves(j, "read", FALSE)
  <2>1. Reached(j, reach) = IF reach THEN k ELSE Free
    BY <1>6 DEF Reached
  <2>2. k \in JobSet /\ k.pc = "read" /\ k.found = None
    BY <1>1, MovesFacts
  <2> HIDE DEF k
  <2>3. RightJob(k)
    BY <2>2 DEF RightJob
  <2> QED BY <2>1, <2>2, <2>3, FreeFacts
<1> QED BY <1>2, <1>3, <1>4, <1>5, <1>6 DEF Asking

(* A caller's request changes, and the clocks do not, or trouble is now.   *)
LEMMA GoesKeeps ==
  ASSUME SourceInv, NEW c \in Callers, NEW j \in JobSet, RightJob(j), RecentJob(j)',
         Goes(c, j), on' = on, lastUp' = lastUp, lastTrouble' \in {lastTrouble, 0}
  PROVE  JobsInv'
<1>1. /\ job' \in [Callers -> JobSet]
      /\ \A d \in Callers : job'[d] = IF d = c THEN j ELSE job[d]
  BY DEF SourceInv, JobsInv, Goes
<1>2. LiveRequired' = LiveRequired
  BY DEF LiveRequired, Standalone
<1>3. /\ lastTrouble' <= lastTrouble
      /\ lastTrouble \in Nat /\ lastTrouble' \in Nat
  BY SourceAssumption DEF SourceInv, ClockInv
<1>4. \A d \in Callers : RightJob(job[d])'
  <2>1. \A d \in Callers : RightJob(job'[d])
    BY <1>1 DEF SourceInv, JobsInv
  <2> QED BY <1>2, <2>1 DEF RightJob
<1>5. \A d \in Callers : RecentJob(job[d])'
  <2> SUFFICES ASSUME NEW d \in Callers PROVE RecentJob(job[d])'
    OBVIOUS
  <2>1. CASE d = c
    BY <1>1, <2>1 DEF RecentJob
  <2>2. CASE d # c
    <3>1. job'[d] = job[d] /\ RecentJob(job[d]) /\ job[d].age \in Nat
      BY <1>1, <2>2, SourceAssumption DEF SourceInv, JobsInv, JobSet
    <3> QED BY <1>3, <3>1 DEF RecentJob
  <2> QED BY <2>1, <2>2
<1> QED BY <1>1, <1>4, <1>5 DEF JobsInv

(* Rows change as requests do.                                             *)
LEMMA RowKeeps ==
  ASSUME SourceInv, NEW c \in Callers, NEW row, Row(c, row), on' = on,
         job[c].run \in Runs => row \in RowSet /\ (LiveRequired => row.asked # "fixture")
  PROVE  RunsInv'
<1>1. LiveRequired' = LiveRequired
  BY DEF LiveRequired, Standalone
<1>2. /\ run \in [Runs -> RowSet]
      /\ LiveRequired => \A r \in Runs : run[r].asked # "fixture"
  BY DEF SourceInv, RunsInv
<1>3. /\ DOMAIN run' = Runs /\ run' = [r \in Runs |-> run'[r]]
      /\ \A r \in Runs : run'[r] = IF r = job[c].run THEN row ELSE run[r]
  BY <1>2 DEF Row
<1>4. run' \in [Runs -> RowSet]
  BY <1>2, <1>3
<1> QED BY <1>1, <1>2, <1>3, <1>4 DEF RunsInv

(* What may be noted in a row.                                             *)
LEMMA RowFacts ==
  ASSUME NEW r \in RowSet
  PROVE  /\ \A st \in {"waiting_hitl", "succeeded", "failed"} :
              [r EXCEPT !.status = st] \in RowSet /\ [r EXCEPT !.status = st].asked = r.asked
         /\ \A cl \in Clients \cup {"file"} :
              [r EXCEPT !.ticket = cl] \in RowSet /\ [r EXCEPT !.ticket = cl].asked = r.asked
         /\ \A cl \in Clients : Marked(r, cl) \in RowSet /\ Marked(r, cl).asked = cl
<1>1. \A st \in {"waiting_hitl", "succeeded", "failed"} :
        [r EXCEPT !.status = st] \in RowSet /\ [r EXCEPT !.status = st].asked = r.asked
  BY DEF RowSet
<1>2. \A cl \in Clients \cup {"file"} :
        [r EXCEPT !.ticket = cl] \in RowSet /\ [r EXCEPT !.ticket = cl].asked = r.asked
  BY DEF RowSet
<1>3. \A cl \in Clients : Marked(r, cl) \in RowSet /\ Marked(r, cl).asked = cl
  BY DEF RowSet, Marked
<1> QED BY <1>1, <1>2, <1>3

(* The job of a caller, and a run it works on.                             *)
LEMMA JobFacts ==
  ASSUME SourceInv, NEW c \in Callers
  PROVE  /\ job[c] \in JobSet /\ RightJob(job[c]) /\ RecentJob(job[c])
         /\ job[c].client \in Clients
         /\ job[c].run \in Runs =>
              /\ run[job[c].run] \in RowSet
              /\ LiveRequired => run[job[c].run].asked # "fixture"
BY DEF SourceInv, JobsInv, RunsInv, JobSet

(* A job that has found nothing is as recent as any.                       *)
LEMMA NothingFound ==
  ASSUME NEW j, j.found = None
  PROVE  RecentJob(j) /\ RecentJob(j)'
BY SourceAssumption DEF RecentJob

(* A caller is done, or goes on to its next call.                          *)
LEMMA FreesKeeps ==
  ASSUME SourceInv, NEW c \in Callers, Frees(c), UNCHANGED <<on, seen>>
  PROVE  JobsInv'
<1>1. lastUp' = lastUp /\ lastTrouble' \in {lastTrouble, 0}
  BY DEF seen
<1> QED BY <1>1, FreeFacts, NothingFound, GoesKeeps DEF Frees

(* A request that goes on to its next call keeps its client.               *)
LEMMA GoesOnKeeps ==
  ASSUME SourceInv, NEW c \in Callers, job[c].pc \in {"ask", "submit"},
         NEW pc \in {"submit", "feedback"}, Goes(c, Moves(job[c], pc, FALSE)),
         UNCHANGED <<on, seen>>
  PROVE  JobsInv'
<1> DEFINE k == Moves(job[c], pc, FALSE)
<1>1. job[c] \in JobSet /\ RightJob(job[c])
  BY JobFacts
<1>2. pc \in {"free"} \cup Asking \cup Working
  BY DEF Working
<1>3. k \in JobSet /\ k.pc = pc /\ k.client = job[c].client /\ k.found = None
  BY <1>1, <1>2, MovesFacts
<1>4. Goes(c, k) /\ lastUp' = lastUp /\ lastTrouble' \in {lastTrouble, 0} /\ on' = on
  BY DEF seen
<1> HIDE DEF k
<1>5. RightJob(k)
  BY <1>1, <1>3 DEF RightJob
<1> QED BY <1>3, <1>4, <1>5, NothingFound, GoesKeeps

(* Nothing happens to a request, or to a run.                              *)
LEMMA StaysKeeps ==
  ASSUME SourceInv, UNCHANGED <<on, seen>>
  PROVE  (UNCHANGED job => JobsInv') /\ (UNCHANGED run => RunsInv') /\ (UNCHANGED cache => CacheInv')
<1>1. LiveRequired' = LiveRequired
  BY DEF LiveRequired, Standalone
<1> QED BY <1>1 DEF SourceInv, JobsInv, RunsInv, CacheInv, RightJob, RecentJob, seen

(* A call has its answer, or an error.                                     *)
LEMMA AnsweredKeeps ==
  ASSUME SourceInv, NEW c \in Callers, Answered(c), UNCHANGED <<on, seen>>
  PROVE  JobsInv' /\ RunsInv'
<1> DEFINE j == job[c]
           r == run[j.run]
<1>1. /\ j.client \in Clients /\ RightJob(j)
      /\ j.run \in Runs => r \in RowSet /\ (LiveRequired => r.asked # "fixture")
  BY JobFacts
<1>2. on' = on
  OBVIOUS
<1>3. ASSUME j.pc = "ask"
      PROVE  j.run \in Runs =>
               /\ Marked(r, j.client) \in RowSet
               /\ LiveRequired => Marked(r, j.client).asked # "fixture"
               /\ [Marked(r, j.client) EXCEPT !.status = "waiting_hitl"] \in RowSet
               /\ LiveRequired => [Marked(r, j.client) EXCEPT !.status = "waiting_hitl"].asked # "fixture"
  <2>1. LiveRequired => j.client # "fixture"
    BY <1>1, <1>3 DEF RightJob
  <2> HIDE DEF j, r
  <2>2. j.run \in Runs => Marked(r, j.client) \in RowSet /\ Marked(r, j.client).asked = j.client
    BY <1>1, RowFacts
  <2>3. j.run \in Runs =>
          /\ [Marked(r, j.client) EXCEPT !.status = "waiting_hitl"] \in RowSet
          /\ [Marked(r, j.client) EXCEPT !.status = "waiting_hitl"].asked = j.client
    BY <2>2, RowFacts
  <2> QED BY <2>1, <2>2, <2>3
<1>4. CASE UNCHANGED <<job, run>>
  BY <1>4, StaysKeeps
<1>5. CASE /\ j.pc = "ask"
           /\ Frees(c) /\ Row(c, [Marked(r, j.client) EXCEPT !.status = "waiting_hitl"])
  BY <1>2, <1>3, <1>5, FreesKeeps, RowKeeps
<1>6. CASE /\ j.pc = "ask"
           /\ Goes(c, Moves(j, "submit", FALSE)) /\ Row(c, Marked(r, j.client))
  BY <1>2, <1>3, <1>6, GoesOnKeeps, RowKeeps
<1>7. CASE /\ j.pc = "submit"
           /\ Goes(c, Moves(j, "feedback", FALSE)) /\ Row(c, [r EXCEPT !.ticket = j.client])
  <2>1. j.run \in Runs =>
          /\ [r EXCEPT !.ticket = j.client] \in RowSet
          /\ LiveRequired => [r EXCEPT !.ticket = j.client].asked # "fixture"
    <3> HIDE DEF j, r
    <3> QED BY <1>1, RowFacts
  <2> QED BY <1>2, <1>7, <2>1, GoesOnKeeps, RowKeeps
<1>8. CASE Frees(c) /\ Row(c, [r EXCEPT !.status = "succeeded"])
  <2>1. j.run \in Runs =>
          /\ [r EXCEPT !.status = "succeeded"] \in RowSet
          /\ LiveRequired => [r EXCEPT !.status = "succeeded"].asked # "fixture"
    <3> HIDE DEF j, r
    <3> QED BY <1>1, RowFacts
  <2> QED BY <1>2, <1>8, <2>1, FreesKeeps, RowKeeps
<1>9. CASE Frees(c) /\ UNCHANGED run
  BY <1>9, FreesKeeps, StaysKeeps
<1> QED BY <1>4, <1>5, <1>6, <1>7, <1>8, <1>9 DEF Answered

(* A call that ends in an error.                                           *)
LEMMA ErrsKeeps ==
  ASSUME SourceInv, NEW c \in Callers, Errs(c), UNCHANGED <<on, seen>>
  PROVE  JobsInv' /\ RunsInv'
<1> DEFINE j == job[c]
           r == run[j.run]
<1>1. j.run \in Runs => r \in RowSet /\ (LiveRequired => r.asked # "fixture")
  BY JobFacts
<1>2. on' = on
  OBVIOUS
<1>3. CASE UNCHANGED <<job, run>>
  BY <1>3, StaysKeeps
<1>4. ASSUME NEW st \in {"succeeded", "failed"}, Frees(c), Row(c, [r EXCEPT !.status = st])
      PROVE  JobsInv' /\ RunsInv'
  <2>1. j.run \in Runs =>
          /\ [r EXCEPT !.status = st] \in RowSet
          /\ LiveRequired => [r EXCEPT !.status = st].asked # "fixture"
    <3> HIDE DEF j, r
    <3> QED BY <1>1, RowFacts
  <2> QED BY <1>2, <1>4, <2>1, FreesKeeps, RowKeeps
<1>5. CASE Frees(c) /\ UNCHANGED run
  BY <1>5, FreesKeeps, StaysKeeps
<1> QED BY <1>3, <1>4, <1>5 DEF Errs

-----------------------------------------------------------------------------
(* The clocks.                                                             *)

(* A call can shut the breaker only while the source is down.              *)
LEMMA ClockKeeps ==
  ASSUME SourceInv,
         UNCHANGED wire \/ CoolsDown \/ (\E c \in Callers : Calls(c) \/ Outcome(c)),
         lastUp' = lastUp, lastTrouble' \in {lastTrouble, 0}
  PROVE  ClockInv'
<1>1. /\ lastUp' \in 0 .. Ttl /\ lastTrouble' \in 0 .. Ttl
  BY SourceAssumption DEF SourceInv, ClockInv
<1>2. up' = up
  BY DEF wire, CoolsDown, Calls, Outcome, Succeeds, IsRefused, Retries, Fails, Ends
<1>3. ~Admits' => ~Admits \/ ~up
  <2>1. CASE UNCHANGED wire
    BY <2>1 DEF wire, Admits
  <2>2. CASE CoolsDown
    BY <2>2 DEF CoolsDown, Admits
  <2>3. ASSUME NEW c \in Callers, Calls(c) \/ Succeeds(c) \/ IsRefused(c) \/ Retries(c)
        PROVE  ~Admits' => ~Admits
    BY <2>3 DEF Calls, Succeeds, IsRefused, Retries, Admits
  <2>4. ASSUME NEW c \in Callers, Fails(c)
        PROVE  ~up
    BY <2>4 DEF Fails
  <2> QED BY <2>1, <2>2, <2>3, <2>4 DEF Outcome
<1>4. (up => lastUp = 0) /\ (~up \/ ~Admits => lastTrouble = 0)
  BY DEF SourceInv, ClockInv
<1> QED BY <1>1, <1>2, <1>3, <1>4 DEF ClockInv

(* The cache stays as recent, or as true, as it was.                       *)
LEMMA CacheKeeps ==
  ASSUME SourceInv, cache' = cache, lastUp' = lastUp, lastTrouble' \in {lastTrouble, 0}
  PROVE  CacheInv'
<1>1. /\ lastTrouble' <= lastTrouble /\ lastTrouble \in Nat /\ lastTrouble' \in Nat
  BY SourceAssumption DEF SourceInv, ClockInv
<1>2. cache # None => cache.age \in Nat /\ cache \in VerdictSet
  BY SourceAssumption DEF SourceInv, CacheInv, VerdictSet
<1> QED BY <1>1, <1>2 DEF SourceInv, CacheInv

-----------------------------------------------------------------------------
(* The steps.                                                              *)

(* A request comes in.                                                     *)
LEMMA AsksKeeps ==
  ASSUME SourceInv, NEW c \in Callers, Asks(c)
  PROVE  SourceInv'
<1>1. UNCHANGED wire /\ on' = on /\ cache' = cache /\ run' = run
      /\ lastUp' = lastUp /\ lastTrouble' \in {lastTrouble, 0}
  BY DEF Asks, seen
<1>2. BreakerInv' /\ RunsInv' /\ CacheInv' /\ ClockInv' /\ on' \in Settings
  BY <1>1, WireKeeps, StaysKeeps, CacheKeeps, ClockKeeps DEF SourceInv, Asks
<1>3. /\ {"guard", "build", "health"} \subseteq {"free"} \cup Asking \cup Working
  BY DEF Asking
<1>4. ASSUME NEW for \in {"create", "decide", "health", "inbox"}, NEW i \in JobSet, i.for = for,
             NEW pc \in {"guard", "build", "health"}, NEW f \in BOOLEAN,
             pc = "guard" => for = "create", pc = "build" => for # "health",
             Goes(c, Moves(i, pc, f))
      PROVE  JobsInv'
  <2> DEFINE k == Moves(i, pc, f)
  <2>2. k \in JobSet /\ k.pc = pc /\ k.for = for /\ k.found = None
    BY <1>3, <1>4, MovesFacts
  <2>3. Goes(c, k)
    BY <1>4
  <2> HIDE DEF k
  <2>4. RightJob(k)
    BY <1>4, <2>2 DEF RightJob
  <2> QED BY <1>1, <2>2, <2>3, <2>4, NothingFound, GoesKeeps
<1>5. \A for \in {"create", "decide", "health", "inbox"}, r \in Runs :
        /\ [Free EXCEPT !.for = for, !.run = r] \in JobSet
        /\ [Free EXCEPT !.for = for, !.run = r].for = for
        /\ [Free EXCEPT !.for = for] \in JobSet
        /\ [Free EXCEPT !.for = for].for = for
  BY FreeFacts DEF JobSet
<1> SUFFICES JobsInv'
  BY <1>2 DEF SourceInv
<1>6. CASE Creates(c)
  <2>1. PICK r \in Runs : Goes(c, Guarded([Free EXCEPT !.for = "create", !.run = r]))
    BY <1>6 DEF Creates
  <2> DEFINE i == [Free EXCEPT !.for = "create", !.run = r]
  <2>2. i \in JobSet /\ i.for = "create"
    BY <1>5
  <2>3. Goes(c, Moves(i, "guard", TRUE)) \/ Goes(c, Moves(i, "build", FALSE))
    BY <2>1 DEF Guarded
  <2> HIDE DEF i
  <2> QED BY <1>4, <2>2, <2>3
<1>7. CASE Decides(c)
  <2>1. PICK r \in Runs : Goes(c, Moves([Free EXCEPT !.for = "decide", !.run = r], "build", FALSE))
    BY <1>7 DEF Decides
  <2> DEFINE i == [Free EXCEPT !.for = "decide", !.run = r]
  <2>2. i \in JobSet /\ i.for = "decide" /\ Goes(c, Moves(i, "build", FALSE))
    BY <1>5, <2>1
  <2> HIDE DEF i
  <2> QED BY <1>4, <2>2
<1>8. CASE ReadsHealth(c)
  <2> DEFINE i == [Free EXCEPT !.for = "health"]
  <2>1. i \in JobSet /\ i.for = "health" /\ Goes(c, Moves(i, "health", TRUE))
    BY <1>8, FreeFacts DEF ReadsHealth, JobSet
  <2> HIDE DEF i
  <2> QED BY <1>4, <2>1
<1>9. CASE ReadsInbox(c)
  <2> DEFINE i == [Free EXCEPT !.for = "inbox"]
  <2>1. i \in JobSet /\ i.for = "inbox" /\ Goes(c, Moves(i, "build", FALSE))
    BY <1>9, FreeFacts DEF ReadsInbox, JobSet
  <2> HIDE DEF i
  <2> QED BY <1>4, <2>1
<1>10. Creates(c) \/ Decides(c) \/ ReadsHealth(c) \/ ReadsInbox(c)
  BY DEF Asks
<1> QED BY <1>6, <1>7, <1>8, <1>9, <1>10

(* No probe: the setting or the cache knows.                               *)
LEMMA KnowsReachKeeps ==
  ASSUME SourceInv, NEW c \in Callers, KnowsReach(c)
  PROVE  SourceInv'
<1>1. UNCHANGED wire /\ on' = on /\ cache' = cache /\ run' = run
      /\ lastUp' = lastUp /\ lastTrouble' \in {lastTrouble, 0}
  BY DEF KnowsReach, seen
<1>2. BreakerInv' /\ RunsInv' /\ CacheInv' /\ ClockInv' /\ on' \in Settings
  BY <1>1, WireKeeps, StaysKeeps, CacheKeeps, ClockKeeps DEF SourceInv, KnowsReach
<1>3. job[c] \in JobSet /\ RightJob(job[c]) /\ job[c].pc \in Asking
  BY JobFacts DEF KnowsReach, Unprobed
<1>4. PICK k \in JobSet : RightJob(k) /\ k.found = None /\ Goes(c, k)
  <2>1. CASE "offline" \in on /\ job[c].pc = "build" /\ Goes(c, Built(job[c], "fixture"))
    <3>1. job[c].for \in {"create", "decide", "inbox"}
      BY <1>3, <2>1 DEF RightJob
    <3> QED BY <1>3, <2>1, <3>1, BuiltIsRight
  <2>2. CASE Goes(c, Reached(job[c], FALSE))
    BY <1>3, <2>2, ReachedIsRight
  <2>3. CASE Cached /\ Goes(c, Reached(job[c], cache.value))
    <3>1. cache.value \in BOOLEAN
      BY <2>3 DEF Cached, SourceInv, CacheInv, VerdictSet
    <3> QED BY <1>3, <2>3, <3>1, ReachedIsRight
  <2> QED BY <2>1, <2>2, <2>3 DEF KnowsReach
<1>5. JobsInv'
  BY <1>1, <1>4, NothingFound, GoesKeeps
<1> QED BY <1>2, <1>5 DEF SourceInv

(* A probe comes to a verdict.                                             *)
LEMMA FindsFacts ==
  ASSUME NEW c \in Callers, job[c] \in JobSet, NEW found \in {"up", "down"}, Finds(c, found)
  PROVE  \E k \in JobSet :
           /\ k.pc = job[c].pc /\ k.for = job[c].for /\ k.client = job[c].client
           /\ k.found = found /\ k.age \in Nat /\ Goes(c, k)
<1> DEFINE k == [job[c] EXCEPT !.found = found]
<1>1. /\ k \in JobSet /\ k.pc = job[c].pc /\ k.for = job[c].for /\ k.client = job[c].client
      /\ k.found = found /\ k.age \in Nat
  BY SourceAssumption DEF JobSet
<1>2. Goes(c, k)
  BY DEF Finds
<1> HIDE DEF k
<1> QED BY <1>1, <1>2

(* A probe goes out, with the clock read, or is refused by the breaker.    *)
LEMMA StartsProbeKeeps ==
  ASSUME SourceInv, NEW c \in Callers, StartsProbe(c) \/ RefusedProbe(c)
  PROVE  SourceInv'
<1>1. on' = on /\ cache' = cache /\ run' = run
      /\ lastUp' = lastUp /\ lastTrouble' \in {lastTrouble, 0} /\ UNCHANGED seen
  BY DEF StartsProbe, RefusedProbe, seen
<1>2. UNCHANGED wire \/ Calls(c)
  BY DEF StartsProbe, RefusedProbe
<1>3. BreakerInv' /\ RunsInv' /\ CacheInv' /\ ClockInv' /\ on' \in Settings
  BY <1>1, <1>2, WireKeeps, CallsKeeps, StaysKeeps, CacheKeeps, ClockKeeps DEF SourceInv
<1>4. job[c] \in JobSet /\ RightJob(job[c]) /\ job[c].pc \in Asking /\ job[c].found = None
  BY JobFacts DEF StartsProbe, RefusedProbe, NeedsProbe, Unprobed
<1>5. CASE StartsProbe(c)
  <2> DEFINE k == [job[c] EXCEPT !.age = 0]
  <2>1. 0 \in 0 .. Ttl
    BY SourceAssumption
  <2>2. /\ k \in JobSet /\ k.pc = job[c].pc /\ k.for = job[c].for /\ k.client = job[c].client
        /\ k.found = None
    BY <1>4, <2>1 DEF JobSet
  <2>3. Goes(c, k)
    BY <1>5 DEF StartsProbe
  <2> HIDE DEF k
  <2>4. RightJob(k)
    BY <1>4, <2>2 DEF RightJob
  <2>5. JobsInv'
    BY <1>1, <2>2, <2>3, <2>4, NothingFound, GoesKeeps
  <2> QED BY <1>3, <2>5 DEF SourceInv
<1>6. CASE RefusedProbe(c)
  <2>1. ~Admits
    BY <1>6 DEF RefusedProbe
  <2>2. PICK k \in JobSet :
          /\ k.pc = job[c].pc /\ k.for = job[c].for /\ k.client = job[c].client
          /\ k.found = "down" /\ k.age \in Nat /\ Goes(c, k)
    BY <1>4, <1>6, FindsFacts DEF RefusedProbe
  <2>3. RightJob(k)
    BY <1>4, <2>2 DEF RightJob
  <2>4. RecentJob(k)'
    <3>1. lastTrouble' = 0
      BY <1>1, <2>1 DEF SourceInv, ClockInv
    <3> QED BY <2>2, <3>1 DEF RecentJob
  <2>5. JobsInv'
    BY <1>1, <2>1, <2>2, <2>3, <2>4, GoesKeeps
  <2> QED BY <1>3, <2>5 DEF SourceInv
<1> QED BY <1>5, <1>6

(* The probe is over.                                                      *)
LEMMA ProbeEndsKeeps ==
  ASSUME SourceInv, NEW c \in Callers, ProbeEnds(c)
  PROVE  SourceInv'
<1>1. on' = on /\ cache' = cache /\ run' = run
      /\ lastUp' = lastUp /\ lastTrouble' \in {lastTrouble, 0}
  BY DEF ProbeEnds, Puzzles
<1>2. Outcome(c)
  BY DEF ProbeEnds, Puzzles, Outcome
<1>3. RunsInv'
  BY <1>1 DEF SourceInv, RunsInv, LiveRequired, Standalone
<1>4. BreakerInv' /\ CacheInv' /\ ClockInv' /\ on' \in Settings
  BY <1>1, <1>2, OutcomeKeeps, CacheKeeps, ClockKeeps DEF SourceInv
<1>5. /\ job[c] \in JobSet /\ RightJob(job[c]) /\ RecentJob(job[c]) /\ job[c].pc \in Asking
      /\ job[c].age \in Nat
  BY JobFacts, SourceAssumption DEF ProbeEnds, JobSet
<1>6. ASSUME NEW found \in {"up", "down"}, Finds(c, found),
             found = "up" => lastUp' = 0, found = "down" => lastTrouble' = 0
      PROVE  JobsInv'
  <2>1. PICK k \in JobSet :
          /\ k.pc = job[c].pc /\ k.for = job[c].for /\ k.client = job[c].client
          /\ k.found = found /\ k.age \in Nat /\ Goes(c, k)
    BY <1>5, <1>6, FindsFacts
  <2>2. RightJob(k)
    BY <1>5, <2>1 DEF RightJob
  <2>3. RecentJob(k)'
    BY <1>6, <2>1 DEF RecentJob
  <2> QED BY <1>1, <2>1, <2>2, <2>3, GoesKeeps
<1> SUFFICES JobsInv'
  BY <1>3, <1>4 DEF SourceInv
<1>7. CASE Puzzles(c)
  <2>1. Finds(c, "down") /\ lastTrouble' = 0
    BY <1>7 DEF Puzzles
  <2> QED BY <1>6, <2>1
<1>8. CASE Succeeds(c) /\ Finds(c, "up") /\ UNCHANGED lastTrouble
  <2>1. lastUp' = 0
    BY <1>1, <1>8 DEF Succeeds, SourceInv, ClockInv
  <2> QED BY <1>6, <1>8, <2>1
<1>9. CASE Fails(c) /\ Finds(c, "down") /\ UNCHANGED lastTrouble
  <2>1. lastTrouble' = 0
    BY <1>9 DEF Fails, SourceInv, ClockInv
  <2> QED BY <1>6, <1>9, <2>1
<1>10. CASE job' = job /\ UNCHANGED lastTrouble
  <2>1. UNCHANGED <<on, seen>> /\ UNCHANGED job
    BY <1>1, <1>10 DEF seen
  <2> QED BY <2>1, StaysKeeps
<1>11. \/ Puzzles(c)
       \/ Succeeds(c) /\ Finds(c, "up") /\ UNCHANGED lastTrouble
       \/ Fails(c) /\ Finds(c, "down") /\ UNCHANGED lastTrouble
       \/ job' = job /\ UNCHANGED lastTrouble
  BY DEF ProbeEnds
<1> QED BY <1>7, <1>8, <1>9, <1>10, <1>11

(* The verdict is stored, with the time that was read before the probe.    *)
LEMMA StoresKeeps ==
  ASSUME SourceInv, NEW c \in Callers, Stores(c)
  PROVE  SourceInv'
<1> DEFINE j == job[c]
<1>1. UNCHANGED wire /\ on' = on /\ run' = run /\ UNCHANGED <<on, seen>>
      /\ lastUp' = lastUp /\ lastTrouble' \in {lastTrouble, 0} /\ lastTrouble' = lastTrouble
  BY DEF Stores, seen
<1>2. BreakerInv' /\ RunsInv' /\ ClockInv' /\ on' \in Settings
  BY <1>1, WireKeeps, StaysKeeps, ClockKeeps DEF SourceInv
<1>3. /\ j \in JobSet /\ RightJob(j) /\ RecentJob(j)
      /\ j.found \in {"up", "down"} /\ j.age \in 0 .. Ttl
  BY JobFacts DEF Stores, JobSet
<1>4. j.pc \in Asking
  BY <1>3, SourceAssumption DEF RightJob
<1>5. /\ cache' = [value |-> j.found = "up", age |-> j.age]
      /\ Goes(c, Reached(j, j.found = "up"))
  BY DEF Stores, Stamped
<1> HIDE DEF j
<1>6. CacheInv'
  <2>1. (j.found = "up") \in BOOLEAN
    OBVIOUS
  <2>2. cache' \in VerdictSet /\ cache'.value = (j.found = "up") /\ cache'.age = j.age
    BY <1>3, <1>5, <2>1 DEF VerdictSet
  <2>3. IF j.found = "up" THEN lastUp' <= j.age ELSE lastTrouble' <= j.age
    BY <1>1, <1>3 DEF RecentJob
  <2> QED BY <2>2, <2>3 DEF CacheInv
<1>7. PICK k \in JobSet : RightJob(k) /\ k.found = None /\ Goes(c, k)
  <2>1. (j.found = "up") \in BOOLEAN
    OBVIOUS
  <2> QED BY <1>3, <1>4, <1>5, <2>1, ReachedIsRight
<1>8. JobsInv'
  BY <1>1, <1>7, NothingFound, GoesKeeps
<1> QED BY <1>2, <1>6, <1>8 DEF SourceInv

(* The calls of a run, over the wire or not.                               *)
LEMMA CallsAreSafe ==
  ASSUME SourceInv, NEW c \in Callers,
         SendsCall(c) \/ CallEnds(c) \/ RefusedCall(c) \/ ServesLocally(c)
  PROVE  SourceInv'
<1>1. on' = on /\ cache' = cache /\ UNCHANGED <<on, seen>>
      /\ lastUp' = lastUp /\ lastTrouble' \in {lastTrouble, 0}
  BY DEF SendsCall, CallEnds, RefusedCall, ServesLocally, seen
<1>2. UNCHANGED wire \/ Calls(c) \/ Outcome(c)
  BY DEF SendsCall, CallEnds, RefusedCall, ServesLocally, Outcome
<1>3. BreakerInv' /\ CacheInv' /\ ClockInv' /\ on' \in Settings
  BY <1>1, <1>2, WireKeeps, CallsKeeps, OutcomeKeeps, CacheKeeps, ClockKeeps DEF SourceInv
<1>4. JobsInv' /\ RunsInv'
  <2>1. CASE UNCHANGED <<job, run>>
    BY <1>1, <2>1, StaysKeeps
  <2>2. CASE Answered(c)
    BY <1>1, <2>2, AnsweredKeeps
  <2>3. CASE Errs(c)
    BY <1>1, <2>3, ErrsKeeps
  <2>4. ASSUME job[c].pc = "submit",
               Goes(c, Moves(job[c], "feedback", FALSE)),
               Row(c, [run[job[c].run] EXCEPT !.ticket = "file"])
        PROVE  JobsInv' /\ RunsInv'
    <3> DEFINE r == run[job[c].run]
    <3>1. job[c].run \in Runs => r \in RowSet /\ (LiveRequired => r.asked # "fixture")
      BY JobFacts
    <3> HIDE DEF r
    <3>2. job[c].run \in Runs =>
            /\ [r EXCEPT !.ticket = "file"] \in RowSet
            /\ LiveRequired => [r EXCEPT !.ticket = "file"].asked # "fixture"
      BY <3>1, RowFacts
    <3>3. RunsInv'
      BY <1>1, <2>4, <3>2, RowKeeps DEF r
    <3>4. JobsInv'
      BY <1>1, <2>4, GoesOnKeeps
    <3> QED BY <3>3, <3>4
  <2> QED BY <2>1, <2>2, <2>3, <2>4 DEF SendsCall, CallEnds, RefusedCall, ServesLocally
<1> QED BY <1>3, <1>4 DEF SourceInv

(* An age that stops at the time to live.                                  *)
LEMMA OlderFacts ==
  /\ \A a \in 0 .. Ttl : Older(a) \in 0 .. Ttl
  /\ \A a, b \in 0 .. Ttl : a <= b => Older(a) <= Older(b)
  /\ \A a \in 0 .. Ttl : 0 <= Older(a)
BY SourceAssumption DEF Older

(* Time passes for the verdicts and for what they are about alike.         *)
LEMMA TickKeeps ==
  ASSUME SourceInv, Tick
  PROVE  SourceInv'
<1>1. UNCHANGED wire /\ on' = on /\ run' = run
  BY DEF Tick
<1>2. up' = up /\ Admits' = Admits /\ LiveRequired' = LiveRequired
  BY <1>1 DEF wire, Admits, LiveRequired, Standalone
<1>3. /\ lastUp \in 0 .. Ttl /\ lastTrouble \in 0 .. Ttl
      /\ lastUp' \in {0, Older(lastUp)} /\ lastTrouble' \in {0, Older(lastTrouble)}
      /\ up => lastUp' = 0
      /\ ~up \/ ~Admits => lastTrouble' = 0
  BY DEF SourceInv, ClockInv, Tick
<1>4. lastUp' \in 0 .. Ttl /\ lastTrouble' \in 0 .. Ttl
  BY <1>3, OlderFacts, SourceAssumption
<1>5. \A a \in 0 .. Ttl :
        /\ lastUp <= a => lastUp' <= Older(a)
        /\ lastTrouble <= a => lastTrouble' <= Older(a)
  BY <1>3, OlderFacts
<1>6. BreakerInv' /\ ClockInv' /\ RunsInv' /\ on' \in Settings
  <2>1. BreakerInv'
    BY <1>1, WireKeeps DEF SourceInv
  <2>2. ClockInv'
    BY <1>2, <1>3, <1>4 DEF ClockInv
  <2>3. RunsInv'
    BY <1>1, <1>2 DEF SourceInv, RunsInv
  <2> QED BY <1>1, <2>1, <2>2, <2>3 DEF SourceInv
<1>7. CacheInv'
  <2>1. CASE cache = None
    BY <2>1 DEF Tick, CacheInv
  <2>2. CASE cache # None
    <3>1. /\ cache \in VerdictSet /\ cache.age \in 0 .. Ttl
          /\ IF cache.value THEN lastUp <= cache.age ELSE lastTrouble <= cache.age
      BY <2>2 DEF SourceInv, CacheInv, VerdictSet
    <3>2. cache' = [cache EXCEPT !.age = Older(@)]
      BY <2>2 DEF Tick
    <3>3. /\ cache' \in VerdictSet
          /\ cache'.value = cache.value /\ cache'.age = Older(cache.age)
      BY <3>1, <3>2, OlderFacts DEF VerdictSet
    <3>4. IF cache.value THEN lastUp' <= cache'.age ELSE lastTrouble' <= cache'.age
      BY <1>5, <3>1, <3>3
    <3> QED BY <3>3, <3>4 DEF CacheInv
  <2> QED BY <2>1, <2>2
<1>8. ASSUME NEW c \in Callers
      PROVE  job'[c] \in JobSet /\ RightJob(job[c])' /\ RecentJob(job[c])'
  <2> DEFINE j == job[c]
             k == [j EXCEPT !.age = Older(@)]
  <2>1. j \in JobSet /\ RightJob(j) /\ RecentJob(j) /\ j.age \in 0 .. Ttl
    BY JobFacts DEF JobSet
  <2>2. job'[c] = IF Probing(c) THEN k ELSE j
    BY DEF Tick
  <2>3. /\ k \in JobSet /\ k.pc = j.pc /\ k.for = j.for /\ k.client = j.client
        /\ k.found = j.found /\ k.age = Older(j.age)
    BY <2>1, OlderFacts DEF JobSet
  <2> HIDE DEF j, k
  <2>4. job'[c] \in JobSet /\ RightJob(job[c])'
    BY <1>2, <2>1, <2>2, <2>3 DEF RightJob
  <2>5. RecentJob(job[c])'
    <3>1. CASE Probing(c)
      BY <1>5, <2>1, <2>2, <2>3, <3>1 DEF RecentJob
    <3>2. CASE ~Probing(c)
      <4>1. j.found = None
        BY <2>1, <3>2 DEF Probing, RightJob, j
      <4>2. job'[c].found = None
        BY <2>2, <3>2, <4>1
      <4> QED BY <4>2, SourceAssumption DEF RecentJob
    <3> QED BY <3>1, <3>2
  <2> QED BY <2>4, <2>5
<1>9. JobsInv'
  <2>1. job' = [c \in Callers |-> job'[c]]
    BY DEF Tick
  <2>2. job' \in [Callers -> JobSet]
    BY <1>8, <2>1
  <2> QED BY <1>8, <2>2 DEF JobsInv
<1> QED BY <1>6, <1>7, <1>9 DEF SourceInv

(* The source goes away, or comes back, now.                               *)
LEMMA TurnsKeeps ==
  ASSUME SourceInv, Turns
  PROVE  SourceInv'
<1>1. SourceTurns /\ lastUp' = 0 /\ lastTrouble' = 0 /\ UNCHANGED <<on, cache, job, run>>
  BY DEF Turns
<1>2. LiveRequired' = LiveRequired
  BY <1>1 DEF LiveRequired, Standalone
<1>3. BreakerInv'
  BY <1>1, WireKeeps DEF SourceInv
<1>4. ClockInv'
  BY <1>1, SourceAssumption DEF ClockInv
<1>5. RunsInv' /\ on' \in Settings
  BY <1>1, <1>2 DEF SourceInv, RunsInv
<1>6. CacheInv'
  BY <1>1, SourceAssumption DEF SourceInv, CacheInv, VerdictSet
<1>7. \A c \in Callers : job[c].age \in Nat
  BY JobFacts, SourceAssumption DEF JobSet
<1>8. JobsInv'
  BY <1>1, <1>2, <1>7 DEF SourceInv, JobsInv, RightJob, RecentJob
<1> QED BY <1>3, <1>4, <1>5, <1>6, <1>8 DEF SourceInv

(* The breaker has cooled down.                                            *)
LEMMA CoolsKeeps ==
  ASSUME SourceInv, Cools
  PROVE  SourceInv'
<1>1. CoolsDown /\ UNCHANGED <<on, cache, job, run, seen>>
  BY DEF Cools
<1>2. lastUp' = lastUp /\ lastTrouble' \in {lastTrouble, 0} /\ UNCHANGED <<on, seen>>
  BY <1>1 DEF seen
<1> QED BY <1>1, <1>2, WireKeeps, StaysKeeps, ClockKeeps DEF SourceInv

(* The service has just started.                                           *)
LEMMA SourceInitIsSafe == SourceInit => SourceInv
<1> SUFFICES ASSUME SourceInit PROVE SourceInv
  OBVIOUS
<1>1. TypeOK /\ InFlight = {} /\ Admits
  <2>1. Init
    BY DEF SourceInit
  <2>2. 0 \in 0 .. (MaxRetries + 1)
    BY BreakerAssumption
  <2>3. open = FALSE /\ cooled = FALSE /\ up \in BOOLEAN /\ failures = 0 /\ failures \in Nat
    BY <2>1 DEF Init
  <2>4. attempts \in [Callers -> 0 .. (MaxRetries + 1)] /\ \A c \in Callers : attempts[c] = 0
    BY <2>1, <2>2 DEF Init
  <2>5. TypeOK
    BY <2>3, <2>4 DEF TypeOK
  <2>6. InFlight = {}
    BY <2>4 DEF InFlight
  <2> QED BY <2>3, <2>5, <2>6 DEF Admits
<1>2. BreakerInv
  <2>1. Cardinality(InFlight) = 0 /\ Cardinality(Callers) \in Nat
    BY <1>1, BreakerAssumption, FS_EmptySet, FS_CardinalityType
  <2>2. failures = 0 /\ FailureThreshold \in Nat \ {0}
    BY BreakerAssumption DEF SourceInit, Init
  <2> QED BY <1>1, <2>1, <2>2 DEF BreakerInv, FailuresBounded
<1>3. ClockInv
  BY <1>1, SourceAssumption DEF SourceInit, ClockInv
<1>4. JobsInv
  <2>1. RecentJob(Free)
    BY FreeFacts, SourceAssumption DEF RecentJob
  <2> QED BY <2>1, FreeFacts DEF SourceInit, JobsInv
<1>5. RunsInv
  <2>1. NoRun \in RowSet /\ NoRun.asked = "none"
    BY DEF NoRun, RowSet, Clients
  <2> QED BY <2>1 DEF SourceInit, RunsInv
<1>6. CacheInv /\ on \in Settings
  BY DEF SourceInit, CacheInv
<1> QED BY <1>2, <1>3, <1>4, <1>5, <1>6 DEF SourceInv

(* All of the steps together.                                              *)
LEMMA SourceStepIsSafe == SourceInv /\ [SourceNext]_all => SourceInv'
<1> SUFFICES ASSUME SourceInv, [SourceNext]_all PROVE SourceInv'
  OBVIOUS
<1>1. ASSUME NEW c \in Callers, Asks(c) \/ Acts(c) PROVE SourceInv'
  BY <1>1, AsksKeeps, KnowsReachKeeps, StartsProbeKeeps, ProbeEndsKeeps, StoresKeeps, CallsAreSafe
     DEF Acts
<1>2. CASE Tick \/ Turns \/ Cools
  BY <1>2, TickKeeps, TurnsKeeps, CoolsKeeps
<1>3. CASE UNCHANGED all
  <2>1. UNCHANGED wire /\ UNCHANGED <<on, seen>> /\ UNCHANGED job /\ UNCHANGED run /\ UNCHANGED cache
        /\ lastUp' = lastUp /\ lastTrouble' \in {lastTrouble, 0} /\ on' = on
    BY <1>3 DEF all, seen
  <2> QED BY <2>1, WireKeeps, StaysKeeps, ClockKeeps DEF SourceInv
<1> QED BY <1>1, <1>2, <1>3 DEF SourceNext

(* The invariant the other theorems rest on.                               *)
THEOREM SourceIsSafe == SourceSpec => []SourceInv
BY SourceInitIsSafe, SourceStepIsSafe, PTL DEF SourceSpec

(* Breaker, cache, requests and rows keep their types, and no request      *)
(* makes a call without a client (rag_factory.py, main.py).                *)
THEOREM SourceHasItsType == SourceSpec => []SourceTypeOK
<1>1. SourceInv => SourceTypeOK
  <2> SUFFICES ASSUME SourceInv PROVE SourceTypeOK
    OBVIOUS
  <2>1. TypeOK /\ on \in Settings /\ lastUp \in 0 .. Ttl /\ lastTrouble \in 0 .. Ttl
        /\ cache \in {None} \cup [value : BOOLEAN, age : 0 .. Ttl]
    BY DEF SourceInv, BreakerInv, ClockInv, CacheInv, VerdictSet
  <2>2. ASSUME NEW c \in Callers
        PROVE  /\ job[c].pc \in {"free"} \cup Asking \cup Working
               /\ job[c].age \in 0 .. Ttl /\ job[c].found \in {None, "up", "down"}
               /\ job[c].pc \in Working \ {"read"} => job[c].client # "none"
    <3>1. job[c] \in JobSet /\ RightJob(job[c])
      BY JobFacts
    <3> QED BY <3>1 DEF JobSet, RightJob, Working
  <2>3. \A r \in Runs : run[r].status \in {"none", "waiting_hitl", "succeeded", "failed"}
    BY DEF SourceInv, RunsInv, RowSet
  <2> QED BY <2>1, <2>2, <2>3 DEF SourceTypeOK
<1> QED BY <1>1, SourceIsSafe, PTL

(* However many calls overlap, a source that is down is charged with less  *)
(* than the threshold and one failure per caller (circuit_record_failure). *)
THEOREM FailuresAreBounded == SourceSpec => []FailuresBounded
<1>1. SourceInv => FailuresBounded
  BY DEF SourceInv, BreakerInv
<1> QED BY <1>1, SourceIsSafe, PTL

(* However many probes overlap, and in whatever order they end, a cached   *)
(* verdict that still counts was true within the time to live              *)
(* (rag_factory.py is_rag_reachable).                                      *)
THEOREM VerdictsAreRecent == SourceSpec => []VerdictIsRecent
<1>1. SourceInv => VerdictIsRecent
  BY DEF SourceInv, CacheInv, VerdictIsRecent
<1> QED BY <1>1, SourceIsSafe, PTL

(* Where live linkage is required no run is asked of the fixture, under    *)
(* any setting and whenever the source goes away (main.py:216).            *)
THEOREM LiveRunsAskTheSource == SourceSpec => []LiveAsksTheSource
<1>1. SourceInv => LiveAsksTheSource
  BY DEF SourceInv, RunsInv, LiveAsksTheSource
<1> QED BY <1>1, SourceIsSafe, PTL

=============================================================================
