------------------------------- MODULE RunStore -------------------------------
(***************************************************************************)
(* The service around the runs: the request handlers of main.py, each in a *)
(* thread of its own, over the three stores they share - runs.db           *)
(* (tracing/store.py), the LangGraph checkpoints (graph/builder.py) and    *)
(* data/outbox (tools/submit_destination.py) - with crashes between any    *)
(* two writes and the repair at startup.                                   *)
(*                                                                         *)
(* A handler is a stack of tasks.  A task is the longest stretch of code   *)
(* that one access to a store makes atomic; calling a function pushes its  *)
(* tasks.  Inside a run only the steps that touch a store are kept (GateRun *)
(* has the rest); the engine is the strict one, the default.               *)
(***************************************************************************)
EXTENDS Naturals, Sequences, FiniteSets, SequencesExt

CONSTANTS
  Runs,          (* run ids; create_run draws a fresh one                  *)
  Threads,       (* threads of the request pool                            *)
  MaxRequests,   (* bound: requests in all                                 *)
  MaxAges,       (* bound: waits that outlive hitl_wait_ttl_hours          *)
  MaxCrashes,    (* bound: crashes                                         *)
  MaxFaults,     (* bound: exceptions in the graph                         *)
  TerminalCheckpointThreshold   (* settings.terminal_checkpoint_threshold  *)

ASSUME StoreAssumption ==
  /\ IsFiniteSet(Runs) /\ IsFiniteSet(Threads)
  /\ {MaxRequests, MaxAges, MaxCrashes, MaxFaults, TerminalCheckpointThreshold} \subseteq Nat
  /\ "startup" \notin Threads

VARIABLES
  row,         (* row[r]: the run's row in runs.db, and if it is overdue   *)
  checkpoint,  (* checkpoint[r]: where the graph of the run stands         *)
  outbox,      (* outbox[r]: the run's file in data/outbox                 *)
  todo,        (* todo[h]: the tasks handler h has still to do             *)
  used,        (* the run ids drawn so far                                 *)
  approved,    (* history: runs approved by a chief or fit to go by itself *)
  count        (* the bounded events so far                                *)

vars == <<row, checkpoint, outbox, todo, used, approved, count>>
stores == <<row, checkpoint, outbox>>

-----------------------------------------------------------------------------
Terminal == {"succeeded", "failed", "rejected", "cancelled"}
States == [status : Terminal \cup {"running", "waiting_hitl"},
           decision : {"none", "approve", "reject", "return"}, filed : BOOLEAN]
Fresh == [status |-> "running", decision |-> "none", filed |-> FALSE]

NoRow == [status |-> "none", decision |-> "none", filed |-> FALSE, overdue |-> FALSE]
Rows == {NoRow} \cup [status : Terminal \cup {"running", "waiting_hitl"},
                      decision : {"none", "approve", "reject", "return"},
                      filed : BOOLEAN, overdue : BOOLEAN]

(* A checkpoint is before the chief's node, in the run, or at the end.     *)
NoCheckpoint == [at |-> "none", st |-> Fresh]
Checkpoints == {NoCheckpoint} \cup [at : {"human", "run", "end"}, st : States]

Handlers == Threads \cup {"startup"}

(* A file is cut from the moment it is opened until its text is in it.     *)
Files == {"none", "cut", "whole"}

(* op: what to do; st: the run as the handler knows it; base: the run as   *)
(* it was handed to the engine; keep: the run is to have a row; seen,      *)
(* waiting: what an audit has read.                                        *)
Task(op, r, st) ==
  [op |-> op, run |-> r, st |-> st, base |-> st, keep |-> TRUE, seen |-> {}, waiting |-> {}]
StoreTask(op) == Task(op, "all", Fresh)

Ops == {"begin", "check", "resume", "decided", "file", "write", "close", "filed", "snapshot", "save",
        "scan", "expire", "clear", "clear_terminal", "audit_rows", "audit_checkpoints", "give_up",
        "startup"}
Tasks == [op : Ops, run : Runs \cup {"all"}, st : States, base : States, keep : BOOLEAN,
          seen : SUBSET Runs, waiting : SUBSET Runs]

(* Mutant: the columns beside the payload are taken for the run's state.   *)
LoadedWithColumns(r) == row[r]

Loaded(r) == [status |-> row[r].status, decision |-> row[r].decision, filed |-> row[r].filed]
Existing == {r \in Runs : row[r].status # "none"}
Waiting == {r \in Runs : row[r].status = "waiting_hitl"}
WithCheckpoint == {r \in Runs : checkpoint[r].at # "none"}
Filed == {r \in Runs : outbox[r] # "none"}

Init ==
  /\ row = [r \in Runs |-> NoRow]
  /\ checkpoint = [r \in Runs |-> NoCheckpoint]
  /\ outbox = [r \in Runs |-> "none"]
  /\ todo = [h \in Handlers |-> <<>>]
  /\ used = {}
  /\ approved = {}
  /\ count = [requests |-> 0, ages |-> 0, crashes |-> 0, faults |-> 0]

-----------------------------------------------------------------------------
(* The stack of a handler.                                                 *)

Doing(h, op) == todo[h] # <<>> /\ Head(todo[h]).op = op

(* The task at hand is replaced by others; the rest waits below them.      *)
Instead(h, tasks) == todo' = [todo EXCEPT ![h] = tasks \o Tail(@)]

(* save_run_snapshot: the row, then a look for overdue waits.              *)
Snapshot(r, st) == <<Task("save", r, st), StoreTask("scan")>>

(* runner._persist: the checkpoint of a closed run goes, row or no row.    *)
Persist(task, st) ==
  (IF task.keep THEN Snapshot(task.run, st) ELSE <<>>) \o <<Task("clear_terminal", task.run, st)>>

(* Mutant: the repair stops after the overdue waits.                       *)
RepairOverdueOnly == <<StoreTask("scan")>>

(* repair_persistence: expire_stale_hitl_waits, then an audit.             *)
Repair == <<StoreTask("scan"), StoreTask("audit_rows")>>

-----------------------------------------------------------------------------
(* Requests.                                                               *)

Serving == todo["startup"] = <<>>

Accepts(h, tasks) ==
  /\ Serving
  /\ h \in Threads /\ todo[h] = <<>>
  /\ count.requests < MaxRequests
  /\ count' = [count EXCEPT !.requests = @ + 1]
  /\ todo' = [todo EXCEPT ![h] = tasks]

(* create_run: the graph runs before the run has a row.  run_playbook is   *)
(* one whose run never submits by itself.                                  *)
CreateRun(h) ==
  \E r \in Runs \ used :
    /\ used' = used \cup {r}
    /\ Accepts(h, <<Task("begin", r, Fresh)>>)
    /\ UNCHANGED <<stores, approved>>

(* validate_playbook: the same graph with persist=False.                   *)
ValidatePlaybook(h) ==
  \E r \in Runs \ used :
    /\ used' = used \cup {r}
    /\ Accepts(h, <<[Task("begin", r, Fresh) EXCEPT !.keep = FALSE]>>)
    /\ UNCHANGED <<stores, approved>>

(* Mutant: a run is decided whatever its status.                           *)
DecideAny(h) ==
  \E r \in Existing, d \in {"approve", "reject", "return"} :
    /\ Accepts(h, <<Task("check", r, [Loaded(r) EXCEPT !.decision = d])>>)
    /\ approved' = IF d = "approve" THEN approved \cup {r} ELSE approved
    /\ UNCHANGED <<stores, used>>

(* decide_hitl: the row is read once; only a waiting run is decided.       *)
DecideHitl(h) ==
  \E r \in Waiting, d \in {"approve", "reject", "return"} :
    /\ Accepts(h, <<Task("check", r, [Loaded(r) EXCEPT !.decision = d])>>)
    /\ approved' = IF d = "approve" THEN approved \cup {r} ELSE approved
    /\ UNCHANGED <<stores, used>>

(* cancel_run: the row is read, whatever its status, and written back.     *)
CancelRun(h) ==
  \E r \in Existing :
    /\ Accepts(h, Snapshot(r, [Loaded(r) EXCEPT !.status = "cancelled"])
                     \o <<Task("clear", r, Fresh)>>)
    /\ UNCHANGED <<stores, used, approved>>

PersistenceRepair(h) ==
  /\ Accepts(h, Repair)
  /\ UNCHANGED <<stores, used, approved>>

Request(h) ==
  \/ CreateRun(h) \/ ValidatePlaybook(h) \/ DecideHitl(h) \/ CancelRun(h) \/ PersistenceRepair(h)

-----------------------------------------------------------------------------
(* The graph of a run.                                                     *)

Top(h) == Head(todo[h])
Run(h) == Top(h).run

(* The graph goes on at op with the run in state st.                       *)
GraphTask(h, op, st) == [Top(h) EXCEPT !.op = op, !.st = st]

(* Mutant: the checkpoint of a graph that ends is not written.             *)
LosesLastCheckpoint(h, at, st, op) ==
  /\ checkpoint' = IF at = "end" THEN checkpoint
                   ELSE [checkpoint EXCEPT ![Run(h)] = [at |-> at, st |-> st]]
  /\ Instead(h, <<GraphTask(h, op, st)>>)

(* A checkpoint is written and the graph moves on.                         *)
Reaches(h, at, st, op) ==
  /\ checkpoint' = [checkpoint EXCEPT ![Run(h)] = [at |-> at, st |-> st]]
  /\ Instead(h, <<GraphTask(h, op, st)>>)

(* A new run asks for the chief, submits by itself, or just ends.  No      *)
(* playbook of the repository has auto_submit.                             *)
GraphBegins(h) ==
  /\ Doing(h, "begin")
  /\ \/ /\ Reaches(h, "human", [Fresh EXCEPT !.status = "waiting_hitl"], "snapshot")
        /\ UNCHANGED approved
     \/ /\ Top(h).keep
        /\ Reaches(h, "run", Fresh, "file")
        /\ approved' = approved \cup {Run(h)}
     \/ /\ \E how \in {"succeeded", "failed", "rejected"} :
             Reaches(h, "end", [Fresh EXCEPT !.status = how], "snapshot")
        /\ UNCHANGED approved
  /\ UNCHANGED <<row, outbox, used, count>>

(* apply_hitl: without a checkpoint the strict engine fails the run.       *)
ChecksCheckpoint(h) ==
  /\ Doing(h, "check")
  /\ Instead(h, IF checkpoint[Run(h)].at = "none"
                  THEN Persist(Top(h), [Top(h).st EXCEPT !.status = "failed", !.decision = "none"])
                  ELSE <<GraphTask(h, "resume", Top(h).st)>>)
  /\ UNCHANGED <<stores, used, approved, count>>

(* Mutant: the decision is taken in wherever the graph stands.             *)
TakesDecisionAnywhere(h) ==
  /\ Doing(h, "resume")
  /\ checkpoint[Run(h)].at # "none"
  /\ Instead(h, <<GraphTask(h, "decided", Top(h).st)>>)
  /\ UNCHANGED <<stores, used, approved, count>>

(* graph.invoke(Command(resume)) loads the checkpoint: at the chief's node *)
(* it takes the decision in, elsewhere it goes on from there without it.   *)
GraphResumes(h) ==
  /\ Doing(h, "resume")
  /\ LET cp == checkpoint[Run(h)]
     IN  \/ /\ cp.at = "human"
            /\ Instead(h, <<GraphTask(h, "decided", Top(h).st)>>)
         \/ /\ cp.at = "run"
            /\ Instead(h, <<GraphTask(h, "file", cp.st)>>)
         \/ /\ cp.at = "end"
            /\ Instead(h, <<GraphTask(h, "snapshot", cp.st)>>)
  /\ UNCHANGED <<stores, used, approved, count>>

(* The chief's node is done.  A rejection or a return ends the run; an     *)
(* approved one goes to submit, or ends for another reason.                *)
Decided(h, how) == [Top(h).st EXCEPT !.status = how]

(* Mutant: whatever is no rejection goes on to submit.                     *)
NotRejected(d) == d # "reject"

GoesOn(d) == d = "approve"

GraphDecides(h) ==
  /\ Doing(h, "decided")
  /\ LET d == Top(h).st.decision
     IN  \/ /\ GoesOn(d)
            /\ \/ Reaches(h, "run", Decided(h, "running"), "file")
               \/ \E how \in {"succeeded", "failed"} : Reaches(h, "end", Decided(h, how), "snapshot")
         \/ /\ ~GoesOn(d)
            /\ Reaches(h, "end", Decided(h, IF d = "reject" THEN "rejected" ELSE "succeeded"), "snapshot")
  /\ UNCHANGED <<row, outbox, used, approved, count>>

(* The submit node goes on to op with the run in state st.                 *)
Ticket(h, op, st) ==
  /\ Instead(h, <<GraphTask(h, op, st)>>)
  /\ UNCHANGED <<row, checkpoint, used, approved, count>>

HasTicket(h) == [Top(h).st EXCEPT !.status = "succeeded", !.filed = TRUE]

(* Mutant: the run notes its ticket and the file is never written.         *)
GraphNotesOnly(h) ==
  /\ Doing(h, "file")
  /\ Ticket(h, "filed", HasTicket(h))
  /\ UNCHANGED outbox

(* Mutant: a file that cannot be read is replayed all the same.            *)
GraphReplaysAny(h) ==
  /\ Doing(h, "file")
  /\ outbox[Run(h)] # "none"
  /\ Ticket(h, "filed", HasTicket(h))
  /\ UNCHANGED outbox

(* FileOutboxDestination.submit: a file that is there is read and counts   *)
(* as the ticket; one that is cut does not parse.                          *)
GraphReplays(h) ==
  /\ Doing(h, "file")
  /\ outbox[Run(h)] = "whole"
  /\ Ticket(h, "filed", HasTicket(h))
  /\ UNCHANGED outbox

GraphFindsNoFile(h) ==
  /\ Doing(h, "file")
  /\ outbox[Run(h)] = "none"
  /\ Ticket(h, "write", Top(h).st)
  /\ UNCHANGED outbox

(* write_text opens, and empties, the file; then its text is in it.        *)
GraphOpensFile(h) ==
  /\ Doing(h, "write")
  /\ Ticket(h, "close", Top(h).st)
  /\ outbox' = [outbox EXCEPT ![Run(h)] = "cut"]

GraphFiles(h) ==
  /\ Doing(h, "close")
  /\ Ticket(h, "filed", HasTicket(h))
  /\ outbox' = [outbox EXCEPT ![Run(h)] = "whole"]

(* submit_node catches what goes wrong at the destination: the run is      *)
(* failed with the decision it had, and whatever is in the file stays.     *)
SubmitFails(h) ==
  /\ \/ Doing(h, "file") /\ outbox[Run(h)] = "cut" /\ UNCHANGED count
     \/ /\ \E op \in {"file", "write", "close"} : Doing(h, op)
        /\ count.faults < MaxFaults
        /\ count' = [count EXCEPT !.faults = @ + 1]
  /\ Instead(h, <<GraphTask(h, "filed", [Top(h).st EXCEPT !.status = "failed"])>>)
  /\ UNCHANGED <<stores, used, approved>>

(* The supervisor's pass after it ends the run, or is one too many.        *)
GraphFiled(h) ==
  /\ Doing(h, "filed")
  /\ \E how \in {Top(h).st.status, "failed"} :
       Reaches(h, "end", [Top(h).st EXCEPT !.status = how], "snapshot")
  /\ UNCHANGED <<row, outbox, used, approved, count>>

(* The invocation returns: the run is what its latest checkpoint says, and *)
(* is persisted.                                                           *)
GraphReturns(h) ==
  /\ Doing(h, "snapshot")
  /\ LET cp == checkpoint[Run(h)]
     IN  Instead(h, Persist(Top(h), CASE cp.at = "none" -> Top(h).st
                                      [] cp.at = "human" -> [cp.st EXCEPT !.status = "waiting_hitl"]
                                      [] OTHER -> cp.st))
  /\ UNCHANGED <<stores, used, approved, count>>

(* The graph raises: at random, or resumed without a checkpoint.  The run  *)
(* is failed as it was handed to the engine.                               *)
GraphRaises(h) ==
  /\ \/ Doing(h, "resume") /\ checkpoint[Run(h)].at = "none" /\ UNCHANGED count
     \/ /\ \E op \in {"begin", "resume", "decided", "file", "filed", "snapshot"} : Doing(h, op)
        /\ count.faults < MaxFaults
        /\ count' = [count EXCEPT !.faults = @ + 1]
  /\ Instead(h, Persist(Top(h), [Top(h).base EXCEPT !.status = "failed"]))
  /\ UNCHANGED <<stores, used, approved>>

Graph(h) ==
  \/ GraphBegins(h) \/ ChecksCheckpoint(h) \/ GraphResumes(h) \/ GraphDecides(h)
  \/ GraphReplays(h) \/ GraphFindsNoFile(h) \/ GraphOpensFile(h) \/ GraphFiles(h) \/ SubmitFails(h)
  \/ GraphFiled(h) \/ GraphReturns(h) \/ GraphRaises(h)

-----------------------------------------------------------------------------
(* The stores.                                                             *)

(* The upsert of save_run_snapshot, under the lock of tracing/store.py.    *)
Saves(h) ==
  /\ Doing(h, "save")
  /\ row' = [row EXCEPT ![Run(h)] =
              [status |-> Top(h).st.status, decision |-> Top(h).st.decision,
               filed |-> Top(h).st.filed, overdue |-> FALSE]]
  /\ Instead(h, <<>>)
  /\ UNCHANGED <<checkpoint, outbox, used, approved, count>>

(* expire_stale_hitl_waits: the overdue waits are listed under the lock,   *)
(* then each is read again, failed, saved and stripped of its checkpoint.  *)
Each(runs, op) == LET rs == SetToSeq(runs) IN [i \in 1 .. Len(rs) |-> Task(op, rs[i], Fresh)]

Overdue == {r \in Waiting : row[r].overdue}

(* Mutant: looks again and again, whether it found an overdue wait or not. *)
ScansAgain(h) ==
  /\ Doing(h, "scan")
  /\ Instead(h, Each(Overdue, "expire") \o <<StoreTask("scan")>>)
  /\ UNCHANGED <<stores, used, approved, count>>

Scans(h) ==
  /\ Doing(h, "scan")
  /\ Instead(h, Each(Overdue, "expire"))
  /\ UNCHANGED <<stores, used, approved, count>>

(* Mutant: the checkpoint goes before the row is failed.                   *)
ExpiresCheckpointFirst(h) ==
  /\ Doing(h, "expire")
  /\ Instead(h, <<Task("clear", Run(h), Fresh)>>
                  \o Snapshot(Run(h), [Loaded(Run(h)) EXCEPT !.status = "failed"]))
  /\ UNCHANGED <<stores, used, approved, count>>

Expires(h) ==
  /\ Doing(h, "expire")
  /\ Instead(h, Snapshot(Run(h), [Loaded(Run(h)) EXCEPT !.status = "failed"])
                  \o <<Task("clear", Run(h), Fresh)>>)
  /\ UNCHANGED <<stores, used, approved, count>>

(* clear_checkpoint_thread; _maybe_clear_terminal_checkpoint.              *)
Clears(h) ==
  /\ Doing(h, "clear") \/ Doing(h, "clear_terminal")
  /\ checkpoint' = IF Top(h).op = "clear" \/ Top(h).st.status \in Terminal
                     THEN [checkpoint EXCEPT ![Run(h)] = NoCheckpoint] ELSE checkpoint
  /\ Instead(h, <<>>)
  /\ UNCHANGED <<row, outbox, used, approved, count>>

(* audit_persistence reads the rows and then, in another database, the     *)
(* checkpoints; repair_persistence acts on what they were.                 *)
AuditsRows(h) ==
  /\ Doing(h, "audit_rows")
  /\ Instead(h, <<[Top(h) EXCEPT !.op = "audit_checkpoints", !.seen = Existing, !.waiting = Waiting]>>)
  /\ UNCHANGED <<stores, used, approved, count>>

AuditsCheckpoints(h) ==
  /\ Doing(h, "audit_checkpoints")
  /\ LET orphans  == WithCheckpoint \ Top(h).seen
         ended    == (WithCheckpoint \cap Top(h).seen) \ Top(h).waiting
         hopeless == Top(h).waiting \ WithCheckpoint
     IN  Instead(h, Each(orphans, "clear") \o Each(ended, "clear") \o Each(hopeless, "give_up"))
  /\ UNCHANGED <<stores, used, approved, count>>

(* A wait without a checkpoint is failed: nothing could resume it.         *)
GivesUp(h) ==
  /\ Doing(h, "give_up")
  /\ Instead(h, Snapshot(Run(h), [Loaded(Run(h)) EXCEPT !.status = "failed"]))
  /\ UNCHANGED <<stores, used, approved, count>>

(* lifespan: the audit at startup, and a repair if it finds the stores     *)
(* unhealthy.                                                              *)
HardUnhealthy == WithCheckpoint \ Existing # {} \/ Waiting \ WithCheckpoint # {}

Healthy ==
  /\ ~HardUnhealthy
  /\ TerminalCheckpointThreshold > 0 =>
       Cardinality((WithCheckpoint \cap Existing) \ Waiting) < TerminalCheckpointThreshold

StartsUp ==
  /\ Doing("startup", "startup")
  /\ Instead("startup", IF Healthy THEN <<>> ELSE Repair)
  /\ UNCHANGED <<stores, used, approved, count>>

Store(h) ==
  \/ Saves(h) \/ Scans(h) \/ Expires(h) \/ Clears(h)
  \/ AuditsRows(h) \/ AuditsCheckpoints(h) \/ GivesUp(h)

-----------------------------------------------------------------------------
(* The world around.                                                       *)

(* A wait grows older than hitl_wait_ttl_hours.                            *)
Ages ==
  /\ count.ages < MaxAges
  /\ \E r \in Waiting \ Overdue : row' = [row EXCEPT ![r].overdue = TRUE]
  /\ count' = [count EXCEPT !.ages = @ + 1]
  /\ UNCHANGED <<checkpoint, outbox, todo, used, approved>>

(* The process dies between any two accesses and is started again.         *)
Crashes ==
  /\ count.crashes < MaxCrashes
  /\ todo' = [h \in Handlers |-> IF h = "startup" THEN <<StoreTask("startup")>> ELSE <<>>]
  /\ count' = [count EXCEPT !.crashes = @ + 1]
  /\ UNCHANGED <<stores, used, approved>>

Work(h) == Graph(h) \/ Store(h)

Next ==
  \/ \E h \in Threads : Request(h) \/ Work(h)
  \/ StartsUp \/ Store("startup")
  \/ Ages \/ Crashes

Spec == Init /\ [][Next]_vars

(* Every handler is a running thread; nobody has to send a request.        *)
FairSpec ==
  /\ Spec
  /\ \A h \in Threads : WF_vars(Work(h))
  /\ WF_vars(StartsUp \/ Store("startup"))

-----------------------------------------------------------------------------
(* Properties.                                                             *)

TypeOK ==
  /\ row \in [Runs -> Rows] /\ checkpoint \in [Runs -> Checkpoints]
  /\ outbox \in [Runs -> Files] /\ used \subseteq Runs /\ approved \subseteq Runs
  /\ todo \in [Handlers -> Seq(Tasks)]
  /\ count \in [requests : Nat, ages : Nat, crashes : Nat, faults : Nat]

(* A file in the outbox is there because a chief approved the run or the   *)
(* gate let it go by itself, whatever other handlers, crashes and repairs  *)
(* did to the run meanwhile (nodes.py submit_node).                        *)
FiledIsApproved == Filed \subseteq approved

(* A row that names a ticket is backed by a file GET /tickets can read,    *)
(* although row, file and checkpoint are written one after the other and   *)
(* the file in two steps (runner._persist, FileOutboxDestination.submit).  *)
(* Only while a second handler writes the file over may it be cut.         *)
Rewriting(r) == \E h \in Handlers : Doing(h, "close") /\ Run(h) = r
NoPhantomTicket == \A r \in Runs : row[r].filed => outbox[r] = "whole" \/ Rewriting(r)

(* A run that has closed never waits for the chief again: no late save,    *)
(* repair or resumption brings it back to the list of open questions.      *)
NeverWaitsAgain ==
  [][\A r \in Runs : row[r].status \in Terminal => row'[r].status # "waiting_hitl"]_vars

(* Every handler comes to an end: saving expires other waits, which saves  *)
(* again, and the recursion is not endless.                                *)
RequestsAreAnswered == \A h \in Handlers : []<>(todo[h] = <<>>)

(* What the startup leaves behind can be worked with: no checkpoint of an  *)
(* unknown run, no wait that cannot be resumed, wherever the crash hit.    *)
HealthyStart ==
  [][todo["startup"] # <<>> /\ todo'["startup"] = <<>> => ~HardUnhealthy']_vars

(* policy/gates.py POL-HITL-REJECT: a rejected run is not submitted.       *)
RejectedIsNotFiled == \A r \in Runs : row[r].status = "rejected" => r \notin Filed

(* ARCHITECTURE.md: POST /runs ends in waiting_hitl with its checkpoint on *)
(* disk, and resuming needs run and checkpoint of the same run_id.         *)
WaitingIsResumable == Waiting \subseteq WithCheckpoint

(* The stores implement the life of a run as callers see it.               *)
Lifecycle == INSTANCE RunLifecycle WITH status <- [r \in Runs |-> row[r].status], filed <- Filed
ImplementsLifecycle == Lifecycle!Spec

=============================================================================
