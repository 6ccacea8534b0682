---------------------------- MODULE RunStore_proofs ----------------------------
(***************************************************************************)
(* What holds of the service and its three stores for every set of runs    *)
(* and of threads, and however many requests, overdue waits, crashes and   *)
(* exceptions there are.                                                   *)
(***************************************************************************)
EXTENDS RunStore, FiniteSetTheorems, SequenceTheorems, TLAPS

-----------------------------------------------------------------------------
(* The tasks a handler may hold.                                           *)

OfNoRun == {"scan", "audit_rows", "audit_checkpoints", "startup"}
Writing == {"file", "write", "close"}
Carrying == {"check", "resume", "decided"}

(* A task is about a run or about all; only an approved run is on its way  *)
(* to the outbox, or carries an approval; a ticket it knows of is filed.   *)
SafeTasks(ok, files) ==
  {t \in Tasks :
     /\ t.op \notin OfNoRun => t.run \in Runs
     /\ t.op \in Writing => t.run \in ok
     /\ t.op \in Carrying /\ t.st.decision = "approve" => t.run \in ok
     /\ t.st.filed \/ t.base.filed => t.run \in Runs /\ files[t.run] # "none"}

(* The stores agree with that, and name no ticket that was never filed.    *)
SafeStores(ok, files) ==
  /\ \A r \in Runs : checkpoint[r].at = "run" => r \in ok
  /\ \A r \in Runs : checkpoint[r].st.filed => files[r] # "none"
  /\ \A r \in Runs : row[r].filed => files[r] # "none"
  /\ \A r \in Runs : files[r] # "none" => r \in ok

StoreInv ==
  /\ row \in [Runs -> Rows] /\ checkpoint \in [Runs -> Checkpoints]
  /\ outbox \in [Runs -> Files] /\ used \subseteq Runs /\ approved \subseteq Runs
  /\ count \in [requests : Nat, ages : Nat, crashes : Nat, faults : Nat]
  /\ todo \in [Handlers -> Seq(SafeTasks(approved, outbox))]
  /\ SafeStores(approved, outbox)

(* A crash can leave a file without its row, but never a row that names a  *)
(* ticket without a file (runner._persist after                            *)
(* FileOutboxDestination.submit).                                          *)
FileBeforeRow == \A r \in Runs : row[r].filed => r \in Filed

(* A file, once begun, does not go away.                                   *)
Keeps(f, g) == \A r \in Runs : f[r] # "none" => g[r] # "none"

-----------------------------------------------------------------------------
(* Building stacks of tasks.                                               *)

(* Notes on a run change nothing else of it.                               *)
LEMMA StateFacts ==
  /\ Fresh \in States /\ ~Fresh.filed /\ Fresh.decision = "none"
  /\ \A st \in States, how \in Terminal \cup {"running", "waiting_hitl"} :
       /\ [st EXCEPT !.status = how] \in States
       /\ [st EXCEPT !.status = how].filed = st.filed
       /\ [st EXCEPT !.status = how].decision = st.decision
  /\ \A st \in States, d \in {"none", "approve", "reject", "return"} :
       /\ [st EXCEPT !.decision = d] \in States
       /\ [st EXCEPT !.decision = d].filed = st.filed
       /\ [st EXCEPT !.decision = d].decision = d
<1>1. Fresh \in States /\ ~Fresh.filed /\ Fresh.decision = "none"
  BY DEF Fresh, States
<1>2. \A st \in States, how \in Terminal \cup {"running", "waiting_hitl"} :
       /\ [st EXCEPT !.status = how] \in States
       /\ [st EXCEPT !.status = how].filed = st.filed
       /\ [st EXCEPT !.status = how].decision = st.decision
  BY DEF States
<1>3. \A st \in States, d \in {"none", "approve", "reject", "return"} :
       /\ [st EXCEPT !.decision = d] \in States
       /\ [st EXCEPT !.decision = d].filed = st.filed
       /\ [st EXCEPT !.decision = d].decision = d
  BY DEF States
<1> QED BY <1>1, <1>2, <1>3

(* What is safe stays safe when more is approved and more is filed.        *)
LEMMA SafeMonotone ==
  ASSUME NEW a, NEW b, a \subseteq b, NEW f, NEW g, Keeps(f, g)
  PROVE  SafeTasks(a, f) \subseteq SafeTasks(b, g)
BY DEF SafeTasks, Keeps

(* What may be done to a run that is not approved.                         *)
Housekeeping == {"begin", "save", "expire", "clear", "clear_terminal", "give_up"}

(* Such a task is safe for any run whose ticket, if known, is filed.       *)
LEMMA HousekeepingIsSafe ==
  ASSUME NEW ok, NEW files, NEW op \in Housekeeping, NEW r \in Runs, NEW st \in States,
         st.filed => files[r] # "none"
  PROVE  Task(op, r, st) \in SafeTasks(ok, files)
<1> DEFINE t == Task(op, r, st)
<1>1. /\ t.op = op /\ t.run = r /\ t.st = st /\ t.base = st
      /\ t \in Tasks
  BY DEF Task, Tasks, Ops, Housekeeping
<1> HIDE DEF t
<1>2. op \notin Writing /\ op \notin Carrying
  BY DEF Housekeeping, Writing, Carrying
<1> QED BY <1>1, <1>2 DEF SafeTasks, t

(* A task about all runs knows of no run.                                  *)
LEMMA StoreTaskIsSafe ==
  ASSUME NEW ok, NEW files, NEW op \in OfNoRun
  PROVE  StoreTask(op) \in SafeTasks(ok, files)
<1> DEFINE t == StoreTask(op)
<1>1. /\ t.op = op /\ t.st = Fresh /\ t.base = Fresh
      /\ t \in Tasks
  BY StateFacts DEF StoreTask, Task, Tasks, Ops, OfNoRun
<1> HIDE DEF t
<1>2. op \notin Writing /\ op \notin Carrying
  BY DEF OfNoRun, Writing, Carrying
<1> QED BY <1>1, <1>2, StateFacts DEF SafeTasks, t

(* One task, or two, make a stack.                                         *)
LEMMA Stacks ==
  ASSUME NEW S, NEW a \in S
  PROVE  <<a>> \in Seq(S) /\ \A b \in S : <<a, b>> \in Seq(S)
OBVIOUS

(* What saving a run leaves to do is safe.                                 *)
LEMMA SnapshotIsSafe ==
  ASSUME NEW ok, NEW files, NEW r \in Runs, NEW st \in States, st.filed => files[r] # "none"
  PROVE  Snapshot(r, st) \in Seq(SafeTasks(ok, files))
<1>1. Task("save", r, st) \in SafeTasks(ok, files)
  BY HousekeepingIsSafe DEF Housekeeping
<1>2. StoreTask("scan") \in SafeTasks(ok, files)
  BY StoreTaskIsSafe DEF OfNoRun
<1> QED BY <1>1, <1>2, Stacks DEF Snapshot

(* So is what a run that came back leaves to do,                           *)
LEMMA PersistIsSafe ==
  ASSUME NEW ok, NEW files, NEW t \in Tasks, t.run \in Runs,
         NEW st \in States, st.filed => files[t.run] # "none"
  PROVE  Persist(t, st) \in Seq(SafeTasks(ok, files))
<1>1. <<Task("clear_terminal", t.run, st)>> \in Seq(SafeTasks(ok, files))
  BY HousekeepingIsSafe, Stacks DEF Housekeeping
<1>2. (IF t.keep THEN Snapshot(t.run, st) ELSE <<>>) \in Seq(SafeTasks(ok, files))
  BY SnapshotIsSafe, EmptySeq
<1> QED BY <1>1, <1>2, ConcatProperties DEF Persist

(* and so is a repair.                                                     *)
LEMMA RepairIsSafe ==
  ASSUME NEW ok, NEW files
  PROVE  Repair \in Seq(SafeTasks(ok, files))
<1>1. /\ StoreTask("scan") \in SafeTasks(ok, files)
      /\ StoreTask("audit_rows") \in SafeTasks(ok, files)
  BY StoreTaskIsSafe DEF OfNoRun
<1> QED BY <1>1, Stacks DEF Repair

(* An interval knows its end, so                                           *)
LEMMA SameInterval ==
  ASSUME NEW m \in Nat, NEW n \in Nat, 1 .. m = 1 .. n
  PROVE  m = n
<1>1. \A k \in Nat : k \in 1 .. m <=> k \in 1 .. n
  OBVIOUS
<1>2. \A k \in Nat : 1 <= k => (k <= m <=> k <= n)
  BY <1>1
<1> QED BY <1>2

(* a function on 1 .. n is a sequence of length n.                         *)
LEMMA AsSequence ==
  ASSUME NEW S, NEW n \in Nat, NEW f \in [1 .. n -> S]
  PROVE  f \in Seq(S) /\ Len(f) = n
<1>1. f \in Seq(S)
  BY SeqDef
<1>2. Len(f) \in Nat /\ DOMAIN f = 1 .. Len(f)
  BY <1>1, LenProperties
<1>3. DOMAIN f = 1 .. n
  OBVIOUS
<1>4. \A m \in Nat : 1 .. m = 1 .. n => m = n
  BY SameInterval
<1> QED BY <1>1, <1>2, <1>3, <1>4

(* One task for each of a finite set of runs, in whatever order.           *)
LEMMA EachIsASequence ==
  ASSUME NEW S, NEW op, NEW R \in SUBSET Runs, \A r \in R : Task(op, r, Fresh) \in S
  PROVE  Each(R, op) \in Seq(S)
<1> DEFINE n == Cardinality(R)
           rs == SetToSeq(R)
<1>1. IsFiniteSet(R)
  BY FS_Subset, StoreAssumption
<1>2. n \in Nat /\ ExistsBijection(1 .. n, R)
  BY <1>1, FS_CardinalityType
<1>3. \E f \in [1 .. n -> R] : IsInjective(f)
  BY <1>2 DEF ExistsBijection, Bijection, Injection
<1>4. rs \in [1 .. n -> R]
  BY <1>3 DEF SetToSeq
<1> HIDE DEF n, rs
<1>5. rs \in Seq(R) /\ Len(rs) = n
  BY <1>2, <1>4, AsSequence
<1>6. \A i \in 1 .. Len(rs) : Task(op, rs[i], Fresh) \in S
  BY <1>2, <1>4, <1>5
<1>7. [i \in 1 .. Len(rs) |-> Task(op, rs[i], Fresh)] \in [1 .. n -> S]
  BY <1>5, <1>6
<1>8. [i \in 1 .. Len(rs) |-> Task(op, rs[i], Fresh)] \in Seq(S)
  BY <1>2, <1>7, AsSequence
<1> QED BY <1>8 DEF Each, rs

(* They are safe if the runs are only tidied up.                           *)
LEMMA EachIsSafe ==
  ASSUME NEW ok, NEW files, NEW op \in Housekeeping, NEW R \in SUBSET Runs
  PROVE  Each(R, op) \in Seq(SafeTasks(ok, files))
BY HousekeepingIsSafe, StateFacts, EachIsASequence

-----------------------------------------------------------------------------
(* What one handler does to its stack and to the stores.                   *)

Counts == [requests : Nat, ages : Nat, crashes : Nat, faults : Nat]

(* The task at hand of a handler at op.                                    *)
LEMMA TopFacts ==
  ASSUME StoreInv, NEW h \in Handlers, NEW op, Doing(h, op)
  PROVE  /\ todo[h] # <<>>
         /\ Top(h) \in SafeTasks(approved, outbox) /\ Top(h) \in Tasks
         /\ Top(h).op = op
         /\ Top(h).st \in States /\ Top(h).base \in States
<1>1. todo[h] \in Seq(SafeTasks(approved, outbox)) /\ todo[h] # <<>> /\ Top(h).op = op
  BY DEF StoreInv, Doing, Top
<1>2. Top(h) \in SafeTasks(approved, outbox)
  BY <1>1, HeadTailProperties DEF Top
<1>3. Top(h) \in Tasks
  BY <1>2 DEF SafeTasks
<1> QED BY <1>1, <1>2, <1>3 DEF Tasks

(* A run's own tasks name the run.                                         *)
LEMMA RunFacts ==
  ASSUME StoreInv, NEW h \in Handlers, NEW op, op \notin OfNoRun, Doing(h, op)
  PROVE  /\ Run(h) \in Runs
         /\ Top(h).st.filed \/ Top(h).base.filed => outbox[Run(h)] # "none"
         /\ op \in Writing => Run(h) \in approved
         /\ op \in Carrying /\ Top(h).st.decision = "approve" => Run(h) \in approved
BY TopFacts DEF SafeTasks, Run

(* Safe tasks on top of a safe stack.                                      *)
LEMMA InsteadIsSafe ==
  ASSUME NEW ok, NEW files, NEW h \in Handlers,
         todo \in [Handlers -> Seq(SafeTasks(approved, outbox))], todo[h] # <<>>,
         approved \subseteq ok, Keeps(outbox, files),
         NEW tasks \in Seq(SafeTasks(ok, files)), Instead(h, tasks)
  PROVE  todo' \in [Handlers -> Seq(SafeTasks(ok, files))]
<1> DEFINE S == SafeTasks(approved, outbox)
           T == SafeTasks(ok, files)
<1>1. S \subseteq T
  BY SafeMonotone
<1>2. /\ todo \in [Handlers -> Seq(S)] /\ tasks \in Seq(T)
      /\ todo' = [todo EXCEPT ![h] = tasks \o Tail(@)]
  BY DEF Instead
<1> HIDE DEF S, T
<1>3. \A s \in Seq(S) : s \in Seq(T)
  BY <1>1, SeqMonotonic
<1>4. Tail(todo[h]) \in Seq(T)
  BY <1>2, <1>3, HeadTailProperties
<1>5. tasks \o Tail(todo[h]) \in Seq(T)
  BY <1>2, <1>4, ConcatProperties
<1>6. todo' \in [Handlers -> Seq(T)]
  BY <1>2, <1>3, <1>5
<1> QED BY <1>6 DEF T

(* A handler that only changes its stack.                                  *)
LEMMA StackStep ==
  ASSUME StoreInv, NEW h \in Handlers, todo[h] # <<>>,
         NEW tasks \in Seq(SafeTasks(approved, outbox)), Instead(h, tasks),
         UNCHANGED <<stores, used, approved>>, count' \in Counts
  PROVE  StoreInv'
<1>1. todo' \in [Handlers -> Seq(SafeTasks(approved, outbox))]
  BY InsteadIsSafe DEF StoreInv, Keeps
<1> QED BY <1>1 DEF StoreInv, SafeStores, SafeTasks, stores, Counts

(* The graph's own task goes on as another one.                            *)
LEMMA GraphTaskIsSafe ==
  ASSUME NEW ok, NEW files, NEW t \in SafeTasks(ok, files), t.run \in Runs,
         NEW op \in Ops \ OfNoRun, NEW st \in States,
         op \in Writing => t.run \in ok,
         op \in Carrying /\ st.decision = "approve" => t.run \in ok,
         st.filed => files[t.run] # "none"
  PROVE  <<[t EXCEPT !.op = op, !.st = st]>> \in Seq(SafeTasks(ok, files))
<1> DEFINE u == [t EXCEPT !.op = op, !.st = st]
<1>1. /\ u \in Tasks /\ u.op = op /\ u.st = st /\ u.run = t.run /\ u.base = t.base
  BY DEF SafeTasks, Tasks
<1> HIDE DEF u
<1>2. u \in SafeTasks(ok, files)
  BY <1>1 DEF SafeTasks
<1> QED BY <1>2, Stacks DEF u

(* The graph writes a checkpoint and goes on.                              *)
LEMMA ReachesIsSafe ==
  ASSUME StoreInv, NEW h \in Handlers, NEW now, now \notin OfNoRun, Doing(h, now),
         NEW at \in {"human", "run", "end"}, NEW st \in States, NEW op \in Ops \ OfNoRun,
         approved \subseteq approved', approved' \subseteq Runs,
         at = "run" \/ op \in Writing => Run(h) \in approved',
         op \notin Carrying,
         st.filed => outbox[Run(h)] # "none",
         Reaches(h, at, st, op), UNCHANGED <<row, outbox, used, count>>
  PROVE  StoreInv'
<1>1. /\ todo[h] # <<>> /\ Top(h) \in SafeTasks(approved, outbox) /\ Run(h) \in Runs
  BY TopFacts, RunFacts
<1>2. /\ checkpoint' = [checkpoint EXCEPT ![Run(h)] = [at |-> at, st |-> st]]
      /\ Instead(h, <<GraphTask(h, op, st)>>)
  BY DEF Reaches
<1>3. Top(h) \in SafeTasks(approved', outbox)
  BY <1>1, SafeMonotone DEF Keeps
<1>4. <<GraphTask(h, op, st)>> \in Seq(SafeTasks(approved', outbox))
  BY <1>1, <1>3, GraphTaskIsSafe DEF GraphTask, Run
<1>5. todo' \in [Handlers -> Seq(SafeTasks(approved', outbox))]
  BY <1>1, <1>2, <1>4, InsteadIsSafe DEF StoreInv, Keeps
<1>6. /\ checkpoint' \in [Runs -> Checkpoints]
      /\ \A r \in Runs : checkpoint'[r] = IF r = Run(h) THEN [at |-> at, st |-> st] ELSE checkpoint[r]
  BY <1>1, <1>2 DEF StoreInv, Checkpoints
<1>7. SafeStores(approved, outbox)'
  <2>1. \A r \in Runs : checkpoint'[r].at = "run" => r \in approved'
    BY <1>1, <1>6 DEF StoreInv, SafeStores
  <2>2. \A r \in Runs : checkpoint'[r].st.filed => outbox'[r] # "none"
    BY <1>1, <1>6 DEF StoreInv, SafeStores
  <2>3. \A r \in Runs : row'[r].filed => outbox'[r] # "none"
    BY DEF StoreInv, SafeStores
  <2>4. \A r \in Runs : outbox'[r] # "none" => r \in approved'
    BY DEF StoreInv, SafeStores
  <2> QED BY <2>1, <2>2, <2>3, <2>4 DEF SafeStores
<1> QED BY <1>5, <1>6, <1>7 DEF StoreInv

-----------------------------------------------------------------------------
(* The graph of a run.                                                     *)

(* What a checkpoint says of its run.                                      *)
LEMMA CheckpointFacts ==
  ASSUME StoreInv, NEW r \in Runs
  PROVE  /\ checkpoint[r].st \in States
         /\ checkpoint[r].at \in {"none", "human", "run", "end"}
         /\ checkpoint[r].at = "run" => r \in approved
         /\ checkpoint[r].st.filed => outbox[r] # "none"
<1>1. checkpoint[r] \in Checkpoints
  BY DEF StoreInv
<1>2. checkpoint[r].st \in States /\ checkpoint[r].at \in {"none", "human", "run", "end"}
  BY <1>1, StateFacts DEF Checkpoints, NoCheckpoint
<1> QED BY <1>2 DEF StoreInv, SafeStores

(* A run that is asked about, goes by itself or just ends.                 *)
LEMMA BeginsIsSafe ==
  ASSUME StoreInv, NEW h \in Handlers, GraphBegins(h)
  PROVE  StoreInv'
<1>1. Doing(h, "begin") /\ "begin" \notin OfNoRun /\ Run(h) \in Runs
  BY RunFacts DEF GraphBegins, OfNoRun
<1>2. \A how \in Terminal \cup {"running", "waiting_hitl"} :
        [Fresh EXCEPT !.status = how] \in States /\ ~[Fresh EXCEPT !.status = how].filed
  BY StateFacts
<1>3. "snapshot" \in Ops \ OfNoRun /\ "file" \in Ops \ OfNoRun
      /\ "snapshot" \notin Carrying \cup Writing /\ "file" \notin Carrying
  BY DEF Ops, OfNoRun, Carrying, Writing
<1>4. approved \subseteq Runs
  BY DEF StoreInv
<1>5. CASE Reaches(h, "human", [Fresh EXCEPT !.status = "waiting_hitl"], "snapshot") /\ UNCHANGED approved
  BY <1>1, <1>2, <1>3, <1>4, <1>5, ReachesIsSafe DEF GraphBegins
<1>6. CASE Reaches(h, "run", Fresh, "file") /\ approved' = approved \cup {Run(h)}
  BY <1>1, <1>3, <1>4, <1>6, StateFacts, ReachesIsSafe DEF GraphBegins
<1>7. ASSUME NEW how \in {"succeeded", "failed", "rejected"},
             Reaches(h, "end", [Fresh EXCEPT !.status = how], "snapshot"), UNCHANGED approved
      PROVE  StoreInv'
  <2>1. how \in Terminal
    BY DEF Terminal
  <2> QED BY <1>1, <1>2, <1>3, <1>4, <1>7, <2>1, ReachesIsSafe DEF GraphBegins
<1> QED BY <1>5, <1>6, <1>7 DEF GraphBegins

(* A decision finds its checkpoint, or the run is failed.                  *)
LEMMA ChecksIsSafe ==
  ASSUME StoreInv, NEW h \in Handlers, ChecksCheckpoint(h)
  PROVE  StoreInv'
<1> DEFINE st == [Top(h).st EXCEPT !.status = "failed", !.decision = "none"]
           tasks == IF checkpoint[Run(h)].at = "none" THEN Persist(Top(h), st)
                    ELSE <<GraphTask(h, "resume", Top(h).st)>>
<1>1. Doing(h, "check") /\ "check" \notin OfNoRun /\ "check" \in Carrying
  BY DEF ChecksCheckpoint, OfNoRun, Carrying
<1>2. /\ todo[h] # <<>> /\ Top(h) \in SafeTasks(approved, outbox) /\ Top(h) \in Tasks
      /\ Top(h).st \in States /\ Run(h) \in Runs
      /\ Top(h).st.filed => outbox[Run(h)] # "none"
      /\ Top(h).st.decision = "approve" => Run(h) \in approved
  BY <1>1, TopFacts, RunFacts
<1>3. st \in States /\ st.filed = Top(h).st.filed
  BY <1>2 DEF States, Terminal
<1>4. Persist(Top(h), st) \in Seq(SafeTasks(approved, outbox))
  <2> HIDE DEF st
  <2> QED BY <1>2, <1>3, PersistIsSafe DEF Run
<1>5. "resume" \in Ops \ OfNoRun /\ "resume" \notin Writing
  BY DEF Ops, OfNoRun, Writing
<1>6. <<GraphTask(h, "resume", Top(h).st)>> \in Seq(SafeTasks(approved, outbox))
  BY <1>2, <1>5, GraphTaskIsSafe DEF GraphTask, Run
<1>7. tasks \in Seq(SafeTasks(approved, outbox))
  BY <1>4, <1>6
<1>8. /\ Instead(h, tasks) /\ UNCHANGED <<stores, used, approved>> /\ count' = count
  BY DEF ChecksCheckpoint
<1> HIDE DEF tasks
<1> QED BY <1>2, <1>7, <1>8, StackStep DEF StoreInv, Counts

(* The graph goes on from wherever its checkpoint stands.                  *)
LEMMA ResumesIsSafe ==
  ASSUME StoreInv, NEW h \in Handlers, GraphResumes(h)
  PROVE  StoreInv'
<1> DEFINE cp == checkpoint[Run(h)]
<1>1. Doing(h, "resume") /\ "resume" \notin OfNoRun /\ "resume" \in Carrying
  BY DEF GraphResumes, OfNoRun, Carrying
<1>2. /\ todo[h] # <<>> /\ Top(h) \in SafeTasks(approved, outbox)
      /\ Top(h).st \in States /\ Run(h) \in Runs
      /\ Top(h).st.filed => outbox[Run(h)] # "none"
      /\ Top(h).st.decision = "approve" => Run(h) \in approved
  BY <1>1, TopFacts, RunFacts
<1>3. /\ cp.st \in States /\ (cp.at = "run" => Run(h) \in approved)
      /\ cp.st.filed => outbox[Run(h)] # "none"
  BY <1>2, CheckpointFacts
<1>4. /\ {"decided", "file", "snapshot"} \subseteq Ops \ OfNoRun
      /\ "decided" \notin Writing /\ "snapshot" \notin Writing
      /\ "file" \notin Carrying /\ "snapshot" \notin Carrying
  BY DEF Ops, OfNoRun, Writing, Carrying
<1> HIDE DEF cp
<1>5. <<GraphTask(h, "decided", Top(h).st)>> \in Seq(SafeTasks(approved, outbox))
  BY <1>2, <1>4, GraphTaskIsSafe DEF GraphTask, Run
<1>6. cp.at = "run" => <<GraphTask(h, "file", cp.st)>> \in Seq(SafeTasks(approved, outbox))
  BY <1>2, <1>3, <1>4, GraphTaskIsSafe DEF GraphTask, Run
<1>7. <<GraphTask(h, "snapshot", cp.st)>> \in Seq(SafeTasks(approved, outbox))
  BY <1>2, <1>3, <1>4, GraphTaskIsSafe DEF GraphTask, Run
<1>8. PICK tasks \in Seq(SafeTasks(approved, outbox)) : Instead(h, tasks)
  BY <1>5, <1>6, <1>7 DEF GraphResumes, cp
<1>9. UNCHANGED <<stores, used, approved>> /\ count' = count
  BY DEF GraphResumes
<1> QED BY <1>2, <1>8, <1>9, StackStep DEF StoreInv, Counts

(* The chief's node: only an approval leads to submit.                     *)
LEMMA DecidesIsSafe ==
  ASSUME StoreInv, NEW h \in Handlers, GraphDecides(h)
  PROVE  StoreInv'
<1>1. Doing(h, "decided") /\ "decided" \notin OfNoRun /\ "decided" \in Carrying
  BY DEF GraphDecides, OfNoRun, Carrying
<1>2. /\ Top(h).st \in States /\ Run(h) \in Runs
      /\ Top(h).st.filed => outbox[Run(h)] # "none"
      /\ Top(h).st.decision = "approve" => Run(h) \in approved
  BY <1>1, TopFacts, RunFacts
<1>3. \A how \in Terminal \cup {"running", "waiting_hitl"} :
        /\ Decided(h, how) \in States
        /\ Decided(h, how).filed => outbox[Run(h)] # "none"
  BY <1>2, StateFacts DEF Decided
<1>4. /\ {"file", "snapshot"} \subseteq Ops \ OfNoRun
      /\ "snapshot" \notin Writing /\ "file" \notin Carrying /\ "snapshot" \notin Carrying
  BY DEF Ops, OfNoRun, Writing, Carrying
<1>5. UNCHANGED <<row, outbox, used, count>> /\ approved' = approved /\ approved \subseteq Runs
  BY DEF GraphDecides, StoreInv
<1>6. ASSUME NEW how \in Terminal, Reaches(h, "end", Decided(h, how), "snapshot")
      PROVE  StoreInv'
  BY <1>1, <1>3, <1>4, <1>5, <1>6, ReachesIsSafe
<1>7. ASSUME GoesOn(Top(h).st.decision), Reaches(h, "run", Decided(h, "running"), "file")
      PROVE  StoreInv'
  BY <1>1, <1>2, <1>3, <1>4, <1>5, <1>7, ReachesIsSafe DEF GoesOn
<1> QED BY <1>6, <1>7 DEF GraphDecides, Terminal

(* At the destination: the file may come to be or grow, for an approved    *)
(* run, and the run may note its ticket once there is one.                 *)
LEMMA TicketIsSafe ==
  ASSUME StoreInv, NEW h \in Handlers, NEW now \in Writing, Doing(h, now),
         NEW op \in Ops \ (OfNoRun \cup Carrying), NEW st \in States,
         st.filed => outbox'[Run(h)] # "none",
         UNCHANGED outbox \/ (\E f \in Files \ {"none"} : outbox' = [outbox EXCEPT ![Run(h)] = f]),
         Instead(h, <<GraphTask(h, op, st)>>),
         UNCHANGED <<row, checkpoint, used, approved>>, count' \in Counts
  PROVE  StoreInv'
<1>1. now \notin OfNoRun
  BY DEF Writing, OfNoRun
<1>2. /\ todo[h] # <<>> /\ Top(h) \in SafeTasks(approved, outbox)
      /\ Run(h) \in Runs /\ Run(h) \in approved
  BY <1>1, TopFacts, RunFacts
<1>3. /\ outbox' \in [Runs -> Files] /\ Keeps(outbox, outbox')
      /\ \A r \in Runs : outbox'[r] # "none" => r = Run(h) \/ outbox[r] # "none"
  BY <1>2 DEF StoreInv, Keeps
<1>4. Top(h) \in SafeTasks(approved, outbox')
  BY <1>2, <1>3, SafeMonotone
<1>5. <<GraphTask(h, op, st)>> \in Seq(SafeTasks(approved, outbox'))
  BY <1>2, <1>4, GraphTaskIsSafe DEF GraphTask, Run
<1>6. todo' \in [Handlers -> Seq(SafeTasks(approved, outbox'))]
  BY <1>2, <1>3, <1>5, InsteadIsSafe DEF StoreInv
<1>7. SafeStores(approved, outbox)'
  <2>1. \A r \in Runs : checkpoint'[r].at = "run" => r \in approved'
    BY DEF StoreInv, SafeStores
  <2>2. \A r \in Runs : checkpoint'[r].st.filed => outbox'[r] # "none"
    BY <1>3 DEF StoreInv, SafeStores, Keeps
  <2>3. \A r \in Runs : row'[r].filed => outbox'[r] # "none"
    BY <1>3 DEF StoreInv, SafeStores, Keeps
  <2>4. \A r \in Runs : outbox'[r] # "none" => r \in approved'
    BY <1>2, <1>3 DEF StoreInv, SafeStores
  <2> QED BY <2>1, <2>2, <2>3, <2>4 DEF SafeStores
<1> QED BY <1>3, <1>6, <1>7 DEF StoreInv, Counts

(* submit_node, with a file that is there, one it writes, or none at all.  *)
LEMMA SubmitIsSafe ==
  ASSUME StoreInv, NEW h \in Handlers,
         \/ GraphReplays(h) \/ GraphFindsNoFile(h) \/ GraphOpensFile(h)
         \/ GraphFiles(h) \/ SubmitFails(h)
  PROVE  StoreInv'
<1>1. /\ {"file", "write", "close"} = Writing
      /\ {"write", "close", "filed"} \subseteq Ops \ (OfNoRun \cup Carrying)
  BY DEF Writing, Ops, OfNoRun, Carrying
<1>2. \A op : op \in Writing => op \notin OfNoRun
  BY DEF Writing, OfNoRun
<1>3. ASSUME NEW op \in Writing, Doing(h, op)
      PROVE  /\ Run(h) \in Runs /\ Top(h).st \in States
             /\ Top(h).st.filed => outbox[Run(h)] # "none"
             /\ HasTicket(h) \in States
             /\ [Top(h).st EXCEPT !.status = "failed"] \in States
             /\ [Top(h).st EXCEPT !.status = "failed"].filed => outbox[Run(h)] # "none"
  <2>1. /\ Run(h) \in Runs /\ Top(h).st \in States
        /\ Top(h).st.filed => outbox[Run(h)] # "none"
    BY <1>2, <1>3, TopFacts, RunFacts
  <2>2. HasTicket(h) \in States
    BY <2>1 DEF HasTicket, States, Terminal
  <2>3. "failed" \in Terminal \cup {"running", "waiting_hitl"}
    BY DEF Terminal
  <2> QED BY <2>1, <2>2, <2>3, StateFacts
<1>4. count \in Counts /\ outbox \in [Runs -> Files]
  BY DEF StoreInv, Counts
<1>5. CASE GraphReplays(h)
  <2>1. Doing(h, "file") /\ outbox[Run(h)] = "whole" /\ UNCHANGED outbox
    BY <1>5 DEF GraphReplays
  <2>2. /\ Instead(h, <<GraphTask(h, "filed", HasTicket(h))>>)
        /\ UNCHANGED <<row, checkpoint, used, approved>> /\ count' = count
    BY <1>5 DEF GraphReplays, Ticket
  <2> QED BY <1>1, <1>3, <1>4, <2>1, <2>2, TicketIsSafe
<1>6. CASE GraphFindsNoFile(h)
  <2>1. Doing(h, "file") /\ UNCHANGED outbox
    BY <1>6 DEF GraphFindsNoFile
  <2>2. /\ Instead(h, <<GraphTask(h, "write", Top(h).st)>>)
        /\ UNCHANGED <<row, checkpoint, used, approved>> /\ count' = count
    BY <1>6 DEF GraphFindsNoFile, Ticket
  <2> QED BY <1>1, <1>3, <1>4, <2>1, <2>2, TicketIsSafe
<1>7. CASE GraphOpensFile(h)
  <2>1. Doing(h, "write") /\ outbox' = [outbox EXCEPT ![Run(h)] = "cut"]
    BY <1>7 DEF GraphOpensFile
  <2>2. /\ Instead(h, <<GraphTask(h, "close", Top(h).st)>>)
        /\ UNCHANGED <<row, checkpoint, used, approved>> /\ count' = count
    BY <1>7 DEF GraphOpensFile, Ticket
  <2>3. outbox'[Run(h)] # "none" /\ "cut" \in Files \ {"none"}
    BY <1>1, <1>3, <1>4, <2>1 DEF Files
  <2> QED BY <1>1, <1>3, <1>4, <2>1, <2>2, <2>3, TicketIsSafe
<1>8. CASE GraphFiles(h)
  <2>1. Doing(h, "close") /\ outbox' = [outbox EXCEPT ![Run(h)] = "whole"]
    BY <1>8 DEF GraphFiles
  <2>2. /\ Instead(h, <<GraphTask(h, "filed", HasTicket(h))>>)
        /\ UNCHANGED <<row, checkpoint, used, approved>> /\ count' = count
    BY <1>8 DEF GraphFiles, Ticket
  <2>3. outbox'[Run(h)] # "none" /\ "whole" \in Files \ {"none"}
    BY <1>1, <1>3, <1>4, <2>1 DEF Files
  <2> QED BY <1>1, <1>3, <1>4, <2>1, <2>2, <2>3, TicketIsSafe
<1>9. CASE SubmitFails(h)
  <2>1. PICK op \in Writing : Doing(h, op)
    BY <1>1, <1>9 DEF SubmitFails
  <2>2. count' \in Counts
    BY <1>4, <1>9 DEF SubmitFails, Counts
  <2>3. /\ Instead(h, <<GraphTask(h, "filed", [Top(h).st EXCEPT !.status = "failed"])>>)
        /\ UNCHANGED <<row, checkpoint, outbox, used, approved>>
    BY <1>9 DEF SubmitFails, stores
  <2> QED BY <1>1, <1>3, <2>1, <2>2, <2>3, TicketIsSafe
<1> QED BY <1>5, <1>6, <1>7, <1>8, <1>9

(* The last pass of the supervisor.                                        *)
LEMMA FiledIsSafe ==
  ASSUME StoreInv, NEW h \in Handlers, GraphFiled(h)
  PROVE  StoreInv'
<1>1. Doing(h, "filed") /\ "filed" \notin OfNoRun
  BY DEF GraphFiled, OfNoRun
<1>2. /\ Top(h).st \in States /\ Run(h) \in Runs
      /\ Top(h).st.filed => outbox[Run(h)] # "none"
  BY <1>1, TopFacts, RunFacts
<1>3. /\ "snapshot" \in Ops \ OfNoRun /\ "snapshot" \notin Writing /\ "snapshot" \notin Carrying
  BY DEF Ops, OfNoRun, Writing, Carrying
<1>4. PICK how \in {Top(h).st.status, "failed"} :
        Reaches(h, "end", [Top(h).st EXCEPT !.status = how], "snapshot")
  BY DEF GraphFiled
<1>5. how \in Terminal \cup {"running", "waiting_hitl"}
  BY <1>2, <1>4 DEF States, Terminal
<1>6. /\ [Top(h).st EXCEPT !.status = how] \in States
      /\ [Top(h).st EXCEPT !.status = how].filed => outbox[Run(h)] # "none"
  BY <1>2, <1>5, StateFacts
<1>7. UNCHANGED <<row, outbox, used, count>> /\ approved' = approved /\ approved \subseteq Runs
  BY DEF GraphFiled, StoreInv
<1> QED BY <1>1, <1>3, <1>4, <1>6, <1>7, ReachesIsSafe

(* The invocation returns with what the latest checkpoint says.            *)
LEMMA ReturnsIsSafe ==
  ASSUME StoreInv, NEW h \in Handlers, GraphReturns(h)
  PROVE  StoreInv'
<1> DEFINE cp == checkpoint[Run(h)]
           st == CASE cp.at = "none" -> Top(h).st
                   [] cp.at = "human" -> [cp.st EXCEPT !.status = "waiting_hitl"]
                   [] OTHER -> cp.st
<1>1. Doing(h, "snapshot") /\ "snapshot" \notin OfNoRun
  BY DEF GraphReturns, OfNoRun
<1>2. /\ todo[h] # <<>> /\ Top(h) \in Tasks
      /\ Top(h).st \in States /\ Run(h) \in Runs
      /\ Top(h).st.filed => outbox[Run(h)] # "none"
  BY <1>1, TopFacts, RunFacts
<1>3. /\ cp.st \in States /\ (cp.st.filed => outbox[Run(h)] # "none")
      /\ cp.at \in {"none", "human", "run", "end"}
  BY <1>2, CheckpointFacts
<1>4. st \in States /\ (st.filed => outbox[Run(h)] # "none")
  <2> HIDE DEF cp
  <2>1. /\ [cp.st EXCEPT !.status = "waiting_hitl"] \in States
        /\ [cp.st EXCEPT !.status = "waiting_hitl"].filed = cp.st.filed
    BY <1>3, StateFacts
  <2>2. st = Top(h).st \/ st = [cp.st EXCEPT !.status = "waiting_hitl"] \/ st = cp.st
    BY <1>3
  <2> HIDE DEF st
  <2> QED BY <1>2, <1>3, <2>1, <2>2
<1>5. Instead(h, Persist(Top(h), st)) /\ UNCHANGED <<stores, used, approved>> /\ count' = count
  BY DEF GraphReturns
<1> HIDE DEF st
<1>6. Persist(Top(h), st) \in Seq(SafeTasks(approved, outbox))
  BY <1>2, <1>4, PersistIsSafe DEF Run
<1> QED BY <1>2, <1>5, <1>6, StackStep DEF StoreInv, Counts

(* The graph raises: the run is failed as it was handed to the engine.     *)
LEMMA RaisesIsSafe ==
  ASSUME StoreInv, NEW h \in Handlers, GraphRaises(h)
  PROVE  StoreInv'
<1> DEFINE st == [Top(h).base EXCEPT !.status = "failed"]
<1>1. PICK op : Doing(h, op) /\ op \notin OfNoRun
  BY DEF GraphRaises, OfNoRun
<1>2. /\ todo[h] # <<>> /\ Top(h) \in Tasks
      /\ Top(h).base \in States /\ Run(h) \in Runs
      /\ Top(h).base.filed => outbox[Run(h)] # "none"
  BY <1>1, TopFacts, RunFacts
<1>3. st \in States /\ (st.filed => outbox[Run(h)] # "none")
  <2>1. "failed" \in Terminal \cup {"running", "waiting_hitl"}
    BY DEF Terminal
  <2> QED BY <1>2, <2>1, StateFacts
<1>4. Instead(h, Persist(Top(h), st)) /\ UNCHANGED <<stores, used, approved>>
  BY DEF GraphRaises
<1>5. count' \in Counts
  BY DEF GraphRaises, StoreInv, Counts
<1> HIDE DEF st
<1>6. Persist(Top(h), st) \in Seq(SafeTasks(approved, outbox))
  BY <1>2, <1>3, PersistIsSafe DEF Run
<1> QED BY <1>2, <1>4, <1>5, <1>6, StackStep

(* Every step of a graph.                                                  *)
LEMMA GraphIsSafe ==
  ASSUME StoreInv, NEW h \in Handlers, Graph(h)
  PROVE  StoreInv'
BY BeginsIsSafe, ChecksIsSafe, ResumesIsSafe, DecidesIsSafe, SubmitIsSafe, FiledIsSafe,
   ReturnsIsSafe, RaisesIsSafe DEF Graph

-----------------------------------------------------------------------------
(* Requests.                                                               *)

(* A run loaded from its row, whatever is then noted as its status.        *)
LEMMA LoadedFacts ==
  ASSUME StoreInv, NEW r \in Runs
  PROVE  /\ \A how \in Terminal \cup {"running", "waiting_hitl"} :
              /\ [Loaded(r) EXCEPT !.status = how] \in States
              /\ [Loaded(r) EXCEPT !.status = how].filed => outbox[r] # "none"
         /\ Loaded(r).filed => outbox[r] # "none"
         /\ row[r].status = "waiting_hitl" => Loaded(r) \in States
<1>1. row[r] \in Rows /\ (row[r].filed => outbox[r] # "none")
  BY DEF StoreInv, SafeStores
<1>2. /\ row[r].decision \in {"none", "approve", "reject", "return"}
      /\ row[r].filed \in BOOLEAN
  <2>1. CASE row[r] = NoRow
    BY <2>1 DEF NoRow
  <2>2. CASE row[r] # NoRow
    BY <1>1, <2>2 DEF Rows
  <2> QED BY <2>1, <2>2
<1>3. \A how : [Loaded(r) EXCEPT !.status = how] =
                [status |-> how, decision |-> row[r].decision, filed |-> row[r].filed]
  BY DEF Loaded
<1> QED BY <1>1, <1>2, <1>3 DEF Loaded, States

(* A request starts a stack of its own.                                    *)
LEMMA AcceptsIsSafe ==
  ASSUME StoreInv, NEW h \in Handlers,
         approved \subseteq approved', approved' \subseteq Runs, used' \subseteq Runs,
         NEW tasks \in Seq(SafeTasks(approved', outbox)), Accepts(h, tasks), UNCHANGED stores
  PROVE  StoreInv'
<1> DEFINE S == SafeTasks(approved, outbox)
           T == SafeTasks(approved', outbox)
<1>1. S \subseteq T
  BY SafeMonotone DEF Keeps
<1>2. /\ todo \in [Handlers -> Seq(S)] /\ tasks \in Seq(T) /\ todo' = [todo EXCEPT ![h] = tasks]
  BY DEF StoreInv, Accepts
<1>3. outbox' = outbox /\ row' = row /\ checkpoint' = checkpoint
  BY DEF stores
<1>4. todo' \in [Handlers -> Seq(SafeTasks(approved', outbox'))]
  <2> HIDE DEF S, T
  <2>1. \A s \in Seq(S) : s \in Seq(T)
    BY <1>1, SeqMonotonic
  <2>2. todo' \in [Handlers -> Seq(T)]
    BY <1>2, <2>1
  <2> QED BY <1>3, <2>2 DEF T
<1>5. count' \in Counts
  <2>1. count \in Counts
    BY DEF StoreInv, Counts
  <2>2. count' = [count EXCEPT !.requests = @ + 1]
    BY DEF Accepts
  <2> QED BY <2>1, <2>2 DEF Counts
<1>6. SafeStores(approved, outbox)'
  BY <1>3 DEF StoreInv, SafeStores
<1> QED BY <1>3, <1>4, <1>5, <1>6 DEF StoreInv, Counts

(* Every request.                                                          *)
LEMMA RequestIsSafe ==
  ASSUME StoreInv, NEW h \in Handlers, Request(h)
  PROVE  StoreInv'
<1>1. approved \subseteq Runs /\ used \subseteq Runs
  BY DEF StoreInv
<1>2. CASE CreateRun(h)
  <2>1. PICK r \in Runs \ used : used' = used \cup {r} /\ Accepts(h, <<Task("begin", r, Fresh)>>)
    BY <1>2 DEF CreateRun
  <2>2. UNCHANGED stores /\ approved' = approved
    BY <1>2 DEF CreateRun
  <2>3. <<Task("begin", r, Fresh)>> \in Seq(SafeTasks(approved', outbox))
    BY <2>2, HousekeepingIsSafe, StateFacts, Stacks DEF Housekeeping
  <2> QED BY <1>1, <2>1, <2>2, <2>3, AcceptsIsSafe
<1>3. CASE ValidatePlaybook(h)
  <2>1. PICK r \in Runs \ used :
          /\ used' = used \cup {r}
          /\ Accepts(h, <<[Task("begin", r, Fresh) EXCEPT !.keep = FALSE]>>)
    BY <1>3 DEF ValidatePlaybook
  <2>2. UNCHANGED stores /\ approved' = approved
    BY <1>3 DEF ValidatePlaybook
  <2>3. Task("begin", r, Fresh) \in SafeTasks(approved', outbox)
    BY <2>2, HousekeepingIsSafe, StateFacts DEF Housekeeping
  <2>4. [Task("begin", r, Fresh) EXCEPT !.keep = FALSE] \in SafeTasks(approved', outbox)
    BY <2>3 DEF SafeTasks, Tasks
  <2>5. <<[Task("begin", r, Fresh) EXCEPT !.keep = FALSE]>> \in Seq(SafeTasks(approved', outbox))
    BY <2>4, Stacks
  <2> QED BY <1>1, <2>1, <2>2, <2>5, AcceptsIsSafe
<1>4. CASE DecideHitl(h)
  <2>1. PICK r \in Waiting, d \in {"approve", "reject", "return"} :
          /\ Accepts(h, <<Task("check", r, [Loaded(r) EXCEPT !.decision = d])>>)
          /\ approved' = IF d = "approve" THEN approved \cup {r} ELSE approved
    BY <1>4 DEF DecideHitl
  <2>2. UNCHANGED stores /\ used' = used
    BY <1>4 DEF DecideHitl
  <2>3. r \in Runs /\ row[r].status = "waiting_hitl"
    BY DEF Waiting
  <2> DEFINE st == [Loaded(r) EXCEPT !.decision = d]
             t == Task("check", r, st)
  <2>4. st \in States /\ st.decision = d /\ (st.filed => outbox[r] # "none")
    <3>1. Loaded(r) \in States /\ (Loaded(r).filed => outbox[r] # "none")
      BY <2>3, LoadedFacts
    <3>2. d \in {"none", "approve", "reject", "return"}
      OBVIOUS
    <3> QED BY <3>1, <3>2, StateFacts
  <2> HIDE DEF st
  <2>5. t \in Tasks /\ t.op = "check" /\ t.run = r /\ t.st = st /\ t.base = st
    BY <2>3, <2>4 DEF Task, Tasks, Ops
  <2>6. d = "approve" => r \in approved'
    BY <2>1
  <2> HIDE DEF t
  <2>7. t \in SafeTasks(approved', outbox)
    BY <2>3, <2>4, <2>5, <2>6 DEF SafeTasks, Writing
  <2>8. <<t>> \in Seq(SafeTasks(approved', outbox))
    BY <2>7, Stacks
  <2>9. approved \subseteq approved' /\ approved' \subseteq Runs
    BY <1>1, <2>1, <2>3
  <2> QED BY <1>1, <2>1, <2>2, <2>8, <2>9, AcceptsIsSafe DEF st, t
<1>5. CASE CancelRun(h)
  <2>1. PICK r \in Existing :
          Accepts(h, Snapshot(r, [Loaded(r) EXCEPT !.status = "cancelled"]) \o <<Task("clear", r, Fresh)>>)
    BY <1>5 DEF CancelRun
  <2>2. UNCHANGED stores /\ used' = used /\ approved' = approved
    BY <1>5 DEF CancelRun
  <2>3. r \in Runs /\ "cancelled" \in Terminal \cup {"running", "waiting_hitl"}
    BY DEF Existing, Terminal
  <2>4. Snapshot(r, [Loaded(r) EXCEPT !.status = "cancelled"]) \in Seq(SafeTasks(approved', outbox))
    BY <2>3, LoadedFacts, SnapshotIsSafe
  <2>5. <<Task("clear", r, Fresh)>> \in Seq(SafeTasks(approved', outbox))
    BY <2>3, HousekeepingIsSafe, StateFacts, Stacks DEF Housekeeping
  <2>6. Snapshot(r, [Loaded(r) EXCEPT !.status = "cancelled"]) \o <<Task("clear", r, Fresh)>>
          \in Seq(SafeTasks(approved', outbox))
    BY <2>4, <2>5, ConcatProperties
  <2> QED BY <1>1, <2>1, <2>2, <2>6, AcceptsIsSafe
<1>6. CASE PersistenceRepair(h)
  <2>1. Accepts(h, Repair) /\ UNCHANGED stores /\ used' = used /\ approved' = approved
    BY <1>6 DEF PersistenceRepair
  <2> QED BY <1>1, <2>1, RepairIsSafe, AcceptsIsSafe
<1> QED BY <1>2, <1>3, <1>4, <1>5, <1>6 DEF Request

-----------------------------------------------------------------------------
(* The stores.                                                             *)

(* An upsert writes what its task knows of the run.                        *)
LEMMA SavesIsSafe ==
  ASSUME StoreInv, NEW h \in Handlers, Saves(h)
  PROVE  StoreInv'
<1> DEFINE new == [status |-> Top(h).st.status, decision |-> Top(h).st.decision,
                   filed |-> Top(h).st.filed, overdue |-> FALSE]
<1>1. Doing(h, "save") /\ "save" \notin OfNoRun
  BY DEF Saves, OfNoRun
<1>2. /\ todo[h] # <<>> /\ Top(h).st \in States /\ Run(h) \in Runs
      /\ Top(h).st.filed => outbox[Run(h)] # "none"
  BY <1>1, TopFacts, RunFacts
<1>3. new \in Rows /\ new.filed = Top(h).st.filed
  BY <1>2 DEF States, Rows
<1>4. /\ row' = [row EXCEPT ![Run(h)] = new]
      /\ Instead(h, <<>>) /\ UNCHANGED <<checkpoint, outbox, used, approved, count>>
  BY DEF Saves
<1> HIDE DEF new
<1>5. <<>> \in Seq(SafeTasks(approved, outbox))
  BY EmptySeq
<1>6. todo' \in [Handlers -> Seq(SafeTasks(approved, outbox))]
  BY <1>2, <1>4, <1>5, InsteadIsSafe DEF StoreInv, Keeps
<1>7. /\ row' \in [Runs -> Rows]
      /\ \A r \in Runs : row'[r] = IF r = Run(h) THEN new ELSE row[r]
  BY <1>2, <1>3, <1>4 DEF StoreInv
<1>8. SafeStores(approved, outbox)'
  <2>1. \A r \in Runs : row'[r].filed => outbox'[r] # "none"
    BY <1>2, <1>3, <1>4, <1>7 DEF StoreInv, SafeStores
  <2> QED BY <1>4, <2>1 DEF StoreInv, SafeStores
<1> QED BY <1>4, <1>6, <1>7, <1>8 DEF StoreInv

(* A checkpoint goes away.                                                 *)
LEMMA ClearsIsSafe ==
  ASSUME StoreInv, NEW h \in Handlers, Clears(h)
  PROVE  StoreInv'
<1>1. PICK op : Doing(h, op) /\ op \notin OfNoRun
  BY DEF Clears, OfNoRun
<1>2. todo[h] # <<>> /\ Run(h) \in Runs
  BY <1>1, TopFacts, RunFacts
<1>3. /\ \/ checkpoint' = [checkpoint EXCEPT ![Run(h)] = NoCheckpoint]
         \/ checkpoint' = checkpoint
      /\ Instead(h, <<>>) /\ UNCHANGED <<row, outbox, used, approved, count>>
  BY DEF Clears
<1>4. /\ NoCheckpoint \in Checkpoints /\ NoCheckpoint.at = "none" /\ ~NoCheckpoint.st.filed
  BY StateFacts DEF NoCheckpoint, Checkpoints
<1>5. <<>> \in Seq(SafeTasks(approved, outbox))
  BY EmptySeq
<1>6. todo' \in [Handlers -> Seq(SafeTasks(approved, outbox))]
  BY <1>2, <1>3, <1>5, InsteadIsSafe DEF StoreInv, Keeps
<1>7. /\ checkpoint' \in [Runs -> Checkpoints]
      /\ \A r \in Runs : checkpoint'[r] = checkpoint[r] \/ checkpoint'[r] = NoCheckpoint
  BY <1>2, <1>3, <1>4 DEF StoreInv
<1>8. SafeStores(approved, outbox)'
  <2>1. \A r \in Runs : checkpoint'[r].at = "run" => r \in approved'
    BY <1>3, <1>4, <1>7 DEF StoreInv, SafeStores
  <2>2. \A r \in Runs : checkpoint'[r].st.filed => outbox'[r] # "none"
    BY <1>3, <1>4, <1>7 DEF StoreInv, SafeStores
  <2> QED BY <1>3, <2>1, <2>2 DEF StoreInv, SafeStores
<1> QED BY <1>3, <1>6, <1>7, <1>8 DEF StoreInv

(* A run is failed by the housekeeping: a wait too old, or beyond help.    *)
LEMMA FailsIsSafe ==
  ASSUME StoreInv, NEW h \in Handlers, Expires(h) \/ GivesUp(h)
  PROVE  StoreInv'
<1> DEFINE st == [Loaded(Run(h)) EXCEPT !.status = "failed"]
<1>1. PICK op : Doing(h, op) /\ op \notin OfNoRun
  BY DEF Expires, GivesUp, OfNoRun
<1>2. todo[h] # <<>> /\ Run(h) \in Runs
  BY <1>1, TopFacts, RunFacts
<1>3. st \in States /\ (st.filed => outbox[Run(h)] # "none")
  <2>1. "failed" \in Terminal \cup {"running", "waiting_hitl"}
    BY DEF Terminal
  <2> QED BY <1>2, <2>1, LoadedFacts
<1>4. /\ \/ Instead(h, Snapshot(Run(h), st) \o <<Task("clear", Run(h), Fresh)>>)
         \/ Instead(h, Snapshot(Run(h), st))
      /\ UNCHANGED <<stores, used, approved>> /\ count' = count
  BY DEF Expires, GivesUp
<1> HIDE DEF st
<1>5. Snapshot(Run(h), st) \in Seq(SafeTasks(approved, outbox))
  BY <1>2, <1>3, SnapshotIsSafe
<1>6. <<Task("clear", Run(h), Fresh)>> \in Seq(SafeTasks(approved, outbox))
  BY <1>2, HousekeepingIsSafe, StateFacts, Stacks DEF Housekeeping
<1>7. Snapshot(Run(h), st) \o <<Task("clear", Run(h), Fresh)>> \in Seq(SafeTasks(approved, outbox))
  BY <1>5, <1>6, ConcatProperties
<1>8. count' \in Counts
  BY <1>4 DEF StoreInv, Counts
<1> QED BY <1>2, <1>4, <1>5, <1>7, <1>8, StackStep

(* Looking at the stores only makes more tasks.                            *)
LEMMA LooksIsSafe ==
  ASSUME StoreInv, NEW h \in Handlers, Scans(h) \/ AuditsRows(h) \/ AuditsCheckpoints(h)
  PROVE  StoreInv'
<1>1. PICK op : Doing(h, op)
  BY DEF Scans, AuditsRows, AuditsCheckpoints
<1>2. /\ todo[h] # <<>> /\ Top(h) \in SafeTasks(approved, outbox) /\ Top(h) \in Tasks
  BY <1>1, TopFacts
<1>3. UNCHANGED <<stores, used, approved>> /\ count' \in Counts
  BY DEF Scans, AuditsRows, AuditsCheckpoints, StoreInv, Counts
<1>4. \A R \in SUBSET Runs :
        /\ Each(R, "expire") \in Seq(SafeTasks(approved, outbox))
        /\ Each(R, "clear") \in Seq(SafeTasks(approved, outbox))
        /\ Each(R, "give_up") \in Seq(SafeTasks(approved, outbox))
  BY EachIsSafe DEF Housekeeping
<1>5. Overdue \in SUBSET Runs /\ WithCheckpoint \in SUBSET Runs
      /\ Existing \in SUBSET Runs /\ Waiting \in SUBSET Runs
  BY DEF Overdue, WithCheckpoint, Existing, Waiting
<1>6. CASE Scans(h)
  BY <1>2, <1>3, <1>4, <1>5, <1>6, StackStep DEF Scans
<1>7. CASE AuditsRows(h)
  <2> DEFINE t == [Top(h) EXCEPT !.op = "audit_checkpoints", !.seen = Existing, !.waiting = Waiting]
  <2>1. /\ t \in Tasks /\ t.op = "audit_checkpoints" /\ t.run = Top(h).run
        /\ t.st = Top(h).st /\ t.base = Top(h).base
    BY <1>2, <1>5 DEF Tasks, Ops
  <2>2. Instead(h, <<t>>)
    BY <1>7 DEF AuditsRows
  <2> HIDE DEF t
  <2>3. t \in SafeTasks(approved, outbox)
    BY <1>2, <2>1 DEF SafeTasks, OfNoRun, Writing, Carrying
  <2> QED BY <1>2, <1>3, <2>2, <2>3, Stacks, StackStep
<1>8. CASE AuditsCheckpoints(h)
  <2> DEFINE orphans  == WithCheckpoint \ Top(h).seen
             ended    == (WithCheckpoint \cap Top(h).seen) \ Top(h).waiting
             hopeless == Top(h).waiting \ WithCheckpoint
  <2>1. orphans \in SUBSET Runs /\ ended \in SUBSET Runs /\ hopeless \in SUBSET Runs
    BY <1>2, <1>5 DEF Tasks
  <2>2. Instead(h, Each(orphans, "clear") \o Each(ended, "clear") \o Each(hopeless, "give_up"))
    BY <1>8 DEF AuditsCheckpoints
  <2> HIDE DEF orphans, ended, hopeless
  <2>3. Each(orphans, "clear") \o Each(ended, "clear") \in Seq(SafeTasks(approved, outbox))
    BY <1>4, <2>1, ConcatProperties
  <2>4. Each(orphans, "clear") \o Each(ended, "clear") \o Each(hopeless, "give_up")
          \in Seq(SafeTasks(approved, outbox))
    BY <1>4, <2>1, <2>3, ConcatProperties
  <2> QED BY <1>2, <1>3, <2>2, <2>4, StackStep
<1> QED BY <1>6, <1>7, <1>8

(* Every access to a store.                                                *)
LEMMA StoreIsSafe ==
  ASSUME StoreInv, NEW h \in Handlers, Store(h)
  PROVE  StoreInv'
BY SavesIsSafe, ClearsIsSafe, FailsIsSafe, LooksIsSafe DEF Store

-----------------------------------------------------------------------------
(* The world around, and all of it.                                        *)

(* The startup, healthy or not.                                            *)
LEMMA StartsUpIsSafe ==
  ASSUME StoreInv, StartsUp
  PROVE  StoreInv'
<1>1. "startup" \in Handlers /\ todo["startup"] # <<>>
  BY DEF Handlers, StartsUp, Doing
<1>2. Repair \in Seq(SafeTasks(approved, outbox)) /\ <<>> \in Seq(SafeTasks(approved, outbox))
  BY RepairIsSafe, EmptySeq
<1>3. UNCHANGED <<stores, used, approved>> /\ count' \in Counts
  BY DEF StartsUp, StoreInv, Counts
<1> QED BY <1>1, <1>2, <1>3, StackStep DEF StartsUp

(* A wait that grows too old.                                              *)
LEMMA AgesIsSafe ==
  ASSUME StoreInv, Ages
  PROVE  StoreInv'
<1>1. PICK r \in Waiting : row' = [row EXCEPT ![r].overdue = TRUE]
  BY DEF Ages
<1>2. r \in Runs /\ row[r] \in Rows /\ row[r].status = "waiting_hitl"
  BY DEF Waiting, StoreInv
<1>3. /\ [row[r] EXCEPT !.overdue = TRUE] \in Rows
      /\ [row[r] EXCEPT !.overdue = TRUE].filed = row[r].filed
  <2>1. row[r] # NoRow
    BY <1>2 DEF NoRow
  <2> QED BY <1>2, <2>1 DEF Rows
<1>4. /\ row' \in [Runs -> Rows]
      /\ \A q \in Runs : row'[q].filed = row[q].filed
  BY <1>1, <1>2, <1>3 DEF StoreInv
<1>5. UNCHANGED <<checkpoint, outbox, todo, used, approved>>
  BY DEF Ages
<1>6. count' \in Counts
  <2>1. count \in Counts /\ count' = [count EXCEPT !.ages = @ + 1]
    BY DEF StoreInv, Counts, Ages
  <2> QED BY <2>1 DEF Counts
<1>7. SafeStores(approved, outbox)'
  BY <1>4, <1>5 DEF StoreInv, SafeStores
<1> QED BY <1>4, <1>5, <1>6, <1>7 DEF StoreInv, Counts

(* A crash, between any two steps.                                         *)
LEMMA CrashesIsSafe ==
  ASSUME StoreInv, Crashes
  PROVE  StoreInv'
<1>1. UNCHANGED <<row, checkpoint, outbox, used, approved>>
  BY DEF Crashes, stores
<1>2. <<StoreTask("startup")>> \in Seq(SafeTasks(approved, outbox))
  BY StoreTaskIsSafe, Stacks DEF OfNoRun
<1>3. <<>> \in Seq(SafeTasks(approved, outbox))
  BY EmptySeq
<1>4. todo' \in [Handlers -> Seq(SafeTasks(approved, outbox))]
  BY <1>2, <1>3 DEF Crashes
<1>5. count' \in Counts
  <2>1. count \in Counts /\ count' = [count EXCEPT !.crashes = @ + 1]
    BY DEF StoreInv, Counts, Crashes
  <2> QED BY <2>1 DEF Counts
<1>6. SafeStores(approved, outbox)'
  BY <1>1 DEF StoreInv, SafeStores
<1> QED BY <1>1, <1>4, <1>5, <1>6 DEF StoreInv, Counts

(* The empty stores.                                                       *)
LEMMA InitIsSafe == Init => StoreInv
<1> SUFFICES ASSUME Init PROVE StoreInv
  OBVIOUS
<1>1. row \in [Runs -> Rows] /\ \A r \in Runs : ~row[r].filed
  BY DEF Init, Rows, NoRow
<1>2. /\ NoCheckpoint \in Checkpoints /\ NoCheckpoint.at = "none" /\ ~NoCheckpoint.st.filed
  BY StateFacts DEF NoCheckpoint, Checkpoints
<1>3. /\ checkpoint \in [Runs -> Checkpoints]
      /\ \A r \in Runs : checkpoint[r].at = "none" /\ ~checkpoint[r].st.filed
  BY <1>2 DEF Init
<1>4. outbox \in [Runs -> Files] /\ \A r \in Runs : outbox[r] = "none"
  BY DEF Init, Files
<1>5. todo \in [Handlers -> Seq(SafeTasks(approved, outbox))]
  BY EmptySeq DEF Init
<1>6. count \in Counts /\ used = {} /\ approved = {}
  BY DEF Init, Counts
<1> QED BY <1>1, <1>3, <1>4, <1>5, <1>6 DEF StoreInv, SafeStores, Counts

(* All of the steps together.                                              *)
LEMMA StepIsSafe == StoreInv /\ [Next]_vars => StoreInv'
<1> SUFFICES ASSUME StoreInv, [Next]_vars PROVE StoreInv'
  OBVIOUS
<1>1. Threads \subseteq Handlers /\ "startup" \in Handlers
  BY DEF Handlers
<1>2. ASSUME NEW h \in Threads, Request(h) \/ Work(h) PROVE StoreInv'
  BY <1>1, <1>2, RequestIsSafe, GraphIsSafe, StoreIsSafe DEF Work
<1>3. CASE StartsUp \/ Store("startup") \/ Ages \/ Crashes
  BY <1>1, <1>3, StartsUpIsSafe, StoreIsSafe, AgesIsSafe, CrashesIsSafe
<1>4. CASE UNCHANGED vars
  BY <1>4 DEF vars, StoreInv, SafeStores
<1> QED BY <1>2, <1>3, <1>4 DEF Next

(* The invariant the other theorems rest on.                               *)
THEOREM StoresAreSafe == Spec => []StoreInv
BY InitIsSafe, StepIsSafe, PTL DEF Spec

(* Rows, checkpoints, files and the stacks of all handlers keep their      *)
(* types (tracing/store.py, graph/builder.py).                             *)
THEOREM StoresHaveTheirType == Spec => []TypeOK
<1>1. StoreInv => TypeOK
  <2> SUFFICES ASSUME StoreInv PROVE TypeOK
    OBVIOUS
  <2>1. SafeTasks(approved, outbox) \subseteq Tasks
    BY DEF SafeTasks
  <2>2. todo \in [Handlers -> Seq(Tasks)]
    <3> DEFINE S == SafeTasks(approved, outbox)
    <3>1. todo \in [Handlers -> Seq(S)] /\ S \subseteq Tasks
      BY <2>1 DEF StoreInv
    <3> HIDE DEF S
    <3>2. \A s \in Seq(S) : s \in Seq(Tasks)
      BY <3>1, SeqMonotonic
    <3> QED BY <3>1, <3>2
  <2> QED BY <2>2 DEF StoreInv, TypeOK
<1> QED BY <1>1, StoresAreSafe, PTL

(* No file is ever in the outbox for a run that no chief approved and the  *)
(* gate did not let go by itself, for every number of handlers, crashes    *)
(* and repairs (nodes.py submit_node).                                     *)
THEOREM OnlyApprovedRunsAreFiled == Spec => []FiledIsApproved
<1>1. StoreInv => FiledIsApproved
  BY DEF StoreInv, SafeStores, FiledIsApproved, Filed
<1> QED BY <1>1, StoresAreSafe, PTL

(* A row that names a ticket was never written before its file was begun,  *)
(* whatever crashed in between (runner._persist).                          *)
THEOREM FilesComeFirst == Spec => []FileBeforeRow
<1>1. StoreInv => FileBeforeRow
  BY DEF StoreInv, SafeStores, FileBeforeRow, Filed
<1> QED BY <1>1, StoresAreSafe, PTL

-----------------------------------------------------------------------------
(* Files that cannot be read.                                              *)

Counted == count.crashes \in 0 .. MaxCrashes /\ count.faults \in 0 .. MaxFaults
Undisturbed == count.crashes = 0 /\ count.faults = 0

(* While nothing has crashed or raised, a file is cut only as long as a    *)
(* handler is at it, however many handlers write the same file over        *)
(* (FileOutboxDestination.submit).                                         *)
CutInv ==
  /\ Counted
  /\ Undisturbed => \A r \in Runs : outbox[r] = "cut" => Rewriting(r)

(* The other handlers stay where they are, and nothing is forgotten of     *)
(* crashes and exceptions.                                                 *)
Moves(h) ==
  /\ \A g \in Handlers : g # h => todo'[g] = todo[g]
  /\ count'.crashes = count.crashes
  /\ count'.faults # count.faults => count'.faults = count.faults + 1 /\ count.faults < MaxFaults

LEMMA InsteadMoves ==
  ASSUME StoreInv, NEW h \in Handlers, NEW tasks, Instead(h, tasks),
         \/ UNCHANGED count
         \/ count.faults < MaxFaults /\ count' = [count EXCEPT !.faults = @ + 1]
  PROVE  Moves(h) /\ Instead(h, tasks)
<1>1. \A g \in Handlers : g # h => todo'[g] = todo[g]
  BY DEF StoreInv, Instead
<1>2. count'.crashes = count.crashes
  BY DEF StoreInv
<1>3. count'.faults # count.faults => count'.faults = count.faults + 1 /\ count.faults < MaxFaults
  BY DEF StoreInv
<1> QED BY <1>1, <1>2, <1>3 DEF Moves

LEMMA MovesAreCounted ==
  ASSUME StoreInv, Counted, NEW h \in Handlers, Moves(h)
  PROVE  Counted' /\ (Undisturbed' => Undisturbed) /\ Moves(h)
<1>1. count.crashes \in Nat /\ count.faults \in Nat
  BY DEF StoreInv
<1>2. MaxCrashes \in Nat /\ MaxFaults \in Nat
  BY StoreAssumption
<1>3. Counted'
  BY <1>1, <1>2 DEF Counted, Moves
<1>4. Undisturbed' => Undisturbed
  BY <1>1 DEF Undisturbed, Moves
<1> QED BY <1>3, <1>4

(* A handler that is not at a file leaves every file to whom it is at.     *)
LEMMA ElsewhereKeepsFiles ==
  ASSUME StoreInv, CutInv, NEW h \in Handlers, Moves(h), ~Doing(h, "close"), UNCHANGED outbox
  PROVE  CutInv' /\ Moves(h)
<1>1. Counted' /\ (Undisturbed' => Undisturbed)
  BY MovesAreCounted DEF CutInv
<1>2. ASSUME Undisturbed', NEW r \in Runs, outbox'[r] = "cut"
      PROVE  Rewriting(r)'
  <2>1. PICK g \in Handlers : Doing(g, "close") /\ Run(g) = r
    BY <1>1, <1>2 DEF CutInv, Rewriting
  <2>2. todo'[g] = todo[g]
    BY <2>1 DEF Moves
  <2> QED BY <2>1, <2>2 DEF Rewriting, Doing, Run, Top
<1> QED BY <1>1, <1>2 DEF CutInv

(* The steps of the graph that open and close no file.                     *)
LEMMA GraphKeepsFiles ==
  ASSUME StoreInv, CutInv, NEW h \in Handlers,
         \/ GraphBegins(h) \/ ChecksCheckpoint(h) \/ GraphResumes(h) \/ GraphDecides(h)
         \/ GraphReplays(h) \/ GraphFindsNoFile(h) \/ GraphFiled(h) \/ GraphReturns(h)
         \/ GraphRaises(h)
  PROVE  CutInv' /\ h \in Handlers
<1>1. ~Doing(h, "close") /\ UNCHANGED outbox
  <2>1. CASE GraphBegins(h)
    BY <2>1 DEF GraphBegins, Doing, stores
  <2>2. CASE ChecksCheckpoint(h)
    BY <2>2 DEF ChecksCheckpoint, Doing, stores
  <2>3. CASE GraphResumes(h)
    BY <2>3 DEF GraphResumes, Doing, stores
  <2>4. CASE GraphDecides(h)
    BY <2>4 DEF GraphDecides, Doing, stores
  <2>5. CASE GraphReplays(h) \/ GraphFindsNoFile(h)
    BY <2>5 DEF GraphReplays, GraphFindsNoFile, Doing
  <2>6. CASE GraphFiled(h)
    BY <2>6 DEF GraphFiled, Doing
  <2>7. CASE GraphReturns(h)
    BY <2>7 DEF GraphReturns, Doing, stores
  <2>8. CASE GraphRaises(h)
    BY <2>8 DEF GraphRaises, Doing, stores
  <2> QED BY <2>1, <2>2, <2>3, <2>4, <2>5, <2>6, <2>7, <2>8
<1>2. \E tasks : Instead(h, tasks)
  <2>1. CASE GraphBegins(h)
    BY <2>1 DEF GraphBegins, Reaches
  <2>2. CASE ChecksCheckpoint(h)
    BY <2>2 DEF ChecksCheckpoint
  <2>3. CASE GraphResumes(h)
    BY <2>3 DEF GraphResumes
  <2>4. CASE GraphDecides(h)
    BY <2>4 DEF GraphDecides, Reaches
  <2>5. CASE GraphReplays(h) \/ GraphFindsNoFile(h)
    BY <2>5 DEF GraphReplays, GraphFindsNoFile, Ticket
  <2>6. CASE GraphFiled(h)
    BY <2>6 DEF GraphFiled, Reaches
  <2>7. CASE GraphReturns(h)
    BY <2>7 DEF GraphReturns
  <2>8. CASE GraphRaises(h)
    BY <2>8 DEF GraphRaises
  <2> QED BY <2>1, <2>2, <2>3, <2>4, <2>5, <2>6, <2>7, <2>8
<1>3. \/ UNCHANGED count
      \/ count.faults < MaxFaults /\ count' = [count EXCEPT !.faults = @ + 1]
  BY DEF GraphBegins, ChecksCheckpoint, GraphResumes, GraphDecides, GraphReplays,
         GraphFindsNoFile, Ticket, GraphFiled, GraphReturns, GraphRaises
<1> QED BY <1>1, <1>2, <1>3, InsteadMoves, ElsewhereKeepsFiles

(* Opening a file leaves the handler at it.                                *)
LEMMA OpeningIsSeen ==
  ASSUME StoreInv, CutInv, NEW h \in Handlers, GraphOpensFile(h)
  PROVE  CutInv' /\ h \in Handlers
<1>1. Run(h) \in Runs /\ todo[h] # <<>> /\ Top(h) \in Tasks
  BY TopFacts, RunFacts DEF GraphOpensFile, OfNoRun
<1>2. /\ Instead(h, <<GraphTask(h, "close", Top(h).st)>>)
      /\ outbox' = [outbox EXCEPT ![Run(h)] = "cut"] /\ UNCHANGED count
  BY DEF GraphOpensFile, Ticket
<1>3. Moves(h)
  BY <1>2, InsteadMoves
<1>4. Counted' /\ (Undisturbed' => Undisturbed)
  BY <1>3, MovesAreCounted DEF CutInv
<1>5. PICK s : s = GraphTask(h, "close", Top(h).st)
  OBVIOUS
<1>6. s.op = "close" /\ s.run = Run(h)
  BY <1>1, <1>5 DEF GraphTask, Tasks, Run
<1>7. PICK rest \in Seq(SafeTasks(approved, outbox)) : rest = Tail(todo[h])
  BY <1>1, HeadTailProperties DEF StoreInv
<1>8. todo'[h] = <<s>> \o rest
  BY <1>2, <1>5, <1>7 DEF Instead, StoreInv
<1>9. todo'[h] # <<>> /\ Head(todo'[h]) = s
  BY <1>7, <1>8
<1>10. PICK q \in Runs : q = Run(h)
  BY <1>1
<1>11. Rewriting(q)'
  BY <1>6, <1>9, <1>10 DEF Rewriting, Doing, Run, Top
<1>12. ASSUME Undisturbed', NEW r \in Runs, outbox'[r] = "cut"
       PROVE  Rewriting(r)'
  <2>1. CASE r = q
    BY <1>11, <2>1
  <2>2. CASE r # q
    <3>1. outbox[r] = "cut"
      BY <1>2, <1>10, <1>12, <2>2 DEF StoreInv
    <3>2. PICK g \in Handlers : Doing(g, "close") /\ Run(g) = r
      BY <1>4, <1>12, <3>1 DEF CutInv, Rewriting
    <3>3. g # h
      BY <1>10, <2>2, <3>2
    <3>4. todo'[g] = todo[g]
      BY <1>3, <3>3 DEF Moves
    <3> QED BY <3>2, <3>4 DEF Rewriting, Doing, Run, Top
  <2> QED BY <2>1, <2>2
<1> QED BY <1>4, <1>12 DEF CutInv

(* The file a handler was at is whole when it leaves it.                   *)
LEMMA ClosingIsWhole ==
  ASSUME StoreInv, CutInv, NEW h \in Handlers, GraphFiles(h)
  PROVE  CutInv' /\ h \in Handlers
<1>1. PICK q \in Runs : q = Run(h)
  BY RunFacts DEF GraphFiles, OfNoRun
<1>2. /\ Instead(h, <<GraphTask(h, "filed", HasTicket(h))>>)
      /\ outbox' = [outbox EXCEPT ![q] = "whole"] /\ UNCHANGED count
  BY <1>1 DEF GraphFiles, Ticket
<1>3. Moves(h)
  BY <1>2, InsteadMoves
<1>4. Counted' /\ (Undisturbed' => Undisturbed)
  BY <1>3, MovesAreCounted DEF CutInv
<1>5. ASSUME Undisturbed', NEW r \in Runs, outbox'[r] = "cut"
      PROVE  Rewriting(r)'
  <2>1. r # q /\ outbox[r] = "cut"
    BY <1>2, <1>5 DEF StoreInv
  <2>2. PICK g \in Handlers : Doing(g, "close") /\ Run(g) = r
    BY <1>4, <1>5, <2>1 DEF CutInv, Rewriting
  <2>3. g # h
    BY <1>1, <2>1, <2>2
  <2>4. todo'[g] = todo[g]
    BY <1>3, <2>3 DEF Moves
  <2> QED BY <2>2, <2>4 DEF Rewriting, Doing, Run, Top
<1> QED BY <1>4, <1>5 DEF CutInv

(* A handler that fails at a file is an exception; one that finds it cut   *)
(* leaves it to whoever is at it.                                          *)
LEMMA FailingIsCounted ==
  ASSUME StoreInv, CutInv, NEW h \in Handlers, SubmitFails(h)
  PROVE  CutInv' /\ h \in Handlers
<1>1. /\ Instead(h, <<GraphTask(h, "filed", [Top(h).st EXCEPT !.status = "failed"])>>)
      /\ UNCHANGED outbox
  BY DEF SubmitFails, stores
<1>2. CASE Doing(h, "file") /\ UNCHANGED count
  <2>1. ~Doing(h, "close")
    BY <1>2 DEF Doing
  <2> QED BY <1>1, <1>2, <2>1, InsteadMoves, ElsewhereKeepsFiles
<1>3. CASE count.faults < MaxFaults /\ count' = [count EXCEPT !.faults = @ + 1]
  <2>1. Moves(h)
    BY <1>1, <1>3, InsteadMoves
  <2>2. Counted'
    BY <2>1, MovesAreCounted DEF CutInv
  <2>3. ~Undisturbed'
    BY <1>3 DEF StoreInv, Undisturbed
  <2> QED BY <2>2, <2>3 DEF CutInv
<1> QED BY <1>2, <1>3 DEF SubmitFails

(* Requests, and the handlers' work on the other stores.                   *)
LEMMA RequestKeepsFiles ==
  ASSUME StoreInv, CutInv, NEW h \in Handlers, Request(h)
  PROVE  CutInv' /\ h \in Handlers
<1>1. UNCHANGED outbox /\ \E tasks : Accepts(h, tasks)
  <2>1. CASE CreateRun(h)
    BY <2>1 DEF CreateRun, stores
  <2>2. CASE ValidatePlaybook(h)
    BY <2>2 DEF ValidatePlaybook, stores
  <2>3. CASE DecideHitl(h)
    BY <2>3 DEF DecideHitl, stores
  <2>4. CASE CancelRun(h)
    BY <2>4 DEF CancelRun, stores
  <2>5. CASE PersistenceRepair(h)
    BY <2>5 DEF PersistenceRepair, stores
  <2> QED BY <2>1, <2>2, <2>3, <2>4, <2>5 DEF Request
<1>2. PICK tasks : Accepts(h, tasks)
  BY <1>1
<1>3. ~Doing(h, "close")
  BY <1>2 DEF Accepts, Doing
<1>4. Moves(h)
  BY <1>2 DEF Accepts, Moves, StoreInv
<1> QED BY <1>1, <1>3, <1>4, ElsewhereKeepsFiles

LEMMA StoreKeepsFiles ==
  ASSUME StoreInv, CutInv, NEW h \in Handlers, Store(h)
  PROVE  CutInv' /\ h \in Handlers
<1>1. UNCHANGED <<outbox, count>>
  BY DEF Store, Saves, Scans, Expires, Clears, AuditsRows, AuditsCheckpoints, GivesUp, stores
<1>2. ~Doing(h, "close")
  BY DEF Store, Saves, Scans, Expires, Clears, AuditsRows, AuditsCheckpoints, GivesUp, Doing
<1>3. \E tasks : Instead(h, tasks)
  <2>1. CASE AuditsCheckpoints(h)
    BY <2>1 DEF AuditsCheckpoints
  <2>2. CASE ~AuditsCheckpoints(h)
    BY <2>2 DEF Store, Saves, Scans, Expires, Clears, AuditsRows, GivesUp
  <2> QED BY <2>1, <2>2
<1> QED BY <1>1, <1>2, <1>3, InsteadMoves, ElsewhereKeepsFiles

LEMMA CutInvStep == StoreInv /\ CutInv /\ [Next]_vars => CutInv'
<1> SUFFICES ASSUME StoreInv, CutInv, [Next]_vars PROVE CutInv'
  OBVIOUS
<1>1. Threads \subseteq Handlers /\ "startup" \in Handlers
  BY DEF Handlers
<1>2. ASSUME NEW h \in Threads, Request(h) \/ Work(h) PROVE CutInv'
  BY <1>1, <1>2, RequestKeepsFiles, StoreKeepsFiles, GraphKeepsFiles, OpeningIsSeen,
     ClosingIsWhole, FailingIsCounted DEF Work, Graph
<1>3. CASE StartsUp
  <2>1. ~Doing("startup", "close") /\ UNCHANGED <<outbox, count>>
    BY <1>3 DEF StartsUp, Doing, stores
  <2>2. \E tasks : Instead("startup", tasks)
    BY <1>3 DEF StartsUp
  <2> QED BY <1>1, <2>1, <2>2, InsteadMoves, ElsewhereKeepsFiles
<1>4. CASE Store("startup")
  BY <1>1, <1>4, StoreKeepsFiles
<1>5. CASE Ages
  <2>1. UNCHANGED <<outbox, todo>> /\ count' = [count EXCEPT !.ages = @ + 1]
    BY <1>5 DEF Ages
  <2>2. count'.crashes = count.crashes /\ count'.faults = count.faults
    BY <2>1 DEF StoreInv
  <2> QED BY <2>1, <2>2 DEF CutInv, Counted, Undisturbed, Rewriting, Doing, Run, Top
<1>6. CASE Crashes
  <2>1. count.crashes < MaxCrashes /\ count' = [count EXCEPT !.crashes = @ + 1]
    BY <1>6 DEF Crashes
  <2>2. count.crashes \in Nat /\ MaxCrashes \in Nat
    BY StoreAssumption DEF StoreInv
  <2>3. count'.crashes = count.crashes + 1 /\ count'.faults = count.faults
    BY <2>1 DEF StoreInv
  <2>4. Counted' /\ ~Undisturbed'
    BY <2>1, <2>2, <2>3 DEF CutInv, Counted, Undisturbed
  <2> QED BY <2>4 DEF CutInv
<1>7. CASE UNCHANGED vars
  BY <1>7 DEF vars, CutInv, Counted, Undisturbed, Rewriting, Doing, Run, Top
<1> QED BY <1>2, <1>3, <1>4, <1>5, <1>6, <1>7 DEF Next

(* A file that cannot be read is being written, or was left by a crash or  *)
(* an exception, for any number of handlers.                               *)
THEOREM CutFilesAreInHand == Spec => []CutInv
<1>1. Init => CutInv
  <2> SUFFICES ASSUME Init PROVE CutInv
    OBVIOUS
  <2>1. Counted
    BY StoreAssumption DEF Init, Counted
  <2>2. \A r \in Runs : outbox[r] # "cut"
    BY DEF Init
  <2> QED BY <2>1, <2>2 DEF CutInv
<1> QED BY <1>1, CutInvStep, StoresAreSafe, PTL DEF Spec

(* Without crashes and exceptions, which is what store_threads runs, a row *)
(* that names a ticket is backed by a file that can be read or is just     *)
(* being written over, however many handlers file the run at once.         *)
THEOREM TicketsSurviveRivals ==
  ASSUME MaxCrashes = 0, MaxFaults = 0
  PROVE  Spec => []NoPhantomTicket
<1>1. StoreInv /\ CutInv => NoPhantomTicket
  <2> SUFFICES ASSUME StoreInv, CutInv PROVE NoPhantomTicket
    OBVIOUS
  <2>1. Undisturbed
    BY DEF CutInv, Counted, Undisturbed
  <2>2. ASSUME NEW r \in Runs, row[r].filed PROVE outbox[r] = "whole" \/ Rewriting(r)
    <3>1. outbox[r] \in Files /\ outbox[r] # "none"
      BY <2>2 DEF StoreInv, SafeStores
    <3> QED BY <2>1, <3>1 DEF CutInv, Files
  <2> QED BY <2>2 DEF NoPhantomTicket
<1> QED BY <1>1, StoresAreSafe, CutFilesAreInHand, PTL

=============================================================================
